CONSTANTS
  ClientTimeoutMs = 60000
  ExpectCpuset = 2
  NCells = 1
  Arms <- OffOffOnOff
  RestartEach = FALSE
  ReadFaults = 1
  ApplyFaults = 0
  RestartFaults = 0
  Disruptions = 1
  JobFaults = 1
  AnyFaults = 2
  MayBeKilled = FALSE
  BandLimit = 3
  BaselineFit = FALSE
SPECIFICATION Spec
INVARIANTS PairedComparesAgentWithNone
CHECK_DEADLOCK FALSE
