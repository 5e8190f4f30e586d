CONSTANTS
  ClientTimeoutMs = 60000
  ExpectCpuset = 2
  NCells = 1
  Arms <- OffOn
  RestartEach = TRUE
  ReadFaults = 0
  ApplyFaults = 0
  RestartFaults = 0
  Disruptions = 1
  JobFaults = 0
  AnyFaults = 1
  MayBeKilled = FALSE
  BandLimit = 3
  BaselineFit = FALSE
SPECIFICATION Spec
INVARIANTS AnalysedWereAccepted
CHECK_DEADLOCK FALSE
