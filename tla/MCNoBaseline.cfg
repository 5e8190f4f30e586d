CONSTANTS
  ClientTimeoutMs = 60000
  ExpectCpuset = 2
  NCells = 1
  Arms <- OffOn
  RestartEach = FALSE
  ReadFaults = 1
  ApplyFaults = 0
  RestartFaults = 0
  Disruptions = 0
  JobFaults = 0
  AnyFaults = 1
  MayBeKilled = FALSE
  BandLimit = 3
  BaselineFit = FALSE
SPECIFICATION Spec
INVARIANTS AnalysisSucceeds
CHECK_DEADLOCK FALSE
