CONSTANTS
  ClientTimeoutMs = 60000
  ExpectCpuset = 2
  NCells = 2
  Arms <- OffOnOff
  RestartEach = TRUE
  ReadFaults = 1
  ApplyFaults = 1
  RestartFaults = 0
  Disruptions = 1
  JobFaults = 1
  AnyFaults = 1
  MayBeKilled = TRUE
  BandLimit = 3
  BaselineFit = FALSE
SPECIFICATION Spec
INVARIANTS TypeOK  AcceptedOneProcess AcceptedUnderLoad FreshJvmPerArm   LoadedFromKnownState Lockstep
PROPERTIES ImplementsLog Terminates
CHECK_DEADLOCK FALSE
