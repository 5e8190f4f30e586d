CONSTANTS
  Name <- TwoContainers
  MaxCpu = 2
  MaxRestarts = 2
  MaxFaults = 1
SPECIFICATION Spec
INVARIANTS TypeOK NeverNegative ChargedWhatItUsed ScopesAccountForPod
CHECK_DEADLOCK FALSE
