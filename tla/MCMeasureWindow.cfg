CONSTANTS
  NCells = 2
  Warm = 3
  Dur = 10
  StartMargin = 2
  EndMargin = 1
  StartDeadline = 3
  MaxSkew = 3
  MaxSetup = 2
  Latency = 1
SPECIFICATION Spec
INVARIANTS TypeOK InsideMeasurePhase LoadedTogether HalvesNotEmpty
CHECK_DEADLOCK FALSE
