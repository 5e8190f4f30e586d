CONSTANTS
  t1 = t1
  t2 = t2
  w1 = w1
  w2 = w2
  Thread = {t1, t2}
  Worker = {w1, w2}
  RingSlots = 2
  Stride = 7919
  Preset <- PresetS
  Env <- HttpSet
  AllowOverrides = FALSE
  Query <- Queries
  MaxDead = 0
  AutovacuumAt = 0
  MaxRequests = 2
  Losses = 1
  Admins = 1
SPECIFICATION Spec
INVARIANTS TypeOK VouchedIsReady SlotsApart RecordedAsDesigned MeasuredTogether
PROPERTIES CalibratesAlone CalibrationEnds
CHECK_DEADLOCK FALSE
