SPECIFICATION Spec
CONSTANTS
  ClientTimeoutMs = 60000
  ExpectCpuset = 2
  BandLimit = 3
  BaselineFit = TRUE
  BucketLo = 0
  BucketHi = 400
  RangeLo = 26
  RangeHi = 172
  MaxReps = 2
  MaxOdd = 0
  MaxNoisy = 0
  Designs <- TwoBaselines
  Sources <- MeasuredOnes
  Drifts <- Trends
CHECK_DEADLOCK FALSE
INVARIANTS TrendRemoved
