SPECIFICATION Spec
CONSTANTS
  ClientTimeoutMs = 60000
  ExpectCpuset = 2
  BandLimit = 3
  BaselineFit = TRUE
  BucketLo = 0
  BucketHi = 400
  RangeLo = 26
  RangeHi = 172
  MaxReps = 2
  MaxOdd = 2
  MaxNoisy = 1
  Designs <- AllDesigns
  Sources <- BothSources
  Drifts <- Trends
CHECK_DEADLOCK FALSE
INVARIANTS
  HeadlinesAgree RejectedHasNoSay OneDeltaPerProcess FailsOnlyWithoutBaseline
   FitBetweenCells DfBounded 
