SPECIFICATION Spec
CONSTANTS
  Options <- MCOptions
  BatchSizes <- MCBatchSizes
  TapsPerRatio = 1
  MaxSamples = 16
  MaxConfigures = 2
INVARIANTS
  OutputsOfLatestSamples
  OutputsOnTime
PROPERTIES
  BatchesAsSamples
CHECK_DEADLOCK FALSE
