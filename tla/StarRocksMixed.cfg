\* Batches that mix row types, sunk with batch = true.
CONSTANTS
  k1 = k1
  k2 = k2
  Keys <- MCKeys
  MaxRows = 3
  BatchSize = 2
  BatchModes = {TRUE}
  Mixed = TRUE
  HttpFailures = FALSE
SPECIFICATION Spec
INVARIANT TargetMatches
CHECK_DEADLOCK FALSE
