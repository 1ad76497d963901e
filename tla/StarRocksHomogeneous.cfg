\* Batches of one row type, either path, windows of two rows, HTTP failures.
CONSTANTS
  k1 = k1
  k2 = k2
  Keys <- MCKeys
  MaxRows = 4
  BatchSize = 2
  BatchModes = {TRUE, FALSE}
  Mixed = FALSE
  HttpFailures = TRUE
SPECIFICATION Spec
INVARIANT TargetMatches LoadedInOrder NoUnwrapPanic TypeOK
PROPERTY ImplementsSinkContract
CHECK_DEADLOCK FALSE
