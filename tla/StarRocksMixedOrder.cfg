\* Batches that mix row types, either path, HTTP failures: the unwrap panics
\* and the failed loads happen here.
CONSTANTS
  k1 = k1
  k2 = k2
  Keys <- MCKeys
  MaxRows = 3
  BatchSize = 2
  BatchModes = {TRUE, FALSE}
  Mixed = TRUE
  HttpFailures = TRUE
SPECIFICATION Spec
INVARIANT RecordsMatchLoads
CHECK_DEADLOCK FALSE
