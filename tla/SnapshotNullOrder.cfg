CONSTANTS
  QueueCapacity = 2
  BatchSinkInterval = 1
  CheckpointInterval = 1
  MaxRows = 3
  SliceSize = 1
  OrderNullable = TRUE
  MaxQueries = 5
SPECIFICATION Spec
INVARIANT PushedOnce
CHECK_DEADLOCK FALSE
