CONSTANTS
  QueueCapacity = 2
  BatchSinkInterval = 1
  CheckpointInterval = 1
  MaxRows = 4
  SliceSize = 2
  OrderNullable = FALSE
  MaxQueries = 5
SPECIFICATION FairSpec
INVARIANT TypeOK PushedOnce QueryBound StoppedAllDelivered
PROPERTY Terminates
CHECK_DEADLOCK FALSE
