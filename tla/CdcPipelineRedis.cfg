CONSTANTS
  QueueCapacity = 2
  BatchSinkInterval = 1
  CheckpointInterval = 1
  PayloadKinds = {"Redis", "Ping"}
  MaxLog = 5
  MaxRestarts = 2
SPECIFICATION Spec
INVARIANT CommittedDelivered CommittedNotAhead
