CONSTANTS
  QueueCapacity = 4
  BatchSinkInterval = 1
  CheckpointInterval = 1
  PayloadKinds = {"Dml", "Ddl"}
  MaxLog = 6
  MaxRestarts = 0
SPECIFICATION Spec
INVARIANT CommittedDelivered
