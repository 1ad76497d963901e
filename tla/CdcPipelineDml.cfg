CONSTANTS
  QueueCapacity = 2
  BatchSinkInterval = 1
  CheckpointInterval = 1
  PayloadKinds = {"Dml"}
  MaxLog = 7
  MaxRestarts = 2
SPECIFICATION FairSpec
INVARIANT TypeOK CommittedDelivered CommittedNotAhead
PROPERTY ReceivedMonotone CheckpointProgress
