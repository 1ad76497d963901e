\* The hard-coded LSN lies before the stream: restarts replay from start_sln, and every change is eventually sunk.
CONSTANTS
  r1 = r1
  r2 = r2
  Rels <- MCRels
  Filtered = {r2}
  EventKinds = {"Insert", "Commit"}
  MaxWal = 4
  PgQueueCapacity = 1
  HardCodedLsn = 0
  StartLsn = 0
  MaxRestarts = 2
SPECIFICATION FairSpec
INVARIANT TypeOK NoChangeSkipped
PROPERTY Delivered
