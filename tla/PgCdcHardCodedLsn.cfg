\* The hard-coded LSN lies before the stream: restarts replay from start_sln.
CONSTANTS
  r1 = r1
  r2 = r2
  Rels <- MCRels
  Filtered = {r2}
  EventKinds = {"Insert", "Commit"}
  MaxWal = 4
  PgQueueCapacity = 1
  HardCodedLsn = 2
  StartLsn = 0
  MaxRestarts = 2
SPECIFICATION Spec
INVARIANT NoChangeSkipped
