\* The hard-coded reply LSN (0 here) never lets the slot pass a sunk change.
CONSTANTS
  r1 = r1
  r2 = r2
  Rels <- MCRels
  Filtered = {r2}
  EventKinds = {"Insert", "Commit"}
  MaxWal = 4
  PgQueueCapacity = 1
  HardCodedLsn = 0
  StartLsn = 0
  MaxRestarts = 2
SPECIFICATION FairSpec
PROPERTY SlotAdvances
