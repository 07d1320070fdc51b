SPECIFICATION FairSpec
CONSTANTS
  None = None
  Host = host
  Users = {p1}
  Outcomes = {0, 1}
  RoundIDs = {r1}
  Keys = {k1, k2}
  Amounts = {1}
  Grants = {2}
  ReadCount = 2
  MaxBatch = 2
  MaxFaults = 2
INVARIANTS
  TypeOK
  NothingLost
  PartitionOrder
  Reconciled
PROPERTIES
  ImplementsExactlyOnce
  EveryEntryRecorded
CHECK_DEADLOCK FALSE
