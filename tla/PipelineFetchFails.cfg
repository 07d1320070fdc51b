SPECIFICATION Spec
CONSTANTS
  None = None
  Host = host
  Users = {p1}
  Outcomes = {0, 1}
  RoundIDs = {r1}
  Keys = {k1, k2}
  Amounts = {1}
  Grants = {2}
  ReadCount = 2
  MaxBatch = 2
  MaxFaults = 1
SYMMETRY Symmetry
INVARIANTS
  CommittedIsDurable
CHECK_DEADLOCK FALSE
