SPECIFICATION Spec
CONSTANTS
  None = None
  Host = host
  Users = {host, p1, p2}
  Outcomes = {0, 1}
  HostConns = {h1, h2}
  RoundIDs = {r1}
  Keys = {k1, k2, k3}
  Amounts = {1}
  Grants = {2}
  MaxExpired = 0
  MaxFaults = 0
SYMMETRY Symmetry
INVARIANTS
  TypeOK
  SnapshotIsCurrent
  SettledExactlyOnce
  SettlementCoversPool
  PoolsMirrorWagers
  TokensConserved
CHECK_DEADLOCK FALSE
