SPECIFICATION Spec
CONSTANTS
  None = None
  Host = host
  Users = {host, p1}
  Outcomes = {0, 1}
  HostConns = {h1}
  RoundIDs = {r1, r2}
  Keys = {k1}
  Amounts = {1}
  Grants = {2}
  MaxExpired = 1
  MaxFaults = 1
SYMMETRY Symmetry
INVARIANTS
  NoWagerAfterSettlement
  OneDebitPerKey
PROPERTIES
  StatusFollowsLifecycle
  ImplementsAtomicRounds
CHECK_DEADLOCK FALSE
