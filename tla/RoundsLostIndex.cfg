SPECIFICATION Spec
CONSTANTS
  None = None
  Host = host
  Users = {host}
  Outcomes = {0, 1}
  HostConns = {h1}
  RoundIDs = {r1, r2}
  Keys = {k1}
  Amounts = {1}
  Grants = {1}
  MaxExpired = 0
  MaxFaults = 0
SYMMETRY Symmetry
INVARIANTS
  LiveRoundIsCurrent
CHECK_DEADLOCK FALSE
