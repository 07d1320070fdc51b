SPECIFICATION FairSpec
CONSTANTS
  None = None
  Host = host
  Users = {host, p1}
  Outcomes = {0, 1}
  HostConns = {h1}
  RoundIDs = {r1, r2}
  Keys = {k1}
  Amounts = {1}
  Grants = {1}
  MaxExpired = 0
  MaxFaults = 0
PROPERTIES
  EveryRoundEnds
  IndexLetsGo
CHECK_DEADLOCK FALSE
