SPECIFICATION FairSpec
CONSTANTS
  None = None
  MaxRounds = 2
  Host = h
  Players = {p1}
  Grant = 2
  Amounts = {1}
  PromptPages = TRUE
  Reloaders = {p1}
  MaxReloads = 1
  MaxBehind = 2
  MaxBets = 2
  MaxFaults = 1
INVARIANTS
  PageShowsWallet
  OddsAreThisRounds
PROPERTIES
  SettlesWhatTheHostSaw
  PageLearnsTheEnd
CHECK_DEADLOCK FALSE
