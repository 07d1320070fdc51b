SPECIFICATION FairSpec
CONSTANTS
  None = None
  Rooms = {m1}
  Folds = {t1, t2}
  Claims = {}
  InitialBalance = 2
  Cap = 2
  Amounts = {1}
  Profits = {1}
  RefillTarget = 0
  RefillQuota = 0
  RefillWindow = 2
  MaxTime = 0
  PromptCalls = TRUE
  MaxSockets = 2
  MaxTokens = 3
  MaxSessions = 2
  MaxFaults = 0
INVARIANTS
  TypeOK
PROPERTIES
  AbandonedSessionEnds
CHECK_DEADLOCK FALSE
