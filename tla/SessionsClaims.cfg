SPECIFICATION Spec
CONSTANTS
  None = None
  Rooms = {m1}
  Folds = {t1, t2}
  Claims = {k1, k2, k3}
  InitialBalance = 1
  Cap = 1
  Amounts = {}
  Profits = {}
  RefillTarget = 2
  RefillQuota = 2
  RefillWindow = 2
  MaxTime = 3
  PromptCalls = FALSE
  MaxSockets = 1
  MaxTokens = 3
  MaxSessions = 2
  MaxFaults = 1
SYMMETRY Symmetry
INVARIANTS
  PendingNamesItsFold
  EachSessionFoldedOnce
  SlotsPayForRefills
  QuotaHolds
  RetryAfterHonest
  RefillsNeverStack
CHECK_DEADLOCK FALSE
