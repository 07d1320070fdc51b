SPECIFICATION Spec
CONSTANTS
  None = None
  Rooms = {m1}
  Folds = {t1, t2}
  Claims = {}
  InitialBalance = 2
  Cap = 2
  Amounts = {1}
  Profits = {}
  RefillTarget = 0
  RefillQuota = 0
  RefillWindow = 2
  MaxTime = 0
  PromptCalls = TRUE
  MaxSockets = 1
  MaxTokens = 3
  MaxSessions = 2
  MaxFaults = 0
SYMMETRY Symmetry
INVARIANTS
  WalletHasOpening
CHECK_DEADLOCK FALSE
