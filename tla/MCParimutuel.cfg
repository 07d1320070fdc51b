SPECIFICATION Spec
CONSTANTS
  Users = {u1, u2, u3}
  Outcomes = {0, 1, 2}
  MaxStake = 2
INVARIANTS
  DustIsOnlyRounding
  WinnersGetTheirShare
  RevealIsZeroSum
  RefundPathsAgree
CHECK_DEADLOCK FALSE
