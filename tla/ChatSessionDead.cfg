CONSTANTS
  Asks = {a1}
  MaxTurns = 2
  MaxSends = 3
  Strict = FALSE
  None = None
SPECIFICATION Spec
INVARIANTS DeadIsNotActive
CHECK_DEADLOCK FALSE
