CONSTANTS
  Asks = {a1, a2}
  MaxTurns = 2
  MaxSends = 3
  Strict = FALSE
  None = None
SPECIFICATION Spec
INVARIANTS TurnKeepsStack AsksAreShown
PROPERTIES FailureStays
CHECK_DEADLOCK FALSE
