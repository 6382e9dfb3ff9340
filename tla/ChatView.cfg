CONSTANTS
  c1 = c1
  c2 = c2
  Nothing = Nothing
  Commands = {c1, c2}
  MaxTurns = 2
  MaxItems = 2
  MaxBreaks = 2
  MaxFrames = 5
SPECIFICATION ViewSpec
INVARIANTS CancelledDidNotRun TrackedIsOver BusyEnds
SYMMETRY Symmetry
CHECK_DEADLOCK FALSE
