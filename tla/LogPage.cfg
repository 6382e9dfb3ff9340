CONSTANTS
  Clients = {c1, c2}
  Writers = {w1, w2}
  MaxEntries = 3
  Retained = 2
  Passed = Passed
  None = None
SPECIFICATION PageSpec
SYMMETRY Symmetry
INVARIANTS NoGapNoDuplicate KeepsWhatCame
CHECK_DEADLOCK FALSE
