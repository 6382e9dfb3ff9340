SPECIFICATION Spec
CONSTANTS
  f1 = f1
  f2 = f2
  k0 = k0
  k1 = k1
  k2 = k2
  Files <- MCFiles
  Contents <- MCContents
  First = k0
  MaxOpens = 2
  MaxEdits = 2
  MaxSaves = 2
  MaxOutside = 1
  MaxActs = 6
  None = None
SYMMETRY MCSymmetry
CHECK_DEADLOCK FALSE
INVARIANTS SavesReported
PROPERTIES OverwritesSeen UnsavedStays
