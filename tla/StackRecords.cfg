CONSTANTS
  p1 = p1
  p2 = p2
  p3 = p3
  f1 = f1
  f2 = f2
  n1 = n1
  n2 = n2
  Proc = {p1, p2, p3}
  Pid = {n1, n2}
  File = {f1, f2}
  Root <- MCRoot
  HasIdentity = TRUE
  None = None
SPECIFICATION Spec
INVARIANTS ManifestExclusive RecordCoversUse LockNeverWedged
PROPERTIES RecordKept OwnershipRefined
CHECK_DEADLOCK FALSE
