CONSTANTS
  p1 = p1
  p2 = p2
  p3 = p3
  n1 = n1
  n2 = n2
  host = host
  port = port
  ours = ours
  theirs = theirs
  Process = {p1, p2, p3}
  Pid = {n1, n2}
  Name = {host, port}
  Hosts = {host}
  Manifests = {ours, theirs}
  Manifest <- MCManifest
  Wants <- MCWants
  KillZombies = {p1, p2, p3}
  Overlap = {p1, p2}
  Verified = TRUE
  MaxFaults = 3
  None = None
SPECIFICATION Spec
INVARIANTS Exclusive HeldIsRecorded
PROPERTIES NoRunningStackKilled ExitedClaimsReused
CHECK_DEADLOCK FALSE
