SPECIFICATION Spec
CONSTANTS
  db = db
  worker = worker
  h1 = h1
  h2 = h2
  p2 = p2
  Service = {db, worker}
  Manifests <- MCManifests
  Initial <- Base
  Files <- ManifestFiles
  Rank <- StartOrder
  Port = {1, 2}
  MaximumAutoPortRetryCount = 1
  CollisionPhases = {"boot", "change", "recovery"}
  MaxOperations = 1
  MaxRepairs = 1
  MaxCollisions = 1
  MaxLeaks = 1
INVARIANTS
  InstalledIsAccepted
  NoSilentStop
  NoStrayServices
  ClaimsCoverUse
  RoutesLeadToServices
  FilesStayReserved
  RunsAsInstalled
PROPERTIES
  RequestsEnd
  CancelledStops
CHECK_DEADLOCK FALSE
