CONSTANTS
  manifest = manifest
  include = include
  dropped = dropped
  config = config
  File = {manifest, include, dropped, config}
  Manifest = manifest
  Config = config
  Includes <- MCAdded
  Broken <- MCBrokenNew
  Saved = {manifest, include, config}
  MaxSaves = 1
  MaxFailures = 1
  None = None
SPECIFICATION FairSpec
INVARIANTS JudgedIsWatched
PROPERTIES SavesApplied ShutdownEnds
CHECK_DEADLOCK FALSE
