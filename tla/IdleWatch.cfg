CONSTANTS
  Timeout = 2
  StatEvery = 1
  CheckEvery = 2
  MaxPages = 2
SPECIFICATION FairWatchSpec
PROPERTIES ReloadRestartsCountdown UnusedStackStops
CHECK_DEADLOCK FALSE
