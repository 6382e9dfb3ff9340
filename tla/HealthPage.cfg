CONSTANTS
  Clients = {c1}
  Poller = poller
  Runtime = {}
  MaxChanges = 1
  Requests = {r1}
  None = None
SPECIFICATION FairPageSpec
INVARIANTS HoldsRecorded
PROPERTIES ShowsCurrent PickerReturns
CHECK_DEADLOCK FALSE
