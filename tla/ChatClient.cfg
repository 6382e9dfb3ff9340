SPECIFICATION Spec
CONSTANTS
  Sessions = {"a1", "b1", "a2"}
  Old = {"a1", "b1"}
  HarnessOf <- Agents
  Selected = "codex"
  Codex = "codex"
  Composed = {"typed"}
  Requested = {"asked"}
  MaxFaults = 1
  MaxActs = 2
  None = None
CHECK_DEADLOCK FALSE
INVARIANTS FailedIsNotAtWork NewTakesTheMessage
PROPERTY SendsEnd
