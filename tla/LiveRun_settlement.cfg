SPECIFICATION Spec
CONSTANTS
  MaxCalls = 2
  Results = {"completed", "failed", "raised"}
  Mishaps = {"preflight", "mark", "history", "build", "record", "slow", "drop"}
INVARIANTS DurableBeforeTerminal SnapshotMatchesRow
CHECK_DEADLOCK FALSE
