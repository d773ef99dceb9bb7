SPECIFICATION FairSpec
CONSTANTS
  None = None
  Users = {"u1", "u2", "u3"}
  Answers = {"a1", "a2", "a3"}
  ParentOf <- TreeOfTurns
  InitialHead = "a1"
  Restorable = {"u1", "a1"}
  MaxRetries = 2
  MaxMoves = 3
  Mishaps = {"write", "head", "run", "switch"}
INVARIANTS OrderedWrites PublishedHeadIsRestored
PROPERTIES PostAfterWrites ComesToRest
CHECK_DEADLOCK FALSE
