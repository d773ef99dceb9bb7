SPECIFICATION FairSpec
CONSTANTS
  MaxCalls = 2
  Results = {"completed", "failed", "raised"}
  Mishaps = {"history", "build", "settle", "slow", "timeout"}
INVARIANTS TypeOK DrainedBeforeFinish
PROPERTIES KeepsContract NoToolAfterEnd Ends Answered
CHECK_DEADLOCK FALSE
