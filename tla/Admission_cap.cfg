SPECIFICATION FairSpec
CONSTANTS
  Requests = {"q1", "q2", "q3", "q4"}
  RunIds = {"r1", "r2", "r3"}
  RunOf <- SharedRun
  Capacity = 2
  Mishaps = {"db", "disconnect", "unstarted"}
INVARIANTS TypeOK PermitsAccounted OneStreamPerRun EnginesCapped
PROPERTY EveryRequestAnswered
CHECK_DEADLOCK FALSE
