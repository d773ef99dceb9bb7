SPECIFICATION FairSpec
CONSTANTS
  None = None
  Projects = {"p1", "p2"}
  Threads = {"t1", "t2", "t3"}
  FirstList <- OneProject
  FirstOf <- OneThread
  MaxActions = 3
  Mishaps = {"fetch", "request"}
INVARIANT OneOpening
PROPERTIES CreatedThreadOpens NamedThreadsKeepTitle DeletedThreadLeft
CHECK_DEADLOCK FALSE
