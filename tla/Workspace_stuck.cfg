SPECIFICATION FairSpec
CONSTANTS
  None = None
  Projects = {"p1", "p2"}
  Threads = {"t1", "t2", "t3"}
  FirstList <- OneProject
  FirstOf <- NoThreads
  MaxActions = 2
  Mishaps = {}
PROPERTY ProjectOpens
CHECK_DEADLOCK FALSE
