SPECIFICATION Spec
CONSTANTS
  None = None
  Threads = {"t1"}
  MsgIds = {"u1", "u2", "a1"}
  Runs = {"r1"}
  OutputOf <- OneOutput
  Payloads <- CrossedPayloads
  Puts <- CrossedPuts
  MaxPending = 2
INVARIANT NoBranchCycle
CHECK_DEADLOCK FALSE
