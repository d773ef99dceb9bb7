SPECIFICATION Spec
CONSTANTS
  None = None
  Threads = {"t1"}
  MsgIds = {"u1", "u2", "a1", "a2"}
  Runs = {"r1", "r2"}
  OutputOf <- TwoOutputs
  Payloads <- BranchPayloads
  Puts <- BranchPuts
  MaxPending = 1
INVARIANT RestoredIsSettled
CHECK_DEADLOCK FALSE
