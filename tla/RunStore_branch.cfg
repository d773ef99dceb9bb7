SPECIFICATION Spec
CONSTANTS
  None = None
  Threads = {"t1"}
  MsgIds = {"u1", "u2", "a1", "a2"}
  Runs = {"r1", "r2"}
  OutputOf <- TwoOutputs
  Payloads <- BranchPayloads
  Puts <- BranchPuts
  MaxPending = 1
INVARIANTS RefsExist AnswerRecorded FailureReachesSnapshots NoBranchCycle StoreInv
PROPERTIES TerminalIsFinal HeadOnlyExtends NodesAreStable
CHECK_DEADLOCK FALSE
