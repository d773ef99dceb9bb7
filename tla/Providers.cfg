SPECIFICATION Spec
CONSTANTS
  None = None
  Tabs = {t1, t2}
  Customs = {"c1"}
  Drafts = {"gateway", "plain"}
  Keys = {k1}
  Models = {"default", "m1"}
  MaxSignIns = 1
  Mishaps = {"storage", "exchange"}
  MaxEdits = 3
  ModelOf <- ModelOfDraft
SYMMETRY TabsAlike
INVARIANTS TabsConverge OneExchangePerSignIn NotLeftMidFlow ActiveIsKnown
PROPERTIES ShownRouteIsSent
CHECK_DEADLOCK FALSE
