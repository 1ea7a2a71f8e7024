SPECIFICATION FairSpec
CONSTANTS
  t1 = t1
  t2 = t2
  t3 = t3
  p1 = p1
  p2 = p2
  v1 = v1
  v2 = v2
  Threads = {t1, t2, t3}
  Procs = {p1, p2}
  ProcOf <- TwoAndOne
  Values = {v1, v2}
  None = None
  Start = {None, v1}
  PromptStamp = TRUE
  PromptRename = TRUE
  MaxCalls = 3
INVARIANTS OneOwner CompareHolds
PROPERTIES ImplementsCell WaiterGetsIn
CHECK_DEADLOCK FALSE
