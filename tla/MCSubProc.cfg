CONSTANTS
  Child = {c1, c2}
  Job = {c2}
  Execer = {c1}
  Waiter = {main}
  Main = main
  Requests <- MCRequests
  PSIZE = 3
  NZOMBIES = 2
  MaxTodo = 0
  Dispositions = {"default", "ignore", "handler"}
  NoCldStop = FALSE
  OtherSignals = TRUE
  None = None
SPECIFICATION Spec
INVARIANTS EachChildOnce IndexStable FoundIsKept ScanToCome
PROPERTY EchildHonest
CHECK_DEADLOCK FALSE
