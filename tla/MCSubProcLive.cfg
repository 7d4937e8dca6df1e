CONSTANTS
  Child = {c1}
  Job = {c1}
  Execer = {}
  Waiter = {main}
  Main = main
  Requests <- MCWaitStopped
  PSIZE = 3
  NZOMBIES = 2
  MaxTodo = 1
  Dispositions = {"default", "handler"}
  NoCldStop = FALSE
  OtherSignals = FALSE
  None = None
SPECIFICATION FairSpec
PROPERTIES DeadChildEndsWait StoppedChildEndsWait
CHECK_DEADLOCK FALSE
