CONSTANTS
  t1 = t1
  t2 = t2
  Thread = {main, t1, t2}
  Main = main
  Calls <- MCCalls
  Reckless = {}
  MaxPush = 1
  MaxCancel = 2
  None = None
SPECIFICATION Spec
INVARIANTS ObjectsInUse HandlersOnce NoLostWakeup RecordsFreed
CHECK_DEADLOCK FALSE
