CONSTANTS
  a1 = a1
  a2 = a2
  b1 = b1
  Thread <- MCThread
  Owner <- MCOwner
  RoutineKey <- MCRoutineKey
  Client = {1, 2}
  Address = {o1, o2}
  MaxProcesses = 1
  Null = Null
  OPEN_MAX = 1
  IPCMNI = 4
  SHMMNI = 2
  Keys = {k}
  IPC_PRIVATE = IPC_PRIVATE
  MaxSequence = 2
  MaxCalls = 3
SPECIFICATION ShmFairSpec
INVARIANTS HeldObjectLives CacheConsistent CountsExact AttachmentsCovered ViewsAgree
PROPERTIES UsesCache EndedForgotten
CHECK_DEADLOCK FALSE
