CONSTANTS
  Thread = {t1, t2, t3}
  Types = {"recursive", "normal"}
  MaxRecursion = 2
  NoOwner = NoOwner
  Anonymous = Anonymous
SPECIFICATION Spec
SYMMETRY ThreadSymmetry
INVARIANT NoLostWakeup
PROPERTY ImplementsLock
CHECK_DEADLOCK FALSE
