CONSTANTS
  Thread = {t1, t2, t3, t4}
  Reckless = {t1, t2, t3, t4}
  MaxCalls = 3
  None = None
SPECIFICATION Spec
SYMMETRY ThreadSymmetry
VIEW WithoutResults
INVARIANT WriterExcludesReaders
INVARIANT NoLostWakeup
INVARIANT DestroyedUnused
CHECK_DEADLOCK FALSE
