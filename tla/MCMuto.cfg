CONSTANTS
  NoThread = NoThread
  Thread = {t1, t2, t3}
  TimedThread = {}
  MaxVisits = 2
SPECIFICATION MutoFairSpec
INVARIANT NoLostWakeup
PROPERTIES ImplementsLock AcquireSucceeds
