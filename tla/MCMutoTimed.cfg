CONSTANTS
  NoThread = NoThread
  Thread = {t1, t2, t3}
  TimedThread = {t1}
  MaxVisits = 2
SPECIFICATION TimedSpec
INVARIANT MutualExclusion
