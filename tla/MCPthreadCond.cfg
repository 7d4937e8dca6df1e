CONSTANTS
  Waiter = {w1, w2}
  Signaller = {s1}
  Mutex = {m1, m2}
  MaxPending = 3
  None = None
  Gone = Gone
SPECIFICATION FairSpec
INVARIANTS CondwaitsExact WakeupsAccounted NoStolenWakeup
PROPERTIES NewcomersEnter BroadcastWakes
CHECK_DEADLOCK FALSE
