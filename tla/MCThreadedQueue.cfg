CONSTANTS
  Nobody = Nobody
  Workers = {w1, w2}
  Loops = {server, cache}
  Interruptible = {cache}
  MayFail = {server}
  MaxRequests = 2
SPECIFICATION FairSpec
INVARIANTS RequestThere QuietAfterStop
PROPERTIES StopReturns RequestsServed
CHECK_DEADLOCK FALSE
