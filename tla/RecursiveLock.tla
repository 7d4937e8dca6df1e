---------------------------- MODULE RecursiveLock ----------------------------
(***************************************************************************)
(* What the recursive locks of the DLL promise their callers, whatever     *)
(* they do inside: a thread acquires only while no other thread holds the  *)
(* lock, may acquire again while it holds it, and gives its acquires back  *)
(* one by one.                                                             *)
(***************************************************************************)
EXTENDS Naturals

CONSTANT Thread    \* the threads that use the lock

VARIABLE depth     \* how many acquires each thread has not given back

Init == depth = [t \in Thread |-> 0]

Acquire(t) ==
  /\ \A s \in Thread \ {t} : depth[s] = 0
  /\ depth' = [depth EXCEPT ![t] = @ + 1]

Release(t) ==
  /\ depth[t] > 0
  /\ depth' = [depth EXCEPT ![t] = @ - 1]

Next == \E t \in Thread : Acquire(t) \/ Release(t)

Spec == Init /\ [][Next]_depth

=============================================================================
