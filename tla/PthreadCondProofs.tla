------------------------- MODULE PthreadCondProofs -------------------------
(***************************************************************************)
(* What TLAPS proves of condition variables, for any finite sets of        *)
(* waiters and signallers and any mutexes.                                 *)
(*                                                                         *)
(* mtx_out has one holder (OutHeld), and mtx_in is locked by one thread    *)
(* that counts itself or on behalf of a round of wakeups (InHeld).  While  *)
(* a round is under way nobody comes in, so everybody counted was there    *)
(* when its wakeups were sent (RoundClosed), and its wakeups are in the    *)
(* semaphore or taken (Accounted).  The exception is a wakeup sent to      *)
(* nobody (Stuck): the only thread counted had brought another mutex and   *)
(* left.  It stays: mtx_in is shut for good.                               *)
(***************************************************************************)
EXTENDS PthreadCond, FiniteSetTheorems, TLAPS

In == {t \in Waiter : Counted(t)}
Took == {t \in Waiter : Taken(t)}
WaitsWith(m) ==
  {t \in Waiter : my[t] = m /\ pc[t] \in {"sleep", "out", "try", "leave", "relock"}}

OutSteps == {"try", "leave", "check", "blockin", "send", "unlock"}
Counting == {t \in Waiter : pc[t] \in {"count", "bad"}}
Sending == {t \in Signaller : pc[t] = "send"}

Apart ==
  /\ \A t \in Waiter : pc[t] \notin {"check", "blockin", "send", "unlock"}
  /\ \A t \in Signaller : pc[t] \in {"idle", "check", "blockin", "send", "unlock"}
  /\ \A t \in Waiter : pc[t] # "idle" => my[t] \in Mutex
  /\ \A t \in Waiter : pc[t] = "try" => rv[t] # "signaled"

OutHeld ==
  /\ \A t \in Thread : pc[t] \in OutSteps => mtx_out = 1
  /\ \A t, u \in Thread : pc[t] \in OutSteps /\ pc[u] \in OutSteps => t = u

InHeld ==
  /\ Counting # {} \/ Sending # {} \/ pending > 0 => mtx_in = 1
  /\ \A t, u \in Counting : t = u
  /\ Counting = {} \/ (Sending = {} /\ pending = 0)

BadMixed == \A t \in Waiter : pc[t] = "bad" => mixed

WaitingExact == waiting = Cardinality(In)

Accounted == pending = sem_wait + Cardinality(Took) /\ pending <= waiting

RoundClosed == pending > 0 => In \subseteq entitled

\* What unblock has found is still true when it sends.
Found ==
  \A t \in Signaller :
    /\ pc[t] = "blockin" => pending = 0 /\ (waiting > 0 \/ mixed)
    /\ pc[t] = "send" => waiting > pending

\* A thread that leaves without a wakeup has left none behind.
Without ==
  \A t \in Waiter : pc[t] = "leave" /\ rv[t] # "signaled" => sem_wait = 0

Stuck == mixed /\ waiting = 0 /\ mtx_in = 1 /\ Counting = {}

Normal == Accounted /\ RoundClosed /\ Found /\ Without

IInv ==
  /\ TypeOK /\ Apart /\ OutHeld /\ InHeld /\ BadMixed /\ WaitingExact /\ CondwaitsExact
  /\ Normal \/ Stuck

-----------------------------------------------------------------------------
(* Proofs *)

\* Counting: a thread that comes is one more,
LEMMA Joins ==
  ASSUME NEW S, IsFiniteSet(S), NEW x, x \notin S
  PROVE  IsFiniteSet(S \cup {x}) /\ Cardinality(S \cup {x}) = Cardinality(S) + 1
BY FS_AddElement

\* and a thread that goes is one less,
LEMMA Leaves ==
  ASSUME NEW S, IsFiniteSet(S), NEW x \in S
  PROVE  Cardinality(S \ {x}) = Cardinality(S) - 1 /\ Cardinality(S) > 0
<1>1. Cardinality(S \ {x}) = Cardinality(S) - 1
  BY FS_RemoveElement
<1>2. Cardinality(S) \in Nat /\ S # {}
  BY FS_CardinalityType
<1>3. QED
  BY <1>1, <1>2, FS_EmptySet

\* since all the sets of waiters are finite.
LEMMA SetsFinite ==
  /\ IsFiniteSet(In) /\ Cardinality(In) \in Nat
  /\ IsFiniteSet(Took) /\ Cardinality(Took) \in Nat
  /\ \A m \in Mutex : IsFiniteSet(WaitsWith(m)) /\ Cardinality(WaitsWith(m)) \in Nat
<1>1. In \subseteq Waiter /\ Took \subseteq Waiter /\ \A m \in Mutex : WaitsWith(m) \subseteq Waiter
  BY DEF In, Took, WaitsWith
<1>2. QED
  BY <1>1, FS_Subset, FS_CardinalityType, ThreadAssumption

\* Waiters and signallers keep to their own steps.
LEMMA ApartStep == TypeOK /\ Apart /\ [Next]_vars => Apart'
<1> SUFFICES ASSUME TypeOK, Apart, [Next]_vars PROVE Apart'
  OBVIOUS
<1> USE ThreadAssumption DEF TypeOK, Apart, Thread
<1>1. ASSUME NEW t \in Waiter, NEW m \in Mutex, LockMutex(t, m) PROVE Apart'
  BY <1>1 DEF LockMutex, Goto, user
<1>2. ASSUME NEW t \in Waiter, UnlockMutex(t) PROVE Apart'
  BY <1>2 DEF UnlockMutex, Goto, user
<1>3. ASSUME NEW t \in Waiter, CallWait(t) PROVE Apart'
  BY <1>3 DEF CallWait, Goto, user
<1>4. ASSUME NEW t \in Waiter, WaitIn(t) PROVE Apart'
  BY <1>4 DEF WaitIn, Goto, user
<1>5. ASSUME NEW t \in Waiter, WaitCount(t) PROVE Apart'
  BY <1>5 DEF WaitCount, Goto, user
<1>6. ASSUME NEW t \in Waiter, WaitBad(t) PROVE Apart'
  BY <1>6 DEF WaitBad, Goto, user
<1>7. ASSUME NEW t \in Waiter, WaitRelease(t) PROVE Apart'
  BY <1>7 DEF WaitRelease, Goto, user
<1>8. ASSUME NEW t \in Waiter, Wakeup(t) PROVE Apart'
  BY <1>8 DEF Wakeup, Goto, user
<1>9. ASSUME NEW t \in Waiter, NEW why \in {"timeout", "canceled"}, GiveUp(t, why)
       PROVE Apart'
  BY <1>9 DEF GiveUp, Goto, user
<1>10. ASSUME NEW t \in Waiter, WaitOut(t) PROVE Apart'
  BY <1>10 DEF WaitOut, Goto, user
<1>11. ASSUME NEW t \in Waiter, Try(t) PROVE Apart'
  BY <1>11 DEF Try, Goto, user
<1>12. ASSUME NEW t \in Waiter, Leave(t) PROVE Apart'
  BY <1>12 DEF Leave, Goto, user
<1>13. ASSUME NEW t \in Waiter, Relock(t) PROVE Apart'
  BY <1>13 DEF Relock, Goto, user
<1>14. ASSUME NEW t \in Signaller, NEW a \in BOOLEAN, Unblock(t, a) PROVE Apart'
  BY <1>14 DEF Unblock, Goto, user
<1>15. ASSUME NEW t \in Signaller, Check(t) PROVE Apart'
  BY <1>15 DEF Check, Goto, user
<1>16. ASSUME NEW t \in Signaller, BlockIn(t) PROVE Apart'
  BY <1>16 DEF BlockIn, Goto, user
<1>17. ASSUME NEW t \in Signaller, Send(t) PROVE Apart'
  BY <1>17 DEF Send, Goto, user
<1>18. ASSUME NEW t \in Signaller, UnblockDone(t) PROVE Apart'
  BY <1>18 DEF UnblockDone, Goto, user
<1>19. ASSUME NEW t \in Thread, Fork(t) PROVE Apart'
  BY <1>19 DEF Fork, Goto, user
<1>20. ASSUME UNCHANGED vars PROVE Apart'
  BY <1>20 DEF vars, counters, user, ghosts
<1>21. QED
  BY <1>1, <1>2, <1>3, <1>4, <1>5, <1>6, <1>7, <1>8, <1>9, <1>10, <1>11,
     <1>12, <1>13, <1>14, <1>15, <1>16, <1>17, <1>18, <1>19, <1>20
  DEF Next, WaiterStep, SignallerStep

\* mtx_out has one holder.
LEMMA OutStep == TypeOK /\ Apart /\ OutHeld /\ [Next]_vars => OutHeld'
<1> SUFFICES ASSUME TypeOK, Apart, OutHeld, [Next]_vars PROVE OutHeld'
  OBVIOUS
<1> USE ThreadAssumption DEF TypeOK, Apart, Thread, OutHeld, OutSteps
<1>1. ASSUME NEW t \in Waiter, NEW m \in Mutex, LockMutex(t, m) PROVE OutHeld'
  BY <1>1 DEF LockMutex, Goto
<1>2. ASSUME NEW t \in Waiter, UnlockMutex(t) PROVE OutHeld'
  BY <1>2 DEF UnlockMutex, Goto
<1>3. ASSUME NEW t \in Waiter, CallWait(t) PROVE OutHeld'
  BY <1>3 DEF CallWait, Goto
<1>4. ASSUME NEW t \in Waiter, WaitIn(t) PROVE OutHeld'
  BY <1>4 DEF WaitIn, Goto
<1>5. ASSUME NEW t \in Waiter, WaitCount(t) PROVE OutHeld'
  BY <1>5 DEF WaitCount, Goto
<1>6. ASSUME NEW t \in Waiter, WaitBad(t) PROVE OutHeld'
  BY <1>6 DEF WaitBad, Goto
<1>7. ASSUME NEW t \in Waiter, WaitRelease(t) PROVE OutHeld'
  BY <1>7 DEF WaitRelease, Goto
<1>8. ASSUME NEW t \in Waiter, Wakeup(t) PROVE OutHeld'
  BY <1>8 DEF Wakeup, Goto
<1>9. ASSUME NEW t \in Waiter, NEW why \in {"timeout", "canceled"}, GiveUp(t, why)
       PROVE OutHeld'
  BY <1>9 DEF GiveUp, Goto
<1>10. ASSUME NEW t \in Waiter, WaitOut(t) PROVE OutHeld'
  BY <1>10 DEF WaitOut, Goto
<1>11. ASSUME NEW t \in Waiter, Try(t) PROVE OutHeld'
  BY <1>11 DEF Try, Goto
<1>12. ASSUME NEW t \in Waiter, Leave(t) PROVE OutHeld'
  BY <1>12 DEF Leave, Goto
<1>13. ASSUME NEW t \in Waiter, Relock(t) PROVE OutHeld'
  BY <1>13 DEF Relock, Goto
<1>14. ASSUME NEW t \in Signaller, NEW a \in BOOLEAN, Unblock(t, a) PROVE OutHeld'
  BY <1>14 DEF Unblock, Goto
<1>15. ASSUME NEW t \in Signaller, Check(t) PROVE OutHeld'
  BY <1>15 DEF Check, Goto
<1>16. ASSUME NEW t \in Signaller, BlockIn(t) PROVE OutHeld'
  BY <1>16 DEF BlockIn, Goto
<1>17. ASSUME NEW t \in Signaller, Send(t) PROVE OutHeld'
  BY <1>17 DEF Send, Goto
<1>18. ASSUME NEW t \in Signaller, UnblockDone(t) PROVE OutHeld'
  BY <1>18 DEF UnblockDone, Goto
<1>19. ASSUME NEW t \in Thread, Fork(t) PROVE OutHeld'
  BY <1>19 DEF Fork, Goto
<1>20. ASSUME UNCHANGED vars PROVE OutHeld'
  BY <1>20 DEF vars, counters, user, ghosts
<1>21. QED
  BY <1>1, <1>2, <1>3, <1>4, <1>5, <1>6, <1>7, <1>8, <1>9, <1>10, <1>11,
     <1>12, <1>13, <1>14, <1>15, <1>16, <1>17, <1>18, <1>19, <1>20
  DEF Next, WaiterStep, SignallerStep

\* The set of threads counted and its count move together.
LEMMA WaitingStep ==
  TypeOK /\ Apart /\ WaitingExact /\ [Next]_vars => WaitingExact'
<1> SUFFICES ASSUME TypeOK, Apart, WaitingExact, [Next]_vars PROVE WaitingExact'
  OBVIOUS
<1> DEFINE Same == In' = In /\ waiting' = waiting
<1> DEFINE Joined(t) == t \notin In /\ In' = In \cup {t} /\ waiting' = waiting + 1
<1> DEFINE Left(t) == t \in In /\ In' = In \ {t} /\ waiting' = waiting - 1
<1> DEFINE Reset == In' = {} /\ waiting' = 0
<1> DEFINE Moved == Same \/ (\E t \in Waiter : Joined(t) \/ Left(t)) \/ Reset
<1> USE ThreadAssumption DEF TypeOK, Apart, Thread, In, Counted
<1>1. ASSUME NEW t \in Waiter, NEW m \in Mutex, LockMutex(t, m) PROVE Moved
  BY <1>1 DEF LockMutex, Goto, counters
<1>2. ASSUME NEW t \in Waiter, UnlockMutex(t) PROVE Moved
  BY <1>2 DEF UnlockMutex, Goto, counters
<1>3. ASSUME NEW t \in Waiter, CallWait(t) PROVE Moved
  BY <1>3 DEF CallWait, Goto, counters
<1>4. ASSUME NEW t \in Waiter, WaitIn(t) PROVE Moved
  BY <1>4 DEF WaitIn, Goto, counters
<1>5. ASSUME NEW t \in Waiter, WaitCount(t) PROVE Moved
  <2>1. Joined(t)
    BY <1>5 DEF WaitCount, Goto
  <2>2. QED
    BY <2>1
<1>6. ASSUME NEW t \in Waiter, WaitBad(t) PROVE Moved
  <2>1. Left(t)
    BY <1>6 DEF WaitBad, Goto
  <2>2. QED
    BY <2>1
<1>7. ASSUME NEW t \in Waiter, WaitRelease(t) PROVE Moved
  BY <1>7 DEF WaitRelease, Goto, counters
<1>8. ASSUME NEW t \in Waiter, Wakeup(t) PROVE Moved
  BY <1>8 DEF Wakeup, Goto, counters
<1>9. ASSUME NEW t \in Waiter, NEW why \in {"timeout", "canceled"}, GiveUp(t, why)
       PROVE Moved
  BY <1>9 DEF GiveUp, Goto, counters
<1>10. ASSUME NEW t \in Waiter, WaitOut(t) PROVE Moved
  BY <1>10 DEF WaitOut, Goto, counters
<1>11. ASSUME NEW t \in Waiter, Try(t) PROVE Moved
  BY <1>11 DEF Try, Goto, counters
<1>12. ASSUME NEW t \in Waiter, Leave(t) PROVE Moved
  <2>1. Left(t)
    BY <1>12 DEF Leave, Goto
  <2>2. QED
    BY <2>1
<1>13. ASSUME NEW t \in Waiter, Relock(t) PROVE Moved
  BY <1>13 DEF Relock, Goto, counters
<1>14. ASSUME NEW t \in Signaller, NEW a \in BOOLEAN, Unblock(t, a) PROVE Moved
  BY <1>14 DEF Unblock, Goto, counters
<1>15. ASSUME NEW t \in Signaller, Check(t) PROVE Moved
  BY <1>15 DEF Check, Goto, counters
<1>16. ASSUME NEW t \in Signaller, BlockIn(t) PROVE Moved
  BY <1>16 DEF BlockIn, Goto, counters
<1>17. ASSUME NEW t \in Signaller, Send(t) PROVE Moved
  BY <1>17 DEF Send, Goto, counters
<1>18. ASSUME NEW t \in Signaller, UnblockDone(t) PROVE Moved
  BY <1>18 DEF UnblockDone, Goto, counters
<1>19. ASSUME NEW t \in Thread, Fork(t) PROVE Moved
  BY <1>19 DEF Fork, Goto, counters
<1>20. ASSUME UNCHANGED vars PROVE Moved
  <2>1. Same
    BY <1>20 DEF vars, counters, user, ghosts
  <2>2. QED
    BY <2>1
<1> HIDE DEF Moved, In, Counted, TypeOK, Apart
<1>21. Moved
  BY <1>1, <1>2, <1>3, <1>4, <1>5, <1>6, <1>7, <1>8, <1>9, <1>10, <1>11,
     <1>12, <1>13, <1>14, <1>15, <1>16, <1>17, <1>18, <1>19, <1>20
  DEF Next, WaiterStep, SignallerStep
<1>22. CASE Same
  BY <1>22 DEF WaitingExact
<1>23. ASSUME NEW t \in Waiter, Joined(t) PROVE WaitingExact'
  BY <1>23, Joins, SetsFinite DEF WaitingExact
<1>24. ASSUME NEW t \in Waiter, Left(t) PROVE WaitingExact'
  BY <1>24, Leaves, SetsFinite DEF WaitingExact
<1>25. CASE Reset
  BY <1>25, FS_EmptySet DEF WaitingExact
<1>26. QED
  BY <1>21, <1>22, <1>23, <1>24, <1>25 DEF Moved

\* The same for the threads that wait with a mutex and its condwaits.
LEMMA CondwaitsStep ==
  ASSUME TypeOK, Apart, [Next]_vars,
         NEW m \in Mutex, condwaits[m] = Cardinality(WaitsWith(m))
  PROVE  condwaits'[m] = Cardinality(WaitsWith(m)')
<1> DEFINE S == WaitsWith(m)
<1> DEFINE Same == S' = S /\ condwaits'[m] = condwaits[m]
<1> DEFINE Joined(t) == t \notin S /\ S' = S \cup {t} /\ condwaits'[m] = condwaits[m] + 1
<1> DEFINE Left(t) == t \in S /\ S' = S \ {t} /\ condwaits'[m] = condwaits[m] - 1
<1> DEFINE Reset == S' = {} /\ condwaits'[m] = 0
<1> DEFINE Moved == Same \/ (\E t \in Waiter : Joined(t) \/ Left(t)) \/ Reset
<1> USE ThreadAssumption DEF TypeOK, Apart, Thread, WaitsWith
<1>1. ASSUME NEW t \in Waiter, NEW n \in Mutex, LockMutex(t, n) PROVE Moved
  BY <1>1 DEF LockMutex, Goto, user
<1>2. ASSUME NEW t \in Waiter, UnlockMutex(t) PROVE Moved
  BY <1>2 DEF UnlockMutex, Goto, user
<1>3. ASSUME NEW t \in Waiter, CallWait(t) PROVE Moved
  BY <1>3 DEF CallWait, Goto, user
<1>4. ASSUME NEW t \in Waiter, WaitIn(t) PROVE Moved
  BY <1>4 DEF WaitIn, Goto, user
<1>5. ASSUME NEW t \in Waiter, WaitCount(t) PROVE Moved
  BY <1>5 DEF WaitCount, Goto, user
<1>6. ASSUME NEW t \in Waiter, WaitBad(t) PROVE Moved
  BY <1>6 DEF WaitBad, Goto, user
<1>7. ASSUME NEW t \in Waiter, WaitRelease(t) PROVE Moved
  <2>1. IF my[t] = m THEN Joined(t) ELSE Same
    BY <1>7 DEF WaitRelease, Goto
  <2>2. QED
    BY <2>1
<1>8. ASSUME NEW t \in Waiter, Wakeup(t) PROVE Moved
  BY <1>8 DEF Wakeup, Goto, user
<1>9. ASSUME NEW t \in Waiter, NEW why \in {"timeout", "canceled"}, GiveUp(t, why)
       PROVE Moved
  BY <1>9 DEF GiveUp, Goto, user
<1>10. ASSUME NEW t \in Waiter, WaitOut(t) PROVE Moved
  BY <1>10 DEF WaitOut, Goto, user
<1>11. ASSUME NEW t \in Waiter, Try(t) PROVE Moved
  BY <1>11 DEF Try, Goto, user
<1>12. ASSUME NEW t \in Waiter, Leave(t) PROVE Moved
  BY <1>12 DEF Leave, Goto, user
<1>13. ASSUME NEW t \in Waiter, Relock(t) PROVE Moved
  <2>1. IF my[t] = m THEN Left(t) ELSE Same
    BY <1>13 DEF Relock, Goto
  <2>2. QED
    BY <2>1
<1>14. ASSUME NEW t \in Signaller, NEW a \in BOOLEAN, Unblock(t, a) PROVE Moved
  BY <1>14 DEF Unblock, Goto, user
<1>15. ASSUME NEW t \in Signaller, Check(t) PROVE Moved
  BY <1>15 DEF Check, Goto, user
<1>16. ASSUME NEW t \in Signaller, BlockIn(t) PROVE Moved
  BY <1>16 DEF BlockIn, Goto, user
<1>17. ASSUME NEW t \in Signaller, Send(t) PROVE Moved
  BY <1>17 DEF Send, Goto, user
<1>18. ASSUME NEW t \in Signaller, UnblockDone(t) PROVE Moved
  BY <1>18 DEF UnblockDone, Goto, user
<1>19. ASSUME NEW t \in Thread, Fork(t) PROVE Moved
  BY <1>19 DEF Fork, Goto, user
<1>20. ASSUME UNCHANGED vars PROVE Moved
  <2>1. Same
    BY <1>20 DEF vars, counters, user, ghosts
  <2>2. QED
    BY <2>1
<1> HIDE DEF Moved, S, WaitsWith, TypeOK, Apart
<1>21. Moved
  BY <1>1, <1>2, <1>3, <1>4, <1>5, <1>6, <1>7, <1>8, <1>9, <1>10, <1>11,
     <1>12, <1>13, <1>14, <1>15, <1>16, <1>17, <1>18, <1>19, <1>20
  DEF Next, WaiterStep, SignallerStep
<1>22. CASE Same
  BY <1>22 DEF S
<1>23. ASSUME NEW t \in Waiter, Joined(t) PROVE condwaits'[m] = Cardinality(S')
  BY <1>23, Joins, SetsFinite DEF S
<1>24. ASSUME NEW t \in Waiter, Left(t) PROVE condwaits'[m] = Cardinality(S')
  BY <1>24, Leaves, SetsFinite DEF S
<1>25. CASE Reset
  BY <1>25, FS_EmptySet DEF S
<1>26. QED
  BY <1>21, <1>22, <1>23, <1>24, <1>25 DEF Moved, S

\* A thread that is counted, and a wakeup that is taken, show in the counts.
LEMMA CountsPositive ==
  ASSUME IInv, NEW t \in Waiter
  PROVE  /\ Counted(t) => waiting > 0 /\ ~Stuck
         /\ Taken(t) => pending > 0
         /\ pc[t] = "relock" => condwaits[my[t]] > 0
<1>1. ASSUME Counted(t) PROVE waiting > 0
  <2>1. t \in In
    BY <1>1 DEF In
  <2>2. QED
    BY <2>1, Leaves, SetsFinite DEF IInv, WaitingExact
<1>2. ASSUME Counted(t) PROVE ~Stuck
  BY <1>1, <1>2 DEF Stuck, IInv, TypeOK
<1>3. ASSUME Taken(t) PROVE pending > 0
  <2>1. Counted(t) /\ t \in Took
    BY <1>3 DEF Took, Taken, Counted
  <2>2. Accounted
    BY <2>1, <1>2 DEF IInv, Normal
  <2>3. Cardinality(Took) > 0
    BY <2>1, Leaves, SetsFinite
  <2>4. QED
    BY <2>2, <2>3, SetsFinite DEF Accounted, IInv, TypeOK
<1>4. ASSUME pc[t] = "relock" PROVE condwaits[my[t]] > 0
  <2>1. my[t] \in Mutex
    BY <1>4 DEF IInv, Apart
  <2>2. t \in WaitsWith(my[t])
    BY <1>4 DEF WaitsWith
  <2>3. condwaits[my[t]] = Cardinality(WaitsWith(my[t]))
    BY <2>1 DEF IInv, CondwaitsExact, WaitsWith
  <2>4. QED
    BY <2>1, <2>2, <2>3, Leaves, SetsFinite
<1>5. QED
  BY <1>1, <1>2, <1>3, <1>4

\* The variables keep their types: no count goes below zero.
LEMMA TypeStep == IInv /\ [Next]_vars => TypeOK'
<1> SUFFICES ASSUME IInv, [Next]_vars PROVE TypeOK'
  OBVIOUS
<1>0. TypeOK /\ Apart
  BY DEF IInv
<1> USE <1>0, ThreadAssumption DEF TypeOK, Apart, Thread, Steps, Results
<1>1. ASSUME NEW t \in Waiter, NEW m \in Mutex, LockMutex(t, m) PROVE TypeOK'
  BY <1>1 DEF LockMutex, Goto, counters, user, ghosts
<1>2. ASSUME NEW t \in Waiter, UnlockMutex(t) PROVE TypeOK'
  BY <1>2 DEF UnlockMutex, Goto, counters, user, ghosts
<1>3. ASSUME NEW t \in Waiter, CallWait(t) PROVE TypeOK'
  BY <1>3 DEF CallWait, Goto, counters, user, ghosts
<1>4. ASSUME NEW t \in Waiter, WaitIn(t) PROVE TypeOK'
  BY <1>4 DEF WaitIn, Goto, counters, user, ghosts
<1>5. ASSUME NEW t \in Waiter, WaitCount(t) PROVE TypeOK'
  BY <1>5 DEF WaitCount, Goto, counters, user, ghosts
<1>6. ASSUME NEW t \in Waiter, WaitBad(t) PROVE TypeOK'
  <2>1. waiting > 0
    BY <1>6, CountsPositive DEF WaitBad, Counted, Taken
  <2>2. QED
    BY <1>6, <2>1 DEF WaitBad, Goto, counters, user, ghosts
<1>7. ASSUME NEW t \in Waiter, WaitRelease(t) PROVE TypeOK'
  BY <1>7 DEF WaitRelease, Goto, counters, user, ghosts
<1>8. ASSUME NEW t \in Waiter, Wakeup(t) PROVE TypeOK'
  BY <1>8 DEF Wakeup, Goto, counters, user, ghosts
<1>9. ASSUME NEW t \in Waiter, NEW why \in {"timeout", "canceled"}, GiveUp(t, why)
       PROVE TypeOK'
  BY <1>9 DEF GiveUp, Goto, counters, user, ghosts
<1>10. ASSUME NEW t \in Waiter, WaitOut(t) PROVE TypeOK'
  BY <1>10 DEF WaitOut, Goto, counters, user, ghosts
<1>11. ASSUME NEW t \in Waiter, Try(t) PROVE TypeOK'
  BY <1>11 DEF Try, Goto, counters, user, ghosts
<1>12. ASSUME NEW t \in Waiter, Leave(t) PROVE TypeOK'
  <2>1. waiting > 0 /\ (rv[t] = "signaled" => pending > 0)
    BY <1>12, CountsPositive DEF Leave, Counted, Taken
  <2>2. QED
    BY <1>12, <2>1 DEF Leave, Goto, counters, user, ghosts
<1>13. ASSUME NEW t \in Waiter, Relock(t) PROVE TypeOK'
  <2>1. condwaits[my[t]] > 0
    BY <1>13, CountsPositive DEF Relock, Counted, Taken
  <2>2. QED
    BY <1>13, <2>1 DEF Relock, Goto, counters, user, ghosts
<1>14. ASSUME NEW t \in Signaller, NEW a \in BOOLEAN, Unblock(t, a) PROVE TypeOK'
  BY <1>14 DEF Unblock, Goto, counters, user, ghosts
<1>15. ASSUME NEW t \in Signaller, Check(t) PROVE TypeOK'
  BY <1>15 DEF Check, Goto, counters, user, ghosts
<1>16. ASSUME NEW t \in Signaller, BlockIn(t) PROVE TypeOK'
  BY <1>16 DEF BlockIn, Goto, counters, user, ghosts
<1>17. ASSUME NEW t \in Signaller, Send(t) PROVE TypeOK'
  BY <1>17 DEF Send, Goto, counters, user, ghosts
<1>18. ASSUME NEW t \in Signaller, UnblockDone(t) PROVE TypeOK'
  BY <1>18 DEF UnblockDone, Goto, counters, user, ghosts
<1>19. ASSUME NEW t \in Thread, Fork(t) PROVE TypeOK'
  BY <1>19 DEF Fork, Goto, counters, user, ghosts
<1>20. ASSUME UNCHANGED vars PROVE TypeOK'
  BY <1>20 DEF vars, counters, user, ghosts
<1>21. QED
  BY <1>1, <1>2, <1>3, <1>4, <1>5, <1>6, <1>7, <1>8, <1>9, <1>10, <1>11,
     <1>12, <1>13, <1>14, <1>15, <1>16, <1>17, <1>18, <1>19, <1>20
  DEF Next, WaiterStep, SignallerStep

\* mtx_in is locked by a thread that counts itself or for a round of wakeups.
LEMMA InStep == IInv /\ [Next]_vars => InHeld'
<1> SUFFICES ASSUME IInv, [Next]_vars PROVE InHeld'
  OBVIOUS
<1>0. TypeOK /\ Apart /\ OutHeld /\ InHeld
  BY DEF IInv
<1> USE <1>0, ThreadAssumption DEF TypeOK, Apart, Thread, OutHeld, OutSteps, InHeld,
                               Counting, Sending
<1>1. ASSUME NEW t \in Waiter, NEW m \in Mutex, LockMutex(t, m) PROVE InHeld'
  BY <1>1 DEF LockMutex, Goto, counters, ghosts
<1>2. ASSUME NEW t \in Waiter, UnlockMutex(t) PROVE InHeld'
  BY <1>2 DEF UnlockMutex, Goto, counters, ghosts
<1>3. ASSUME NEW t \in Waiter, CallWait(t) PROVE InHeld'
  BY <1>3 DEF CallWait, Goto, counters, ghosts
<1>4. ASSUME NEW t \in Waiter, WaitIn(t) PROVE InHeld'
  BY <1>4 DEF WaitIn, Goto, counters, ghosts
<1>5. ASSUME NEW t \in Waiter, WaitCount(t) PROVE InHeld'
  <2>1. t \in Counting /\ Sending = {} /\ pending = 0 /\ mtx_in = 1
    BY <1>5 DEF WaitCount
  <2>2. Counting' = Counting \ {t} \/ (Counting' = Counting /\ mtx_in' = mtx_in)
    BY <1>5 DEF WaitCount, Goto, counters, ghosts
  <2>3. Sending' = {} /\ pending' = 0
    BY <1>5, <2>1 DEF WaitCount, Goto, counters, ghosts
  <2>4. QED
    BY <2>1, <2>2, <2>3
<1>6. ASSUME NEW t \in Waiter, WaitBad(t) PROVE InHeld'
  BY <1>6 DEF WaitBad, Goto, counters, ghosts
<1>7. ASSUME NEW t \in Waiter, WaitRelease(t) PROVE InHeld'
  BY <1>7 DEF WaitRelease, Goto, counters, ghosts
<1>8. ASSUME NEW t \in Waiter, Wakeup(t) PROVE InHeld'
  BY <1>8 DEF Wakeup, Goto, counters, ghosts
<1>9. ASSUME NEW t \in Waiter, NEW why \in {"timeout", "canceled"}, GiveUp(t, why)
       PROVE InHeld'
  BY <1>9 DEF GiveUp, Goto, counters, ghosts
<1>10. ASSUME NEW t \in Waiter, WaitOut(t) PROVE InHeld'
  BY <1>10 DEF WaitOut, Goto, counters, ghosts
<1>11. ASSUME NEW t \in Waiter, Try(t) PROVE InHeld'
  BY <1>11 DEF Try, Goto, counters, ghosts
<1>12. ASSUME NEW t \in Waiter, Leave(t) PROVE InHeld'
  BY <1>12, CountsPositive DEF Leave, Goto, Counted, Taken
<1>13. ASSUME NEW t \in Waiter, Relock(t) PROVE InHeld'
  BY <1>13 DEF Relock, Goto, counters, ghosts
<1>14. ASSUME NEW t \in Signaller, NEW a \in BOOLEAN, Unblock(t, a) PROVE InHeld'
  BY <1>14 DEF Unblock, Goto, counters, ghosts
<1>15. ASSUME NEW t \in Signaller, Check(t) PROVE InHeld'
  BY <1>15 DEF Check, Goto, counters, ghosts
<1>16. ASSUME NEW t \in Signaller, BlockIn(t) PROVE InHeld'
  BY <1>16 DEF BlockIn, Goto, counters, ghosts
<1>17. ASSUME NEW t \in Signaller, Send(t) PROVE InHeld'
  BY <1>17 DEF Send, Goto, counters, ghosts
<1>18. ASSUME NEW t \in Signaller, UnblockDone(t) PROVE InHeld'
  BY <1>18 DEF UnblockDone, Goto, counters, ghosts
<1>19. ASSUME NEW t \in Thread, Fork(t) PROVE InHeld'
  <2>1. Counting' = {} /\ Sending' = {} /\ pending' = 0
    BY <1>19 DEF Fork
  <2>2. QED
    BY <2>1
<1>20. ASSUME UNCHANGED vars PROVE InHeld'
  BY <1>20 DEF vars, counters, user, ghosts
<1>21. QED
  BY <1>1, <1>2, <1>3, <1>4, <1>5, <1>6, <1>7, <1>8, <1>9, <1>10, <1>11,
     <1>12, <1>13, <1>14, <1>15, <1>16, <1>17, <1>18, <1>19, <1>20
  DEF Next, WaiterStep, SignallerStep

\* A thread is turned away only when two mutexes are in play.
LEMMA MixedStep == TypeOK /\ Apart /\ BadMixed /\ [Next]_vars => BadMixed'
<1> SUFFICES ASSUME TypeOK, Apart, BadMixed, [Next]_vars PROVE BadMixed'
  OBVIOUS
<1> USE ThreadAssumption DEF TypeOK, Apart, Thread, BadMixed
<1>1. ASSUME NEW t \in Waiter, NEW m \in Mutex, LockMutex(t, m) PROVE BadMixed'
  BY <1>1 DEF LockMutex, Goto, ghosts
<1>2. ASSUME NEW t \in Waiter, UnlockMutex(t) PROVE BadMixed'
  BY <1>2 DEF UnlockMutex, Goto, ghosts
<1>3. ASSUME NEW t \in Waiter, CallWait(t) PROVE BadMixed'
  BY <1>3 DEF CallWait, Goto, ghosts
<1>4. ASSUME NEW t \in Waiter, WaitIn(t) PROVE BadMixed'
  BY <1>4 DEF WaitIn, Goto, ghosts
<1>5. ASSUME NEW t \in Waiter, WaitCount(t) PROVE BadMixed'
  BY <1>5 DEF WaitCount, Goto, ghosts
<1>6. ASSUME NEW t \in Waiter, WaitBad(t) PROVE BadMixed'
  BY <1>6 DEF WaitBad, Goto, ghosts
<1>7. ASSUME NEW t \in Waiter, WaitRelease(t) PROVE BadMixed'
  BY <1>7 DEF WaitRelease, Goto, ghosts
<1>8. ASSUME NEW t \in Waiter, Wakeup(t) PROVE BadMixed'
  BY <1>8 DEF Wakeup, Goto, ghosts
<1>9. ASSUME NEW t \in Waiter, NEW why \in {"timeout", "canceled"}, GiveUp(t, why)
       PROVE BadMixed'
  BY <1>9 DEF GiveUp, Goto, ghosts
<1>10. ASSUME NEW t \in Waiter, WaitOut(t) PROVE BadMixed'
  BY <1>10 DEF WaitOut, Goto, ghosts
<1>11. ASSUME NEW t \in Waiter, Try(t) PROVE BadMixed'
  BY <1>11 DEF Try, Goto, ghosts
<1>12. ASSUME NEW t \in Waiter, Leave(t) PROVE BadMixed'
  BY <1>12 DEF Leave, Goto, ghosts
<1>13. ASSUME NEW t \in Waiter, Relock(t) PROVE BadMixed'
  BY <1>13 DEF Relock, Goto, ghosts
<1>14. ASSUME NEW t \in Signaller, NEW a \in BOOLEAN, Unblock(t, a) PROVE BadMixed'
  BY <1>14 DEF Unblock, Goto, ghosts
<1>15. ASSUME NEW t \in Signaller, Check(t) PROVE BadMixed'
  BY <1>15 DEF Check, Goto, ghosts
<1>16. ASSUME NEW t \in Signaller, BlockIn(t) PROVE BadMixed'
  BY <1>16 DEF BlockIn, Goto, ghosts
<1>17. ASSUME NEW t \in Signaller, Send(t) PROVE BadMixed'
  BY <1>17 DEF Send, Goto, ghosts
<1>18. ASSUME NEW t \in Signaller, UnblockDone(t) PROVE BadMixed'
  BY <1>18 DEF UnblockDone, Goto, ghosts
<1>19. ASSUME NEW t \in Thread, Fork(t) PROVE BadMixed'
  BY <1>19 DEF Fork, Goto, ghosts
<1>20. ASSUME UNCHANGED vars PROVE BadMixed'
  BY <1>20 DEF vars, counters, user, ghosts
<1>21. QED
  BY <1>1, <1>2, <1>3, <1>4, <1>5, <1>6, <1>7, <1>8, <1>9, <1>10, <1>11,
     <1>12, <1>13, <1>14, <1>15, <1>16, <1>17, <1>18, <1>19, <1>20
  DEF Next, WaiterStep, SignallerStep

\* Wakeups are in the semaphore or taken.
LEMMA TookStep ==
  ASSUME IInv, Normal, [Next]_vars
  PROVE  pending' = sem_wait' + Cardinality(Took')
<1> DEFINE Same == Took' = Took /\ pending' - sem_wait' = pending - sem_wait
<1> DEFINE Joined(t) == t \notin Took /\ Took' = Took \cup {t}
                       /\ pending' - sem_wait' = pending - sem_wait + 1
<1> DEFINE Left(t) == t \in Took /\ Took' = Took \ {t}
                     /\ pending' - sem_wait' = pending - sem_wait - 1
<1> DEFINE Reset == Took' = {} /\ pending' = sem_wait'
<1> DEFINE Moved == Same \/ (\E t \in Waiter : Joined(t) \/ Left(t)) \/ Reset
<1>0. TypeOK /\ Apart
  BY DEF IInv
<1> USE <1>0, ThreadAssumption DEF TypeOK, Apart, Thread, Took, Taken
<1>1. ASSUME NEW t \in Waiter, NEW m \in Mutex, LockMutex(t, m) PROVE Moved
  BY <1>1 DEF LockMutex, Goto, counters
<1>2. ASSUME NEW t \in Waiter, UnlockMutex(t) PROVE Moved
  BY <1>2 DEF UnlockMutex, Goto, counters
<1>3. ASSUME NEW t \in Waiter, CallWait(t) PROVE Moved
  BY <1>3 DEF CallWait, Goto, counters
<1>4. ASSUME NEW t \in Waiter, WaitIn(t) PROVE Moved
  BY <1>4 DEF WaitIn, Goto, counters
<1>5. ASSUME NEW t \in Waiter, WaitCount(t) PROVE Moved
  BY <1>5 DEF WaitCount, Goto, counters
<1>6. ASSUME NEW t \in Waiter, WaitBad(t) PROVE Moved
  BY <1>6 DEF WaitBad, Goto, counters
<1>7. ASSUME NEW t \in Waiter, WaitRelease(t) PROVE Moved
  BY <1>7 DEF WaitRelease, Goto, counters
<1>8. ASSUME NEW t \in Waiter, Wakeup(t) PROVE Moved
  <2>1. Joined(t)
    BY <1>8 DEF Wakeup, Goto
  <2>2. QED
    BY <2>1
<1>9. ASSUME NEW t \in Waiter, NEW why \in {"timeout", "canceled"}, GiveUp(t, why)
       PROVE Moved
  BY <1>9 DEF GiveUp, Goto, counters
<1>10. ASSUME NEW t \in Waiter, WaitOut(t) PROVE Moved
  BY <1>10 DEF WaitOut, Goto, counters
<1>11. ASSUME NEW t \in Waiter, Try(t) PROVE Moved
  <2>1. Same \/ Joined(t)
    BY <1>11 DEF Try, Goto
  <2>2. QED
    BY <2>1
<1>12. ASSUME NEW t \in Waiter, Leave(t) PROVE Moved
  <2>1. Same \/ Left(t)
    BY <1>12 DEF Leave, Goto
  <2>2. QED
    BY <2>1
<1>13. ASSUME NEW t \in Waiter, Relock(t) PROVE Moved
  BY <1>13 DEF Relock, Goto, counters
<1>14. ASSUME NEW t \in Signaller, NEW a \in BOOLEAN, Unblock(t, a) PROVE Moved
  BY <1>14 DEF Unblock, Goto, counters
<1>15. ASSUME NEW t \in Signaller, Check(t) PROVE Moved
  BY <1>15 DEF Check, Goto, counters
<1>16. ASSUME NEW t \in Signaller, BlockIn(t) PROVE Moved
  BY <1>16 DEF BlockIn, Goto, counters
<1>17. ASSUME NEW t \in Signaller, Send(t) PROVE Moved
  <2>1. waiting > pending
    BY <1>17 DEF Send, Normal, Found
  <2>2. Same
    BY <1>17, <2>1 DEF Send, Goto
  <2>3. QED
    BY <2>2
<1>18. ASSUME NEW t \in Signaller, UnblockDone(t) PROVE Moved
  BY <1>18 DEF UnblockDone, Goto, counters
<1>19. ASSUME NEW t \in Thread, Fork(t) PROVE Moved
  BY <1>19 DEF Fork, Goto, counters
<1>20. ASSUME UNCHANGED vars PROVE Moved
  <2>1. Same
    BY <1>20 DEF vars, counters, user, ghosts
  <2>2. QED
    BY <2>1
<1> HIDE DEF Moved, Took, Taken, TypeOK, Apart
<1>21. Moved
  BY <1>1, <1>2, <1>3, <1>4, <1>5, <1>6, <1>7, <1>8, <1>9, <1>10, <1>11,
     <1>12, <1>13, <1>14, <1>15, <1>16, <1>17, <1>18, <1>19, <1>20
  DEF Next, WaiterStep, SignallerStep
<1>22. TypeOK' /\ pending = sem_wait + Cardinality(Took) /\ IsFiniteSet(Took)
  BY TypeStep, SetsFinite DEF Normal, Accounted
<1>23. pending \in Nat /\ sem_wait \in Nat /\ pending' \in Nat /\ sem_wait' \in Nat
       /\ Cardinality(Took) \in Nat
  BY <1>22, SetsFinite DEF TypeOK
<1>24. CASE Same
  BY <1>22, <1>23, <1>24
<1>25. ASSUME NEW t \in Waiter, Joined(t) PROVE pending' = sem_wait' + Cardinality(Took')
  <2>1. Cardinality(Took \cup {t}) = Cardinality(Took) + 1
    BY <1>22, <1>25, Joins
  <2>2. QED
    BY <1>22, <1>23, <1>25, <2>1
<1>26. ASSUME NEW t \in Waiter, Left(t) PROVE pending' = sem_wait' + Cardinality(Took')
  BY <1>22, <1>23, <1>26, Leaves
<1>27. CASE Reset
  BY <1>23, <1>27, FS_EmptySet
<1>28. QED
  BY <1>21, <1>24, <1>25, <1>26, <1>27 DEF Moved

\* What else is normal of a round of wakeups.
LEMMA RoundStep ==
  ASSUME IInv, Normal, [Next]_vars
  PROVE  (pending <= waiting /\ RoundClosed /\ Found /\ Without)' \/ Stuck'
<1> DEFINE Rest == pending <= waiting /\ RoundClosed /\ Found /\ Without
<1>0. TypeOK /\ Apart /\ OutHeld /\ InHeld /\ BadMixed /\ WaitingExact /\ Rest /\ Accounted
  BY DEF IInv, Normal, Accounted
<1> USE <1>0, ThreadAssumption DEF TypeOK, Apart, Thread, OutHeld, OutSteps, RoundClosed,
                               Found, Without, In, Counted
<1>1. ASSUME NEW t \in Waiter, NEW m \in Mutex, LockMutex(t, m) PROVE Rest' \/ Stuck'
  BY <1>1 DEF LockMutex, Goto, counters, ghosts
<1>2. ASSUME NEW t \in Waiter, UnlockMutex(t) PROVE Rest' \/ Stuck'
  BY <1>2 DEF UnlockMutex, Goto, counters, ghosts
<1>3. ASSUME NEW t \in Waiter, CallWait(t) PROVE Rest' \/ Stuck'
  BY <1>3 DEF CallWait, Goto, counters, ghosts
<1>4. ASSUME NEW t \in Waiter, WaitIn(t) PROVE Rest' \/ Stuck'
  BY <1>4 DEF WaitIn, Goto, counters, ghosts
<1>5. ASSUME NEW t \in Waiter, WaitCount(t) PROVE Rest' \/ Stuck'
  <2>1. pending = 0
    BY <1>5 DEF WaitCount, InHeld, Counting
  <2>2. QED
    BY <1>5, <2>1 DEF WaitCount, Goto, counters, ghosts
<1>6. ASSUME NEW t \in Waiter, WaitBad(t) PROVE Rest' \/ Stuck'
  <2>1. waiting > 0 /\ pending = 0 /\ Sending = {}
    BY <1>6, CountsPositive DEF WaitBad, Counted, InHeld, Counting
  <2>2. QED
    BY <1>6, <2>1 DEF WaitBad, Goto, ghosts, Sending, BadMixed
<1>7. ASSUME NEW t \in Waiter, WaitRelease(t) PROVE Rest' \/ Stuck'
  BY <1>7 DEF WaitRelease, Goto, counters, ghosts
<1>8. ASSUME NEW t \in Waiter, Wakeup(t) PROVE Rest' \/ Stuck'
  BY <1>8 DEF Wakeup, Goto, counters, ghosts
<1>9. ASSUME NEW t \in Waiter, NEW why \in {"timeout", "canceled"}, GiveUp(t, why)
       PROVE Rest' \/ Stuck'
  BY <1>9 DEF GiveUp, Goto, counters, ghosts
<1>10. ASSUME NEW t \in Waiter, WaitOut(t) PROVE Rest' \/ Stuck'
  BY <1>10 DEF WaitOut, Goto, counters, ghosts
<1>11. ASSUME NEW t \in Waiter, Try(t) PROVE Rest' \/ Stuck'
  BY <1>11 DEF Try, Goto, counters, ghosts
<1>12. ASSUME NEW t \in Waiter, Leave(t) PROVE Rest' \/ Stuck'
  <2>1. waiting > 0
    BY <1>12, CountsPositive DEF Leave, Counted
  <2>2. \A u \in Signaller : pc[u] \notin {"blockin", "send"}
    BY <1>12 DEF Leave, OutHeld, OutSteps
  <2>3. CASE rv[t] = "signaled"
    BY <1>12, <2>1, <2>2, <2>3 DEF Leave, Goto, counters, ghosts
  <2>4. CASE rv[t] # "signaled"
    <3>1. sem_wait = 0 /\ pending = Cardinality(Took)
      BY <1>12, <2>4, SetsFinite DEF Leave, Without, Accounted
    <3>2. t \in In /\ Took \subseteq In \ {t}
      BY <1>12, <2>4 DEF Leave, In, Took, Taken, Counted
    <3>3. Cardinality(Took) <= Cardinality(In \ {t})
      BY <3>2, FS_Subset, FS_RemoveElement, SetsFinite
    <3>4. pending <= waiting - 1
      BY <3>1, <3>2, <3>3, Leaves, SetsFinite DEF WaitingExact
    <3>5. QED
      BY <1>12, <2>1, <2>2, <2>4, <3>4 DEF Leave, Goto, counters, ghosts
  <2>5. QED
    BY <2>3, <2>4
<1>13. ASSUME NEW t \in Waiter, Relock(t) PROVE Rest' \/ Stuck'
  BY <1>13 DEF Relock, Goto, counters, ghosts
<1>14. ASSUME NEW t \in Signaller, NEW a \in BOOLEAN, Unblock(t, a) PROVE Rest' \/ Stuck'
  BY <1>14 DEF Unblock, Goto, counters, ghosts
<1>15. ASSUME NEW t \in Signaller, Check(t) PROVE Rest' \/ Stuck'
  BY <1>15 DEF Check, Goto, counters, ghosts
<1>16. ASSUME NEW t \in Signaller, BlockIn(t) PROVE Rest' \/ Stuck'
  <2>1. Counting = {} /\ pending = 0
    BY <1>16 DEF BlockIn, InHeld
  <2>2. CASE waiting > 0
    BY <1>16, <2>1, <2>2 DEF BlockIn, Goto, counters, ghosts
  <2>3. CASE waiting = 0
    <3>1. mixed
      BY <1>16, <2>3 DEF BlockIn
    <3>2. Counting' = {}
      BY <1>16, <2>1 DEF BlockIn, Goto, Counting
    <3>3. QED
      BY <1>16, <2>3, <3>1, <3>2 DEF BlockIn, Stuck, counters, ghosts
  <2>4. QED
    BY <2>2, <2>3
<1>17. ASSUME NEW t \in Signaller, Send(t) PROVE Rest' \/ Stuck'
  BY <1>17 DEF Send, Goto, counters, ghosts
<1>18. ASSUME NEW t \in Signaller, UnblockDone(t) PROVE Rest' \/ Stuck'
  BY <1>18 DEF UnblockDone, Goto, counters, ghosts
<1>19. ASSUME NEW t \in Thread, Fork(t) PROVE Rest' \/ Stuck'
  BY <1>19 DEF Fork, Goto, counters, ghosts
<1>20. ASSUME UNCHANGED vars PROVE Rest' \/ Stuck'
  BY <1>20 DEF vars, counters, user, ghosts
<1>21. QED
  BY <1>1, <1>2, <1>3, <1>4, <1>5, <1>6, <1>7, <1>8, <1>9, <1>10, <1>11,
     <1>12, <1>13, <1>14, <1>15, <1>16, <1>17, <1>18, <1>19, <1>20
  DEF Next, WaiterStep, SignallerStep

\* A wakeup sent to nobody stays until a fork.
LEMMA StuckStep ==
  ASSUME IInv, Stuck, [Next]_vars
  PROVE  Normal' \/ Stuck'
<1>0. TypeOK /\ Apart
  BY DEF IInv
<1> USE <1>0, ThreadAssumption DEF TypeOK, Apart, Thread, Stuck, Counting
<1>1. ASSUME NEW t \in Waiter, NEW m \in Mutex, LockMutex(t, m) PROVE Normal' \/ Stuck'
  BY <1>1 DEF LockMutex, Goto, counters, ghosts
<1>2. ASSUME NEW t \in Waiter, UnlockMutex(t) PROVE Normal' \/ Stuck'
  BY <1>2 DEF UnlockMutex, Goto, counters, ghosts
<1>3. ASSUME NEW t \in Waiter, CallWait(t) PROVE Normal' \/ Stuck'
  BY <1>3 DEF CallWait, Goto, counters, ghosts
<1>4. ASSUME NEW t \in Waiter, WaitIn(t) PROVE Normal' \/ Stuck'
  BY <1>4 DEF WaitIn, Goto, counters, ghosts
<1>5. ASSUME NEW t \in Waiter, WaitCount(t) PROVE Normal' \/ Stuck'
  BY <1>5 DEF WaitCount, Goto, counters, ghosts
<1>6. ASSUME NEW t \in Waiter, WaitBad(t) PROVE Normal' \/ Stuck'
  BY <1>6, CountsPositive DEF WaitBad, Counted
<1>7. ASSUME NEW t \in Waiter, WaitRelease(t) PROVE Normal' \/ Stuck'
  BY <1>7 DEF WaitRelease, Goto, counters, ghosts
<1>8. ASSUME NEW t \in Waiter, Wakeup(t) PROVE Normal' \/ Stuck'
  BY <1>8 DEF Wakeup, Goto, counters, ghosts
<1>9. ASSUME NEW t \in Waiter, NEW why \in {"timeout", "canceled"}, GiveUp(t, why)
       PROVE Normal' \/ Stuck'
  BY <1>9 DEF GiveUp, Goto, counters, ghosts
<1>10. ASSUME NEW t \in Waiter, WaitOut(t) PROVE Normal' \/ Stuck'
  BY <1>10 DEF WaitOut, Goto, counters, ghosts
<1>11. ASSUME NEW t \in Waiter, Try(t) PROVE Normal' \/ Stuck'
  BY <1>11 DEF Try, Goto, counters, ghosts
<1>12. ASSUME NEW t \in Waiter, Leave(t) PROVE Normal' \/ Stuck'
  BY <1>12, CountsPositive DEF Leave, Counted
<1>13. ASSUME NEW t \in Waiter, Relock(t) PROVE Normal' \/ Stuck'
  BY <1>13 DEF Relock, Goto, counters, ghosts
<1>14. ASSUME NEW t \in Signaller, NEW a \in BOOLEAN, Unblock(t, a) PROVE Normal' \/ Stuck'
  BY <1>14 DEF Unblock, Goto, counters, ghosts
<1>15. ASSUME NEW t \in Signaller, Check(t) PROVE Normal' \/ Stuck'
  BY <1>15 DEF Check, Goto, counters, ghosts
<1>16. ASSUME NEW t \in Signaller, BlockIn(t) PROVE Normal' \/ Stuck'
  BY <1>16 DEF BlockIn, Goto, counters, ghosts
<1>17. ASSUME NEW t \in Signaller, Send(t) PROVE Normal' \/ Stuck'
  BY <1>17 DEF Send, Goto, counters, ghosts
<1>18. ASSUME NEW t \in Signaller, UnblockDone(t) PROVE Normal' \/ Stuck'
  BY <1>18 DEF UnblockDone, Goto, counters, ghosts
<1>19. ASSUME NEW t \in Thread, Fork(t) PROVE Normal' \/ Stuck'
  <2>1. pending' = 0 /\ sem_wait' = 0 /\ waiting' = 0
    BY <1>19 DEF Fork
  <2>2. \A u \in Waiter : pc'[u] \in {"idle", "locked"}
    BY <1>19 DEF Fork
  <2>3. Took' = {} /\ \A u \in Signaller : pc'[u] = "idle"
    BY <1>19, <2>2 DEF Fork, Took, Taken
  <2>4. QED
    BY <2>1, <2>2, <2>3, FS_EmptySet DEF Normal, Accounted, RoundClosed, Found, Without
<1>20. ASSUME UNCHANGED vars PROVE Normal' \/ Stuck'
  BY <1>20 DEF vars, counters, user, ghosts
<1>21. QED
  BY <1>1, <1>2, <1>3, <1>4, <1>5, <1>6, <1>7, <1>8, <1>9, <1>10, <1>11,
     <1>12, <1>13, <1>14, <1>15, <1>16, <1>17, <1>18, <1>19, <1>20
  DEF Next, WaiterStep, SignallerStep

\* A new condition variable
LEMMA InitInv == Init => IInv
<1> SUFFICES ASSUME Init PROVE IInv
  OBVIOUS
<1>1. TypeOK /\ Apart /\ OutHeld
  BY ThreadAssumption DEF Init, TypeOK, Apart, OutHeld, OutSteps, Thread, Steps, Results
<1>2. In = {} /\ Took = {} /\ Counting = {} /\ Sending = {}
      /\ \A m \in Mutex : WaitsWith(m) = {}
  BY DEF Init, In, Counted, Took, Taken, Counting, Sending, WaitsWith, Thread
<1>3. WaitingExact /\ InHeld /\ BadMixed
  BY <1>2, FS_EmptySet DEF Init, WaitingExact, InHeld, BadMixed, Thread
<1>4. CondwaitsExact
  BY <1>2, FS_EmptySet DEF Init, CondwaitsExact, WaitsWith
<1>5. Normal
  BY <1>2, FS_EmptySet, ThreadAssumption
     DEF Init, Normal, Accounted, RoundClosed, Found, Without, Thread
<1>6. QED
  BY <1>1, <1>3, <1>4, <1>5 DEF IInv

\* Every step keeps the invariant.
LEMMA StepInv == IInv /\ [Next]_vars => IInv'
<1> SUFFICES ASSUME IInv, [Next]_vars PROVE IInv'
  OBVIOUS
<1>1. TypeOK' /\ InHeld'
  BY TypeStep, InStep
<1>2. Apart' /\ OutHeld' /\ BadMixed' /\ WaitingExact'
  BY ApartStep, OutStep, MixedStep, WaitingStep DEF IInv
<1>3. CondwaitsExact'
  <2>1. \A m \in Mutex : condwaits[m] = Cardinality(WaitsWith(m))
    BY DEF IInv, CondwaitsExact, WaitsWith
  <2>2. \A m \in Mutex : condwaits'[m] = Cardinality(WaitsWith(m)')
    BY <2>1, CondwaitsStep DEF IInv
  <2>3. QED
    BY <2>2 DEF CondwaitsExact, WaitsWith
<1>4. Normal' \/ Stuck'
  <2>1. CASE Normal
    BY <2>1, TookStep, RoundStep DEF Normal, Accounted
  <2>2. CASE Stuck
    BY <2>2, StuckStep
  <2>3. QED
    BY <2>1, <2>2 DEF IInv
<1>5. QED
  BY <1>1, <1>2, <1>3, <1>4 DEF IInv

\* The inductive invariant holds in every state of wait, unblock and fork
\* (thread.cc).
THEOREM Inductive == Spec => []IInv
BY InitInv, StepInv, PTL DEF Spec

\* waiting, pending, the semaphore and condwaits never go below zero, in
\* histories with several mutexes too.
THEOREM TypeCorrect == Spec => []TypeOK
<1>1. IInv => TypeOK
  BY DEF IInv
<1>2. QED
  BY <1>1, Inductive, PTL

\* pthread_mutex::_destroy asks condwaits whether threads wait with a mutex, and
\* the answer is right for any number of threads and mutexes.
THEOREM CondwaitsSafe == Spec => []CondwaitsExact
<1>1. IInv => CondwaitsExact
  BY DEF IInv
<1>2. QED
  BY <1>1, Inductive, PTL

\* Every wakeup that unblock has sent and wait has not counted off is in the
\* semaphore or in the hands of one thread, unless two mutexes were in play.
THEOREM WakeupsSafe == Spec => []WakeupsAccounted
<1>1. IInv => WakeupsAccounted
  BY DEF IInv, Stuck, Normal, Accounted, WakeupsAccounted, Took
<1>2. QED
  BY <1>1, Inductive, PTL

\* mtx_in keeps the wakeups of a round for those who were waiting when unblock
\* sent them.
THEOREM NotStolen == Spec => []NoStolenWakeup
<1>1. ASSUME IInv PROVE NoStolenWakeup
  <2> SUFFICES ASSUME ~mixed, NEW t \in Waiter, Taken(t) PROVE t \in entitled
    BY DEF NoStolenWakeup
  <2>1. pending > 0 /\ RoundClosed
    BY <1>1, CountsPositive DEF IInv, Stuck, Normal
  <2>2. t \in In
    BY DEF In, Taken, Counted
  <2>3. QED
    BY <2>1, <2>2 DEF RoundClosed
<1>2. QED
  BY <1>1, Inductive, PTL

=============================================================================
