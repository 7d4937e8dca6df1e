-------------------------- MODULE MutoQueueProofs --------------------------
(***************************************************************************)
(* What TLAPS proves of the muto and of the request queue of cygserver: in *)
(* both a count decides whether somebody is woken.                         *)
(*                                                                         *)
(* The muto, for any set of threads and any nesting depth, as long as      *)
(* nobody passes a finite timeout (MutoSpec): with timeouts (TimedSpec)    *)
(* two threads can own it.  At any time at most one party holds the right  *)
(* to be the next owner (the token): an owner, a releaser that has decided *)
(* to signal the event, the signalled event itself, or a thread whose      *)
(* increment found the muto idle.  MutualExclusion is the part of          *)
(* TokenUnique that speaks of owners.                                      *)
(*                                                                         *)
(* The request queue, for any finite sets of workers and submission loops  *)
(* and any number of requests.  Until the queue is stopped every unit of   *)
(* the semaphore, every worker that took one and every loop that is about  *)
(* to give one stands for one request of the list (Accounted).  And stop   *)
(* can only go past a loop that is dead, since a loop that does not run    *)
(* any more is dead or the one it waits for (StoppedDead), and past the    *)
(* workers when their count, which is exact (StaffExact), is zero.         *)
(***************************************************************************)
EXTENDS Muto, ThreadedQueue, FiniteSetTheorems, SequenceTheorems, TLAPS

-----------------------------------------------------------------------------
(* The muto *)

Token(t) ==
  \/ Owns(t)
  \/ pc[t] = "setevent"
  \/ pc[t] = "try" /\ was_waiting[t] = 0

TokenUnique ==
  /\ \A s, t \in Thread : Token(s) /\ Token(t) => s = t
  /\ bruteforce = 1 => \A t \in Thread : ~Token(t)

\* A wakeup is under way only while somebody waits for it.
WakeupWanted ==
  bruteforce = 1 \/ (\E t \in Thread : pc[t] = "setevent") => waiters >= 0

TokenExists == waiters >= 0 => bruteforce = 1 \/ \E t \in Thread : Token(t)

\* Only a thread outside acquire and release has counted acquires.
HeldWhileIdle == \A t \in Thread : held[t] > 0 => pc[t] = "idle"

TidOwner ==
  \A t \in Thread : tid = t =>
    \/ pc[t] = "idle" /\ held[t] > 0
    \/ pc[t] \in {"visit", "untid"}

VisitsOwner == (\A t \in Thread : held[t] = 0) => visits = 0

TidVisit == \A t \in Thread : pc[t] = "visit" => tid = t

SyncOwned ==
  sync # 0 => \E t \in Thread :
    held[t] > 0 \/ pc[t] \in {"gotit", "visit", "untid", "unsync"}

NobodyTimesOut == \A t \in Thread : pc[t] # "timedout"

MutoCore ==
  /\ TokenUnique
  /\ WakeupWanted
  /\ TokenExists
  /\ HeldWhileIdle
  /\ TidOwner
  /\ TidVisit
  /\ VisitsOwner
  /\ OwnerRecorded
  /\ SyncOwned
  /\ NobodyTimesOut

MutoInv == MutoTypeOK /\ MutoCore /\ WaitersExact

-----------------------------------------------------------------------------

\* The fields of a muto keep their types through every acquire and release
\* (sync.cc).
THEOREM MutoTypeCorrect == MutoSpec => []MutoTypeOK
<1>1. MutoInit => MutoTypeOK
  BY DEF MutoInit, MutoTypeOK, Steps, AcquireSteps, ReleaseSteps
<1>2. MutoTypeOK /\ [MutoNext]_mutoVars => MutoTypeOK'
  <2> SUFFICES ASSUME MutoTypeOK, [MutoNext]_mutoVars PROVE MutoTypeOK'
    OBVIOUS
  <2> USE DEF MutoTypeOK, Steps, AcquireSteps, ReleaseSteps, Goto
  <2>1. CASE UNCHANGED mutoVars
    BY <2>1 DEF mutoVars
  <2>2. ASSUME NEW t \in Thread, AcquireStep(t) PROVE MutoTypeOK'
    BY <2>2 DEF AcquireStep, Reenter, Enter, Try, WakeUp, GotIt, Visit, lockVars
  <2>3. ASSUME NEW t \in Thread, ReleaseStep(t) PROVE MutoTypeOK'
    BY <2>3 DEF ReleaseStep, ReleaseRefused, Release, UnTid, UnSync, UnWait,
                SetBruteforce, Less, lockVars
  <2>4. QED
    BY <2>1, <2>2, <2>3 DEF MutoNext
<1>3. QED
  BY <1>1, <1>2, PTL DEF MutoSpec

-----------------------------------------------------------------------------

\* The increment that finds waiters at -1 finds nobody counted, and a thread
\* that is counted keeps waiters from falling below 0.
LEMMA CountedNonneg ==
  ASSUME MutoInv, NEW t \in Thread, Counted(t)
  PROVE  waiters >= 0
<1> DEFINE C == {u \in Thread : Counted(u)}
<1>1. IsFiniteSet(C)
  BY ThreadAssumption, FS_Subset
<1>2. C # {} /\ Cardinality(C) \in Nat
  BY <1>1, FS_CardinalityType
<1>3. Cardinality(C) # 0
  BY <1>1, <1>2, FS_EmptySet
<1>4. QED
  BY <1>2, <1>3 DEF MutoInv, WaitersExact

\* No step of a thread breaks the part of the invariant that is not about
\* counting waiters (sync.cc, muto::acquire and muto::release).
LEMMA MutoCoreStep ==
  ASSUME MutoInv, NEW t \in Thread, AcquireStep(t) \/ ReleaseStep(t)
  PROVE  MutoCore'
<1> USE ThreadAssumption DEF MutoInv, MutoTypeOK, MutoCore, TokenUnique, WakeupWanted, TokenExists,
        HeldWhileIdle, TidOwner, TidVisit, VisitsOwner, OwnerRecorded,
        SyncOwned, NobodyTimesOut, Token, Owns, Goto, lockVars
<1>1. CASE Reenter(t)
  BY <1>1 DEF Reenter
<1>2. CASE Enter(t)
  BY <1>2, CountedNonneg DEF Enter, Counted
<1>3. CASE Try(t)
  BY <1>3 DEF Try
<1>4. CASE WakeUp(t)
  BY <1>4 DEF WakeUp
<1>7. CASE GotIt(t)
  BY <1>7 DEF GotIt
<1>8. CASE Visit(t)
  BY <1>8 DEF Visit
<1>9. CASE ReleaseRefused(t)
  BY <1>9 DEF ReleaseRefused, Less
<1>10. CASE Release(t)
  BY <1>10 DEF Release, Less
<1>11. CASE UnTid(t)
  BY <1>11 DEF UnTid
<1>12. CASE UnSync(t)
  BY <1>12 DEF UnSync
<1>13. CASE UnWait(t)
  BY <1>13 DEF UnWait
<1>14. CASE SetBruteforce(t)
  BY <1>14 DEF SetBruteforce
<1>15. QED
  BY <1>1, <1>2, <1>3, <1>4, <1>7, <1>8, <1>9, <1>10, <1>11, <1>12, <1>13, <1>14 DEF
     AcquireStep, ReleaseStep

\* waiters stays exact: acquire adds the thread it counts, release takes it
\* away, and no other step changes who is counted.
LEMMA MutoCountStep ==
  ASSUME MutoInv, NEW t \in Thread, AcquireStep(t) \/ ReleaseStep(t)
  PROVE  WaitersExact'
<1> DEFINE C == {u \in Thread : Counted(u)}
<1>1. IsFiniteSet(C)
  BY ThreadAssumption, FS_Subset
<1>2. waiters = Cardinality(C) - 1 /\ Cardinality(C) \in Nat
  BY <1>1, FS_CardinalityType DEF MutoInv, WaitersExact
<1>3. CASE Enter(t)
  <2>1. t \notin C /\ C' = C \cup {t}
    BY <1>3 DEF Enter, MutoInv, MutoTypeOK, MutoCore, HeldWhileIdle, OwnerRecorded,
                Counted, Owns, Goto
  <2>2. Cardinality(C') = Cardinality(C) + 1
    BY <1>1, <2>1, FS_AddElement
  <2>3. QED
    BY <1>2, <1>3, <2>2 DEF Enter, WaitersExact
<1>4. CASE UnWait(t)
  <2>1. t \in C /\ C' = C \ {t}
    BY <1>4 DEF UnWait, MutoInv, MutoTypeOK, MutoCore, HeldWhileIdle, Counted, Owns, Goto
  <2>2. Cardinality(C') = Cardinality(C) - 1
    BY <1>1, <2>1, FS_RemoveElement
  <2>3. QED
    BY <1>2, <1>4, <2>2 DEF UnWait, WaitersExact
<1>5. CASE ~Enter(t) /\ ~UnWait(t)
  <2>1. C' = C /\ waiters' = waiters
    <3> USE DEF MutoInv, MutoTypeOK, MutoCore, HeldWhileIdle, TidOwner, OwnerRecorded,
                NobodyTimesOut, VisitsOwner, Counted, Owns, Goto, lockVars
    <3>1. CASE Reenter(t)
      BY <3>1 DEF Reenter
    <3>2. CASE Try(t)
      BY <3>2 DEF Try
    <3>3. CASE WakeUp(t)
      BY <3>3 DEF WakeUp
    <3>5. CASE GotIt(t)
      BY <3>5 DEF GotIt
    <3>6. CASE Visit(t)
      BY <3>6 DEF Visit
    <3>7. CASE ReleaseRefused(t)
      BY <3>7 DEF ReleaseRefused, Less
    <3>8. CASE Release(t)
      BY <3>8 DEF Release, Less
    <3>9. CASE UnTid(t)
      BY <3>9 DEF UnTid
    <3>10. CASE UnSync(t)
      BY <3>10 DEF UnSync
    <3>11. CASE SetBruteforce(t)
      BY <3>11 DEF SetBruteforce
    <3>13. QED
      BY <1>5, <3>1, <3>2, <3>3, <3>5, <3>6, <3>7, <3>8, <3>9, <3>10, <3>11
         DEF AcquireStep, ReleaseStep
  <2>2. QED
    BY <1>2, <2>1 DEF WaitersExact
<1>6. QED
  BY <1>3, <1>4, <1>5

\* The inductive invariant holds in every state of a muto that is acquired
\* without timeouts.
THEOREM MutoInduction == MutoSpec => []MutoInv
<1>1. MutoInit => MutoInv
  <2> SUFFICES ASSUME MutoInit PROVE MutoInv
    OBVIOUS
  <2>1. MutoTypeOK
    BY DEF MutoInit, MutoTypeOK, Steps, AcquireSteps, ReleaseSteps
  <2>2. MutoCore
    BY ThreadAssumption DEF MutoInit, MutoCore, TokenUnique, WakeupWanted, TokenExists,
        HeldWhileIdle, TidOwner, TidVisit, VisitsOwner, OwnerRecorded,
        SyncOwned, NobodyTimesOut, Token, Owns
  <2>3. {t \in Thread : Counted(t)} = {}
    BY DEF MutoInit, Counted, Owns
  <2>4. WaitersExact
    BY <2>3, FS_EmptySet DEF MutoInit, WaitersExact
  <2>5. QED
    BY <2>1, <2>2, <2>4 DEF MutoInv
<1>2. MutoInv /\ MutoTypeOK' /\ [MutoNext]_mutoVars => MutoInv'
  <2> SUFFICES ASSUME MutoInv, MutoTypeOK', [MutoNext]_mutoVars PROVE MutoInv'
    OBVIOUS
  <2>1. CASE UNCHANGED mutoVars
    BY <2>1 DEF mutoVars, MutoInv, MutoTypeOK, MutoCore, TokenUnique, WakeupWanted, TokenExists,
        HeldWhileIdle, TidOwner, TidVisit, VisitsOwner, OwnerRecorded,
        SyncOwned, NobodyTimesOut, Token, Owns, WaitersExact, Counted
  <2>2. ASSUME NEW t \in Thread, AcquireStep(t) \/ ReleaseStep(t) PROVE MutoInv'
    BY <2>2, MutoCoreStep, MutoCountStep DEF MutoInv
  <2>3. QED
    BY <2>1, <2>2 DEF MutoNext
<1>3. QED
  BY <1>1, <1>2, MutoTypeCorrect, PTL DEF MutoSpec

-----------------------------------------------------------------------------

\* Two threads never own a muto together, as sync.cc promises, when every
\* acquire is prepared to wait forever.
THEOREM MutoSafe == MutoSpec => []MutualExclusion
<1>1. MutoInv => MutualExclusion
  BY DEF MutoInv, MutoCore, TokenUnique, Token, MutualExclusion
<1>2. QED
  BY <1>1, MutoInduction, PTL

\* No release of an owner is refused or unlocks too early: tid and visits
\* describe the owner whenever it is outside acquire and release.
THEOREM MutoOwnerSafe == MutoSpec => []OwnerRecorded
<1>1. MutoInv => OwnerRecorded
  BY DEF MutoInv, MutoCore
<1>2. QED
  BY <1>1, MutoInduction, PTL

\* Whenever somebody is blocked on bruteforce, a wakeup or an owner that will
\* release is still to come: release decides on SetEvent by a count that is
\* always exact.
THEOREM MutoWakeupSafe == MutoSpec => [](WaitersExact /\ NoLostWakeup)
<1>1. MutoInv => WaitersExact
  BY DEF MutoInv
<1>2. MutoInv => NoLostWakeup
  <2> SUFFICES ASSUME MutoInv, NEW t \in Thread, pc[t] = "wait"
               PROVE  NoLostWakeup
    BY DEF NoLostWakeup
  <2>1. waiters >= 0
    BY CountedNonneg DEF Counted
  <2>2. QED
    BY <2>1 DEF MutoInv, MutoCore, TokenExists, Token, NoLostWakeup
<1>3. QED
  BY <1>1, <1>2, MutoInduction, PTL

\* A muto acquired without timeouts is a recursive lock.
THEOREM MutoIsLock == MutoSpec => ImplementsLock
<1>1. MutoInit => AbstractLock!Init
  BY DEF MutoInit, AbstractLock!Init
<1>2. MutoInv /\ [MutoNext]_mutoVars => [AbstractLock!Next]_held
  <2> SUFFICES ASSUME MutoInv, [MutoNext]_mutoVars PROVE AbstractLock!Next \/ UNCHANGED held
    BY DEF MutoInv
  <2> USE DEF MutoInv, MutoTypeOK, MutoCore, Goto
  <2>1. CASE UNCHANGED mutoVars
    BY <2>1 DEF mutoVars
  <2>2. ASSUME NEW t \in Thread, Reenter(t) \/ Visit(t)
        PROVE  AbstractLock!Acquire(t)
    <3>1. Owns(t)
      BY <2>2 DEF Reenter, Visit, TidOwner, Owns
    <3>2. \A s \in Thread \ {t} : held[s] = 0
      BY <3>1 DEF TokenUnique, Token, Owns
    <3>3. held' = [held EXCEPT ![t] = @ + 1]
      BY <2>2 DEF Reenter, Visit
    <3>4. QED
      BY <3>2, <3>3 DEF AbstractLock!Acquire
  <2>3. ASSUME NEW t \in Thread, Release(t)
        PROVE  AbstractLock!Release(t)
    <3>1. held[t] > 0
      BY <2>3 DEF Release, TidOwner
    <3>2. Less(held[t]) = held[t] - 1
      BY <3>1 DEF Less
    <3>3. held' = [held EXCEPT ![t] = @ - 1]
      BY <2>3, <3>2 DEF Release
    <3>4. QED
      BY <3>1, <3>3 DEF AbstractLock!Release
  <2>4. ASSUME NEW t \in Thread, ReleaseRefused(t)
        PROVE  UNCHANGED held
    BY <2>4 DEF ReleaseRefused, Less, OwnerRecorded
  <2>5. ASSUME NEW t \in Thread,
               \/ Enter(t) \/ Try(t) \/ WakeUp(t) \/ GotIt(t)
               \/ UnTid(t) \/ UnSync(t) \/ UnWait(t)
               \/ SetBruteforce(t)
        PROVE  UNCHANGED held
    BY <2>5 DEF Enter, Try, WakeUp, GotIt, UnTid, UnSync, UnWait,
                SetBruteforce
  <2>6. QED
    BY <2>1, <2>2, <2>3, <2>4, <2>5
       DEF MutoNext, AcquireStep, ReleaseStep, AbstractLock!Next
<1>3. QED
  BY <1>1, <1>2, MutoInduction, PTL DEF MutoSpec, ImplementsLock, AbstractLock!Spec


-----------------------------------------------------------------------------
(* The request queue *)

Running == {"start", "started", "pause"}
Stopped == {"join", "stopped", "deleted"}

Listed(l, s) == \E i \in 1 .. Len(s) : s[i] = l
Distinct(s) == \A i, j \in 1 .. Len(s) : s[i] = s[j] => i = j

\* The workers that have not been taken off the count
Staff == {w \in Workers : wpc[w] # "gone"}
StaffExact == workers_count = Cardinality(Staff)

Accounted ==
  mpc \in Running \cup {"setup"} =>
    requests_sem + Cardinality(Woken) + Cardinality(Unannounced) = Len(requests)

RunningPhase == running <=> mpc \in Running

SetupQuiet ==
  mpc = "setup" => requests = <<>> /\ \A l \in Loops : lpc[l] = "none"

HandFull == \A l \in Loops : lpc[l] \in {"enter", "append"} => hand[l] \in Request

TakenFull ==
  \A w \in Workers : wpc[w] \in {"listen", "process"} => taken[w] \in Request

TodoThere == mpc \in {"started", "halt", "ask", "heavy"} => todo # <<>>

\* The owner starts each loop once, and asks only a loop it knows of to leave.
StartOnce ==
  /\ Distinct(submitters)
  /\ mpc \in {"halt", "ask", "heavy"} => Listed(Head(todo), submitters)
  /\ \A l \in Loops : lpc[l] # "none" => Listed(l, submitters)
  /\ mpc \in {"start", "started"} =>
       /\ Distinct(todo)
       /\ \A l \in Loops : Listed(l, todo) => Listed(l, submitters)
       /\ \A i \in 1 .. Len(todo) :
            mpc = "start" \/ i > 1 => lpc[todo[i]] = "none"

\* A loop that runs is one the owner knows of, and has still to stop.
RunningListed ==
  \A l \in Loops : loop_running[l] =>
    /\ Listed(l, submitters)
    /\ mpc \notin Stopped
    /\ mpc \in {"stop", "halt", "ask", "heavy"} => Listed(l, todo)
    /\ mpc \in {"ask", "heavy"} => l # Head(todo)

\* A loop that does not run is dead or about to be, or the owner waits for it.
StoppedDead ==
  \A l \in Loops : ~loop_running[l] /\ lpc[l] \notin {"none", "leaving", "dead"} =>
    mpc \in {"ask", "heavy"} /\ l = Head(todo)

NobodyLeft == mpc \in {"stopped", "deleted"} => workers_count = 0

Loopy ==
  /\ RunningPhase /\ SetupQuiet /\ HandFull /\ TakenFull /\ TodoThere
  /\ StartOnce /\ RunningListed /\ StoppedDead /\ NobodyLeft

IInv == TypeOK /\ StaffExact /\ Accounted /\ Loopy

-----------------------------------------------------------------------------

LEMMA Finite ==
  /\ IsFiniteSet(Staff) /\ IsFiniteSet(Woken) /\ IsFiniteSet(Unannounced)
  /\ Cardinality(Staff) \in Nat
  /\ Cardinality(Woken) \in Nat
  /\ Cardinality(Unannounced) \in Nat
  /\ Cardinality(Staff) <= Cardinality(Workers)
  /\ Cardinality(Workers) \in Nat
<1>1. IsFiniteSet(Staff) /\ Cardinality(Staff) <= Cardinality(Workers)
  BY LoopsAssumption, FS_Subset DEF Staff
<1>2. IsFiniteSet(Woken) /\ IsFiniteSet(Unannounced)
  BY LoopsAssumption, FS_Subset DEF Woken, Unannounced
<1>3. QED
  BY <1>1, <1>2, LoopsAssumption, FS_CardinalityType

\* A worker that woke before the queue is stopped finds a request.
LEMMA TakeFinds ==
  ASSUME IInv, NEW w \in Workers, wpc[w] = "woken", mpc \in Running \cup {"setup"}
  PROVE  Len(requests) > 0 /\ requests # <<>>
<1>1. Woken # {}
  BY DEF Woken
<1>2. Cardinality(Woken) # 0
  BY <1>1, Finite, FS_EmptySet
<1>3. Len(requests) > 0
  BY <1>2, Finite DEF IInv, Accounted, TypeOK
<1>4. QED
  BY <1>3

LEMMA StaffPositive ==
  ASSUME IInv, NEW w \in Workers, wpc[w] # "gone"
  PROVE  workers_count > 0
<1>1. Staff # {}
  BY DEF Staff
<1>2. Cardinality(Staff) # 0
  BY <1>1, Finite, FS_EmptySet
<1>3. QED
  BY <1>2, Finite DEF IInv, StaffExact

-----------------------------------------------------------------------------

LEMMA TypeStep ==
  ASSUME IInv, Next
  PROVE  TypeOK'
<1> USE LoopsAssumption
    DEF TypeOK, LoopAt, WorkerAt, Killed, queueVars, loopVars, workerVars,
        mainVars, LoopSteps, AddSteps, WorkerSteps, MainSteps
<1>0. TypeOK
  BY DEF IInv
<1>1. ASSUME NEW w \in Workers, WorkerStep(w) \/ Hear(w) PROVE TypeOK'
  <2>1. CASE Wake(w)
    BY <1>0, <2>1 DEF Wake
  <2>2. CASE SeeStopped(w)
    BY <1>0, <2>2 DEF SeeStopped
  <2>3. CASE Take(w)
    <3>1. requests # <<>>
      BY <2>3, TakeFinds DEF Take, IInv, Loopy, RunningPhase
    <3>2. Head(requests) \in Request /\ Tail(requests) \in Seq(Request)
      BY <1>0, <3>1, HeadTailProperties
    <3>3. QED
      BY <1>0, <2>3, <3>2 DEF Take
  <2>4. CASE Process(w)
    <3>1. taken[w] \in Request
      BY <2>4 DEF Process, IInv, Loopy, TakenFull
    <3>2. QED
      BY <1>0, <2>4, <3>1 DEF Process
  <2>7. CASE Hear(w)
    BY <1>0, <2>7 DEF Hear
  <2>5. CASE Exit(w)
    <3>1. workers_count > 0
      BY <2>5, StaffPositive DEF Exit
    <3>2. QED
      BY <1>0, <2>5, <3>1, Finite DEF Exit
  <2>6. QED
    BY <1>1, <2>1, <2>2, <2>3, <2>4, <2>5, <2>7 DEF WorkerStep
<1>2. ASSUME NEW l \in Loops, LoopStep(l) \/ LoopEvent(l) PROVE TypeOK'
  <2>1. CASE AppendRequest(l)
    <3>1. hand[l] \in Request
      BY <2>1 DEF AppendRequest, IInv, Loopy, HandFull
    <3>2. Append(requests, hand[l]) \in Seq(Request)
      BY <1>0, <3>1
    <3>3. QED
      BY <1>0, <2>1, <3>2 DEF AppendRequest
  <2>2. CASE Find(l)
    BY <1>0, <2>2 DEF Find, Request
  <2>3. CASE Top(l)
    BY <1>0, <2>3 DEF Top
  <2>4. CASE Interrupted(l)
    BY <1>0, <2>4 DEF Interrupted
  <2>5. CASE FoundNothing(l) \/ Fail(l)
    <3>1. lpc' \in [Loops -> LoopSteps]
      BY <1>0, <2>5 DEF FoundNothing, Fail
    <3>2. QED
      BY <1>0, <2>5, <3>1 DEF FoundNothing, Fail
  <2>10. CASE StopItself(l)
    BY <1>0, <2>10 DEF StopItself
  <2>13. CASE HaltItself(l)
    BY <1>0, <2>13 DEF HaltItself
  <2>12. CASE TerminateItself(l)
    BY <1>0, <2>12 DEF TerminateItself
  <2>11. CASE AssertHandle(l)
    BY <1>0, <2>11 DEF AssertHandle
  <2>6. CASE EnterAdd(l)
    BY <1>0, <2>6 DEF EnterAdd
  <2>7. CASE LeaveAdd(l)
    BY <1>0, <2>7 DEF LeaveAdd
  <2>8. CASE Announce(l)
    <3>1. PICK step \in AfterAdd(l) : LoopAt(l, step)
      BY <2>8 DEF Announce
    <3>2. lpc' \in [Loops -> LoopSteps]
      BY <1>0, <3>1 DEF AfterAdd
    <3>3. QED
      BY <1>0, <2>8, <3>2 DEF Announce
  <2>9. QED
    BY <1>2, <2>1, <2>2, <2>3, <2>4, <2>5, <2>6, <2>7, <2>8, <2>10, <2>11,
       <2>12, <2>13
    DEF LoopStep, LoopEvent, AddStep
<1>3. CASE OwnerStep
  <2>0. todo # <<>> => Head(todo) \in Loops /\ Tail(todo) \in Seq(Loops)
    BY <1>0, HeadTailProperties
  <2>1. CASE StartThread
    BY <1>0, <2>0, <2>1 DEF StartThread
  <2>2. CASE StoreHandle
    BY <1>0, <2>0, <2>2 DEF StoreHandle, IInv, Loopy, TodoThere
  <2>3. CASE AllStarted \/ Join
    BY <1>0, <2>3 DEF AllStarted, Join
  <2>4. CASE StopLoop
    <3>1. todo # <<>> /\ Head(todo) \in Loops /\ Tail(todo) \in Seq(Loops)
      BY <2>0, <2>4 DEF StopLoop, IInv, Loopy, TodoThere
    <3>2. QED
      BY <1>0, <2>4, <3>1 DEF StopLoop
  <2>10. CASE PassLoop
    BY <1>0, <2>0, <2>10 DEF PassLoop
  <2>5. CASE LoopLeft
    BY <1>0, <2>0, <2>5 DEF LoopLeft, IInv, Loopy, TodoThere
  <2>6. CASE GetHeavy
    <3>1. todo # <<>> /\ Head(todo) \in Loops /\ Tail(todo) \in Seq(Loops)
      BY <2>0, <2>6 DEF GetHeavy, IInv, Loopy, TodoThere
    <3>2. QED
      BY <1>0, <2>6, <3>1 DEF GetHeavy
  <2>7. CASE ReleaseWorkers
    BY <1>0, <2>7, Finite DEF ReleaseWorkers
  <2>8. CASE Delete
    BY <1>0, <2>8, EmptySeq DEF Delete
  <2>9. QED
    BY <1>3, <2>1, <2>2, <2>3, <2>4, <2>5, <2>6, <2>7, <2>8, <2>10
    DEF OwnerStep
<1>4. CASE OwnerCall
  <2>1. CASE Start \/ Stop
    BY <1>0, <2>1 DEF Start, Stop
  <2>2. ASSUME NEW l \in Loops, AddSubmissionLoop(l) PROVE TypeOK'
    <3>1. <<l>> \in Seq(Loops)
      OBVIOUS
    <3>2. <<l>> \o submitters \in Seq(Loops)
      BY <1>0, <3>1, ConcatProperties
    <3>3. QED
      BY <1>0, <2>2, <3>1, <3>2 DEF AddSubmissionLoop
  <2>3. QED
    BY <1>4, <2>1, <2>2 DEF OwnerCall
<1>5. QED
  BY <1>1, <1>2, <1>3, <1>4 DEF Next

-----------------------------------------------------------------------------

\* Only Exit takes a worker off the count (start_routine).
LEMMA StaffStep ==
  ASSUME IInv, Next
  PROVE  StaffExact'
<1> USE LoopsAssumption, Finite
<1>0. TypeOK /\ StaffExact
  BY DEF IInv
<1>1. ASSUME NEW w \in Workers, WorkerStep(w) \/ Hear(w) PROVE StaffExact'
  <2>1. CASE Exit(w)
    <3>1. w \in Staff /\ Staff' = Staff \ {w}
      BY <1>0, <2>1 DEF Exit, WorkerAt, Staff, TypeOK
    <3>2. Cardinality(Staff') = Cardinality(Staff) - 1
      BY <3>1, FS_RemoveElement
    <3>3. QED
      BY <1>0, <2>1, <3>2 DEF Exit, StaffExact
  <2>2. CASE Wake(w) \/ SeeStopped(w) \/ Take(w) \/ Hear(w) \/ Process(w)
    <3>1. Staff' = Staff /\ workers_count' = workers_count
      BY <1>0, <2>2
      DEF Wake, SeeStopped, Take, Hear, Process, WorkerAt, Staff, TypeOK, queueVars
    <3>2. QED
      BY <1>0, <3>1 DEF StaffExact
  <2>3. QED
    BY <1>1, <2>1, <2>2 DEF WorkerStep
<1>2. CASE UNCHANGED <<workers_count, wpc>>
  BY <1>0, <1>2 DEF StaffExact, Staff
<1>3. (\E l \in Loops : LoopStep(l) \/ LoopEvent(l)) => UNCHANGED <<workers_count, wpc>>
  BY DEF LoopStep, LoopEvent, AddStep, Top, Find, Interrupted, FoundNothing,
         Fail, EnterAdd, AppendRequest, LeaveAdd, Announce, StopItself,
         HaltItself, TerminateItself, AssertHandle, queueVars, workerVars
<1>4. OwnerStep \/ OwnerCall => UNCHANGED <<workers_count, wpc>>
  BY DEF OwnerStep, OwnerCall, StartThread, StoreHandle, AllStarted, PassLoop, StopLoop,
         LoopLeft, GetHeavy, ReleaseWorkers, Join, Delete, Start, Stop,
         AddSubmissionLoop, queueVars, workerVars
<1>5. QED
  BY <1>1, <1>2, <1>3, <1>4 DEF Next

\* Until stop is called nothing but a worker that takes a request off the list
\* uses up a unit that stands for it (worker_loop, threaded_queue::add).
LEMMA AccountStep ==
  ASSUME IInv, Next, (mpc \in Running \cup {"setup"})'
  PROVE  requests_sem' + Cardinality(Woken') + Cardinality(Unannounced') = Len(requests')
<1> USE Finite DEF Running
<1>0. TypeOK /\ Accounted
  BY DEF IInv
<1>1. mpc \in Running \cup {"setup"}
  BY <1>0 DEF TypeOK, MainSteps, Next, WorkerStep, Wake, SeeStopped, Take, Hear, Process,
     Exit, LoopStep, LoopEvent, AddStep, Top, Find, Interrupted, FoundNothing, Fail,
     EnterAdd, AppendRequest, LeaveAdd, Announce, StopItself, HaltItself, TerminateItself,
     AssertHandle, OwnerStep, OwnerCall, StartThread, StoreHandle, AllStarted, PassLoop,
     StopLoop, LoopLeft, GetHeavy, ReleaseWorkers, Join, Delete, Start, Stop,
     AddSubmissionLoop, mainVars
<1>2. requests_sem + Cardinality(Woken) + Cardinality(Unannounced) = Len(requests)
  BY <1>0, <1>1 DEF Accounted
<1>3. mpc = "setup" => Woken = {} /\ \A l \in Loops : lpc[l] = "none"
  <2>1. SUFFICES ASSUME mpc = "setup" PROVE Woken = {}
    BY DEF IInv, Loopy, SetupQuiet
  <2>2. Len(requests) = 0
    BY <2>1 DEF IInv, Loopy, SetupQuiet
  <2>3. QED
    BY <1>0, <1>2, <2>2, FS_EmptySet DEF TypeOK
<1>4. ASSUME NEW w \in Workers, WorkerStep(w) \/ Hear(w)
      PROVE  requests_sem' + Cardinality(Woken') + Cardinality(Unannounced') = Len(requests')
  <2>0. Unannounced' = Unannounced
    BY <1>4 DEF WorkerStep, Wake, SeeStopped, Take, Hear, Process, Exit, loopVars, Unannounced
  <2>1. CASE Wake(w)
    <3>1. w \notin Woken /\ Woken' = Woken \cup {w}
      BY <1>0, <2>1 DEF Wake, WorkerAt, Woken, TypeOK
    <3>2. Cardinality(Woken') = Cardinality(Woken) + 1
      BY <3>1, FS_AddElement
    <3>3. QED
      BY <1>0, <1>2, <2>0, <2>1, <3>2, SMTT(20) DEF Wake, TypeOK
  <2>2. CASE SeeStopped(w)
    <3>1. mpc # "setup"
      BY <1>3, <2>2 DEF SeeStopped, Woken
    <3>2. QED
      BY <1>1, <2>2, <3>1 DEF SeeStopped, IInv, Loopy, RunningPhase
  <2>3. CASE Take(w)
    <3>1. w \in Woken /\ Woken' = Woken \ {w}
      BY <1>0, <2>3 DEF Take, WorkerAt, Woken, TypeOK
    <3>2. Cardinality(Woken') = Cardinality(Woken) - 1
      BY <3>1, FS_RemoveElement
    <3>3. Len(Tail(requests)) = Len(requests) - 1
      BY <1>0, <1>1, <2>3, TakeFinds, HeadTailProperties DEF Take, TypeOK
    <3>4. QED
      BY <1>0, <1>2, <2>0, <2>3, <3>2, <3>3 DEF Take, TypeOK
  <2>4. CASE Hear(w) \/ Process(w) \/ Exit(w)
    <3>1. Woken' = Woken
      BY <1>0, <2>4 DEF Hear, Process, Exit, WorkerAt, Woken, TypeOK
    <3>2. QED
      BY <1>2, <2>0, <2>4, <3>1 DEF Hear, Process, Exit, queueVars
  <2>5. QED
    BY <1>4, <2>1, <2>2, <2>3, <2>4 DEF WorkerStep
<1>5. ASSUME NEW l \in Loops, LoopStep(l) \/ LoopEvent(l)
      PROVE  requests_sem' + Cardinality(Woken') + Cardinality(Unannounced') = Len(requests')
  <2>0. Woken' = Woken
    BY <1>5 DEF LoopStep, LoopEvent, AddStep, Top, Find, Interrupted, FoundNothing, Fail,
       EnterAdd, AppendRequest, LeaveAdd, Announce, StopItself, HaltItself,
       TerminateItself, AssertHandle, workerVars, Woken
  <2>1. CASE AppendRequest(l)
    <3>1. l \notin Unannounced /\ Unannounced' = Unannounced \cup {l}
      BY <1>0, <2>1 DEF AppendRequest, LoopAt, Unannounced, TypeOK
    <3>2. Cardinality(Unannounced') = Cardinality(Unannounced) + 1
      BY <3>1, FS_AddElement
    <3>3. hand[l] \in Request
      BY <2>1 DEF AppendRequest, IInv, Loopy, HandFull
    <3>4. Len(Append(requests, hand[l])) = Len(requests) + 1
      BY <1>0, <3>3 DEF TypeOK
    <3>5. QED
      BY <1>0, <1>2, <2>0, <2>1, <3>2, <3>4 DEF AppendRequest, TypeOK
  <2>2. CASE Announce(l)
    <3>1. l \in Unannounced /\ Unannounced' = Unannounced \ {l}
      BY <1>0, <2>2 DEF Announce, LoopAt, AfterAdd, Unannounced, TypeOK
    <3>2. Cardinality(Unannounced') = Cardinality(Unannounced) - 1
      BY <3>1, FS_RemoveElement
    <3>3. QED
      BY <1>0, <1>2, <2>0, <2>2, <3>2 DEF Announce, TypeOK
  <2>3. CASE LeaveAdd(l)
    <3>1. Unannounced' = Unannounced
      BY <1>0, <2>3 DEF LeaveAdd, LoopAt, Unannounced, TypeOK
    <3>2. QED
      BY <1>2, <2>0, <2>3, <3>1 DEF LeaveAdd
  <2>4. CASE Top(l) \/ Find(l) \/ Interrupted(l) \/ FoundNothing(l) \/ Fail(l)
             \/ EnterAdd(l) \/ StopItself(l) \/ HaltItself(l) \/ TerminateItself(l) \/ AssertHandle(l)
    <3>1. Unannounced' = Unannounced
      BY <1>0, <2>4 DEF Top, Find, Interrupted, FoundNothing, Fail, EnterAdd, StopItself,
         HaltItself, TerminateItself, AssertHandle, Killed, LoopAt, Unannounced, TypeOK,
         loopVars
    <3>2. UNCHANGED <<requests, requests_sem>>
      BY <2>4 DEF Top, Find, Interrupted, FoundNothing, Fail, EnterAdd,
         StopItself, HaltItself, TerminateItself, AssertHandle, queueVars
    <3>3. QED
      BY <1>2, <2>0, <3>1, <3>2
  <2>5. QED
    BY <1>5, <2>1, <2>2, <2>3, <2>4 DEF LoopStep, LoopEvent, AddStep
<1>6. CASE OwnerStep \/ OwnerCall
  <2>1. UNCHANGED <<requests, requests_sem, wpc>>
    BY <1>1, <1>6 DEF OwnerStep, OwnerCall, StartThread, StoreHandle, AllStarted,
       PassLoop, StopLoop, LoopLeft, GetHeavy, ReleaseWorkers, Join, Delete,
       Start, Stop, AddSubmissionLoop, queueVars, workerVars
  <2>2. CASE StartThread
    <3>1. todo # <<>> /\ Head(todo) = todo[1] /\ 1 \in 1 .. Len(todo)
      BY <1>0, <2>2 DEF StartThread, TypeOK
    <3>2. lpc[Head(todo)] = "none"
      BY <2>2, <3>1 DEF StartThread, IInv, Loopy, StartOnce
    <3>3. Unannounced' = Unannounced
      BY <1>0, <2>2, <3>2 DEF StartThread, LoopAt, Unannounced, TypeOK
    <3>4. QED
      BY <1>2, <2>1, <3>3 DEF Woken
  <2>3. CASE lpc' = lpc
    BY <1>2, <2>1, <2>3 DEF Woken, Unannounced
  <2>4. lpc' = lpc \/ StartThread
    BY <1>1, <1>6 DEF OwnerStep, OwnerCall, StoreHandle, AllStarted,
       PassLoop, StopLoop, LoopLeft, GetHeavy, ReleaseWorkers, Join, Delete,
       Start, Stop, AddSubmissionLoop, loopVars
  <2>5. QED
    BY <2>2, <2>3, <2>4
<1>7. QED
  BY <1>4, <1>5, <1>6 DEF Next

-----------------------------------------------------------------------------

\* A worker touches nothing of the loops and of their owner.
LEMMA LoopyWorker ==
  ASSUME IInv, NEW w \in Workers, WorkerStep(w) \/ Hear(w)
  PROVE  Loopy'
<1> USE DEF IInv, Loopy, Running, Stopped
<1>0. TypeOK
  OBVIOUS
<1>1. UNCHANGED <<running, loopVars, mainVars>> /\ (mpc = "setup" => requests' = requests)
  BY <1>0, TakeFinds
  DEF WorkerStep, Wake, SeeStopped, Take, Hear, Process, Exit, queueVars, RunningPhase
<1>2. RunningPhase' /\ TodoThere'
  BY <1>1 DEF RunningPhase, TodoThere, mainVars
<1>3. SetupQuiet' /\ HandFull'
  BY <1>1 DEF SetupQuiet, HandFull, loopVars, mainVars
<1>4. StartOnce'
  BY <1>1 DEF StartOnce, loopVars, mainVars, Distinct, Listed
<1>5. RunningListed' /\ StoppedDead'
  BY <1>1 DEF RunningListed, StoppedDead, loopVars, mainVars, Listed
<1>6. TakenFull'
  <2>1. CASE Take(w)
    <3>1. requests # <<>>
      BY <2>1, TakeFinds DEF Take, RunningPhase
    <3>2. Head(requests) \in Request
      BY <1>0, <3>1, HeadTailProperties DEF TypeOK
    <3>3. QED
      BY <1>0, <2>1, <3>2 DEF Take, TakenFull, WorkerAt, TypeOK
  <2>2. CASE Wake(w) \/ SeeStopped(w) \/ Hear(w) \/ Process(w) \/ Exit(w)
    BY <1>0, <2>2
    DEF Wake, SeeStopped, Hear, Process, Exit, TakenFull, WorkerAt, TypeOK
  <2>3. QED
    BY <2>1, <2>2 DEF WorkerStep
<1>7. NobodyLeft'
  <2>1. CASE Exit(w)
    <3>1. workers_count > 0
      BY <2>1, StaffPositive DEF Exit
    <3>2. QED
      BY <1>1, <2>1, <3>1 DEF NobodyLeft, mainVars
  <2>2. CASE Wake(w) \/ SeeStopped(w) \/ Hear(w) \/ Process(w) \/ Take(w)
    BY <2>2 DEF Wake, SeeStopped, Hear, Process, Take, NobodyLeft, mainVars, queueVars
  <2>3. QED
    BY <2>1, <2>2 DEF WorkerStep
<1>8. QED
  BY <1>2, <1>3, <1>4, <1>5, <1>6, <1>7

\* A loop never comes back from the dead, and stops running only as it dies.
LEMMA LoopyLoop ==
  ASSUME IInv, NEW l \in Loops, LoopStep(l) \/ LoopEvent(l)
  PROVE  Loopy'
<1> USE DEF IInv, Loopy, Running, Stopped
<1>0. TypeOK
  OBVIOUS
<1>1. /\ UNCHANGED <<running, workers_count, submitters, wpc, taken, mainVars>>
      /\ lpc[l] \notin {"none", "dead"} /\ lpc'[l] # "none"
      /\ \A m \in Loops : m # l => /\ lpc'[m] = lpc[m]
                                   /\ loop_running'[m] = loop_running[m]
                                   /\ hand'[m] = hand[m]
      /\ loop_running'[l] = loop_running[l] \/ (~loop_running'[l] /\ lpc'[l] \in {"leaving", "dead"})
      /\ lpc[l] = "leaving" => lpc'[l] = "dead"
      /\ lpc'[l] \in {"enter", "append"} => hand'[l] \in Request
  <2> USE <1>0 DEF TypeOK, LoopAt, Killed, queueVars, workerVars
  <2>1. CASE Find(l)
    BY <2>1, LoopsAssumption DEF Find, Request
  <2>2. CASE Top(l)
    BY <2>2 DEF Top
  <2>3. CASE Interrupted(l)
    BY <2>3 DEF Interrupted
  <2>4. CASE FoundNothing(l) \/ Fail(l)
    BY <2>4 DEF FoundNothing, Fail
  <2>5. CASE EnterAdd(l)
    BY <2>5 DEF EnterAdd, HandFull
  <2>6. CASE AppendRequest(l)
    BY <2>6 DEF AppendRequest
  <2>7. CASE LeaveAdd(l)
    BY <2>7 DEF LeaveAdd
  <2>8. CASE Announce(l)
    BY <2>8 DEF Announce, AfterAdd
  <2>9. CASE StopItself(l) \/ HaltItself(l) \/ TerminateItself(l) \/ AssertHandle(l)
    BY <2>9 DEF StopItself, HaltItself, TerminateItself, AssertHandle, loopVars
  <2>10. QED
    BY <2>1, <2>2, <2>3, <2>4, <2>5, <2>6, <2>7, <2>8, <2>9
    DEF LoopStep, LoopEvent, AddStep
<1>2. RunningPhase' /\ TodoThere' /\ NobodyLeft' /\ TakenFull'
  BY <1>1 DEF RunningPhase, TodoThere, NobodyLeft, TakenFull, mainVars
<1>3. SetupQuiet' /\ HandFull'
  BY <1>1 DEF SetupQuiet, HandFull, mainVars
<1>4. StartOnce'
  <2>1. Distinct(submitters)' /\ \A m \in Loops : lpc'[m] # "none" => Listed(m, submitters)'
    BY <1>1 DEF StartOnce, Listed, Distinct
  <2>2. ASSUME (mpc \in {"start", "started"})', NEW i \in 1 .. Len(todo),
               mpc = "start" \/ i > 1
        PROVE  lpc'[todo[i]] = "none"
    BY <1>0, <1>1, <2>2 DEF StartOnce, mainVars, TypeOK
  <2>3. QED
    BY <1>1, <2>1, <2>2 DEF StartOnce, Listed, Distinct, mainVars
<1>5. RunningListed' /\ StoppedDead'
  BY <1>1 DEF RunningListed, StoppedDead, mainVars, Listed
<1>6. QED
  BY <1>2, <1>3, <1>4, <1>5

\* The owner starts each loop it knows of once, and leaves none running.
LEMMA LoopyOwner ==
  ASSUME IInv, OwnerStep \/ OwnerCall
  PROVE  Loopy'
<1> USE DEF IInv, Loopy, Running, Stopped, queueVars, loopVars, workerVars, mainVars
<1>0. TypeOK
  OBVIOUS
<1>1. todo # <<>> => /\ Head(todo) = todo[1] /\ Head(todo) \in Loops
                     /\ Tail(todo) \in Seq(Loops)
                     /\ Len(todo) \in Nat /\ Len(todo) >= 1
                     /\ Len(Tail(todo)) = Len(todo) - 1
                     /\ \A i \in 1 .. Len(Tail(todo)) : Tail(todo)[i] = todo[i + 1]
  BY <1>0, HeadTailProperties DEF TypeOK
<1>2. ASSUME todo # <<>>, NEW l \in Loops, l # Head(todo), Listed(l, todo)
      PROVE  Listed(l, Tail(todo))
  <2>1. PICK i \in 1 .. Len(todo) : todo[i] = l
    BY <1>2 DEF Listed
  <2>2. i # 1 /\ i - 1 \in 1 .. Len(Tail(todo)) /\ Tail(todo)[i - 1] = l
    BY <1>1, <1>2, <2>1
  <2>3. QED
    BY <2>2 DEF Listed
<1>3. CASE \E l \in Loops : AddSubmissionLoop(l)
  <2>1. PICK l \in Loops : AddSubmissionLoop(l)
    BY <1>3
  <2> DEFINE longer == <<l>> \o submitters
  <2>2. /\ <<l>> \in Seq(Loops) /\ Len(<<l>>) = 1 /\ <<l>>[1] = l
        /\ submitters \in Seq(Loops) /\ Len(submitters) \in Nat
        /\ DOMAIN submitters = 1 .. Len(submitters)
    BY <1>0 DEF TypeOK
  <2>3. /\ Len(longer) = Len(submitters) + 1
        /\ longer[1] = l
        /\ \A i \in 2 .. Len(submitters) + 1 : longer[i] = submitters[i - 1]
    BY <2>2, ConcatProperties
  <2>4. \A i \in 1 .. Len(submitters) : submitters[i] # l
    BY <2>1, <2>2 DEF AddSubmissionLoop
  <2>5. Distinct(longer)
    <3>1. SUFFICES ASSUME NEW i \in 1 .. Len(longer), NEW j \in 1 .. Len(longer),
                          longer[i] = longer[j]
                   PROVE  i = j
      BY DEF Distinct
    <3>2. CASE i > 1 /\ j > 1
      <4>1. /\ i - 1 \in 1 .. Len(submitters) /\ j - 1 \in 1 .. Len(submitters)
            /\ submitters[i - 1] = submitters[j - 1]
        BY <2>2, <2>3, <3>1, <3>2
      <4>2. i - 1 = j - 1
        BY <4>1 DEF StartOnce, Distinct
      <4>3. QED
        BY <2>2, <2>3, <4>2
    <3>3. CASE i = 1 \/ j = 1
      BY <2>2, <2>3, <2>4, <3>1, <3>3
    <3>4. QED
      BY <2>2, <2>3, <3>2, <3>3
  <2>6. \A m \in Loops : Listed(m, submitters) => Listed(m, longer)
    <3>1. SUFFICES ASSUME NEW m \in Loops, NEW i \in 1 .. Len(submitters), submitters[i] = m
                   PROVE  Listed(m, longer)
      BY DEF Listed
    <3>2. i + 1 \in 1 .. Len(longer) /\ longer[i + 1] = m
      BY <2>2, <2>3, <3>1
    <3>3. QED
      BY <3>2 DEF Listed
  <2>7. Listed(l, longer)
    BY <2>2, <2>3 DEF Listed
  <2>8. lpc[l] = "none"
    BY <2>4 DEF StartOnce, Listed
  <2>9. submitters' = longer /\ UNCHANGED <<loop_running, lpc, hand, requests, running, taken, wpc, workers_count>>
    BY <2>1 DEF AddSubmissionLoop
  <2>10. CASE running
    <3>1. mpc' = "start" /\ todo' = <<l>> /\ mpc = "pause"
      BY <2>1, <2>10 DEF AddSubmissionLoop, RunningPhase
    <3>2. RunningPhase' /\ SetupQuiet' /\ HandFull' /\ TakenFull' /\ TodoThere' /\ NobodyLeft'
      BY <2>9, <2>10, <3>1
      DEF RunningPhase, SetupQuiet, HandFull, TakenFull, TodoThere, NobodyLeft
    <3>3. \A i \in 1 .. Len(todo') : i = 1 /\ todo'[i] = l
      BY <2>2, <3>1
    <3>4. Distinct(todo)' /\ \A m \in Loops : Listed(m, todo)' => Listed(m, submitters)'
      BY <2>7, <2>9, <3>3 DEF Distinct, Listed
    <3>5. StartOnce'
      BY <2>5, <2>6, <2>8, <2>9, <3>1, <3>3, <3>4 DEF StartOnce
    <3>6. RunningListed' /\ StoppedDead'
      BY <2>6, <2>9, <3>1 DEF RunningListed, StoppedDead
    <3>7. QED
      BY <3>2, <3>5, <3>6
  <2>11. CASE ~running
    <3>1. mpc' = mpc /\ todo' = todo /\ mpc = "setup"
      BY <2>1, <2>11 DEF AddSubmissionLoop, RunningPhase
    <3>2. RunningPhase' /\ SetupQuiet' /\ HandFull' /\ TakenFull' /\ TodoThere' /\ NobodyLeft'
      BY <2>9, <2>11, <3>1
      DEF RunningPhase, SetupQuiet, HandFull, TakenFull, TodoThere, NobodyLeft
    <3>3. StartOnce'
      BY <2>5, <2>6, <2>9, <3>1 DEF StartOnce
    <3>4. RunningListed' /\ StoppedDead'
      BY <2>6, <2>9, <3>1 DEF RunningListed, StoppedDead
    <3>5. QED
      BY <3>2, <3>3, <3>4
  <2>12. QED
    BY <2>10, <2>11
<1>4. CASE Start
  <2>1. RunningPhase' /\ SetupQuiet' /\ HandFull' /\ TakenFull' /\ TodoThere' /\ NobodyLeft'
    BY <1>4 DEF Start, RunningPhase, SetupQuiet, HandFull, TakenFull, TodoThere, NobodyLeft
  <2>2. StartOnce'
    BY <1>0, <1>4, ElementOfSeq DEF Start, StartOnce, SetupQuiet, Distinct, Listed, TypeOK
  <2>3. RunningListed' /\ StoppedDead'
    BY <1>4 DEF Start, RunningListed, StoppedDead, Listed
  <2>4. QED
    BY <2>1, <2>2, <2>3
<1>5. CASE Stop
  <2>1. RunningPhase' /\ SetupQuiet' /\ HandFull' /\ TakenFull' /\ TodoThere' /\ NobodyLeft'
    BY <1>5 DEF Stop, RunningPhase, SetupQuiet, HandFull, TakenFull, TodoThere, NobodyLeft
  <2>2. StartOnce' /\ RunningListed' /\ StoppedDead'
    BY <1>5 DEF Stop, StartOnce, RunningListed, StoppedDead, Listed, Distinct
  <2>3. QED
    BY <2>1, <2>2
<1>6. CASE StartThread
  <2>1. todo # <<>> /\ lpc[Head(todo)] = "none"
    BY <1>1, <1>6 DEF StartThread, StartOnce
  <2>2. Listed(Head(todo), todo) /\ Listed(Head(todo), submitters)
    BY <1>1, <1>6, <2>1 DEF StartThread, StartOnce, Listed
  <2>3. RunningPhase' /\ SetupQuiet' /\ HandFull' /\ TakenFull' /\ TodoThere' /\ NobodyLeft'
    BY <1>0, <1>6, <2>1 DEF StartThread, RunningPhase, SetupQuiet, HandFull,
       TakenFull, TodoThere, NobodyLeft, LoopAt, TypeOK
  <2>4. StartOnce'
    <3>1. \A i \in 1 .. Len(todo) : i > 1 => todo[i] # Head(todo)
      BY <1>1, <1>6, <2>1 DEF StartThread, StartOnce, Distinct
    <3>2. QED
      BY <1>0, <1>1, <1>6, <2>1, <2>2, <3>1
      DEF StartThread, StartOnce, Distinct, Listed, LoopAt, TypeOK
  <2>5. RunningListed' /\ StoppedDead'
    BY <1>0, <1>1, <1>6, <2>1, <2>2
    DEF StartThread, RunningListed, StoppedDead, Listed, LoopAt, TypeOK
  <2>6. QED
    BY <2>3, <2>4, <2>5
<1>7. CASE StoreHandle
  <2>1. todo # <<>>
    BY <1>7 DEF StoreHandle, TodoThere
  <2>2. RunningPhase' /\ SetupQuiet' /\ HandFull' /\ TakenFull' /\ TodoThere' /\ NobodyLeft'
    BY <1>7 DEF StoreHandle, RunningPhase, SetupQuiet, HandFull, TakenFull,
       TodoThere, NobodyLeft
  <2>3. StartOnce'
    <3>1. \A i \in 1 .. Len(Tail(todo)) :
            /\ i + 1 \in 1 .. Len(todo) /\ i + 1 > 1
            /\ Tail(todo)[i] = todo[i + 1]
      BY <1>1, <2>1
    <3>2. Distinct(Tail(todo))
      BY <1>7, <3>1 DEF StoreHandle, StartOnce, Distinct
    <3>3. \A l \in Loops : Listed(l, Tail(todo)) => Listed(l, todo)
      BY <3>1 DEF Listed
    <3>4. \A i \in 1 .. Len(Tail(todo)) : lpc[Tail(todo)[i]] = "none"
      BY <1>7, <3>1 DEF StoreHandle, StartOnce
    <3>5. QED
      BY <1>7, <3>2, <3>3, <3>4 DEF StoreHandle, StartOnce
  <2>4. RunningListed' /\ StoppedDead'
    BY <1>7 DEF StoreHandle, RunningListed, StoppedDead, Listed
  <2>5. QED
    BY <2>2, <2>3, <2>4
<1>8. CASE AllStarted \/ Join \/ Delete
  <2>1. RunningPhase' /\ SetupQuiet' /\ HandFull' /\ TakenFull' /\ TodoThere' /\ NobodyLeft'
    BY <1>8 DEF AllStarted, Join, Delete, RunningPhase, SetupQuiet, HandFull,
       TakenFull, TodoThere, NobodyLeft
  <2>2. StartOnce' /\ RunningListed' /\ StoppedDead'
    BY <1>8 DEF AllStarted, Join, Delete, StartOnce, RunningListed, StoppedDead,
       Listed, Distinct
  <2>3. QED
    BY <2>1, <2>2
<1>9. CASE PassLoop \/ StopLoop \/ LoopLeft \/ GetHeavy \/ ReleaseWorkers
  <2>1. todo = <<>> => ReleaseWorkers
    BY <1>9 DEF PassLoop, StopLoop, LoopLeft, GetHeavy, TodoThere
  <2>2. RunningPhase' /\ SetupQuiet' /\ TakenFull' /\ NobodyLeft' /\ TodoThere'
    BY <1>9, <2>1 DEF PassLoop, StopLoop, LoopLeft, GetHeavy, ReleaseWorkers,
       RunningPhase, SetupQuiet, TakenFull, NobodyLeft, TodoThere
  <2>3. CASE PassLoop
    <3> DEFINE l == Head(todo)
    <3>1. /\ mpc = "stop" /\ todo # <<>> /\ l \in Loops
          /\ UNCHANGED <<submitters, hand, loop_running, lpc>>
          /\ \/ mpc' = "halt" /\ todo' = todo /\ loop_running[l]
             \/ mpc' = "stop" /\ todo' = Tail(todo) /\ ~loop_running[l]
      BY <1>1, <2>3 DEF PassLoop
    <3>2. HandFull' /\ StoppedDead'
      BY <3>1 DEF HandFull, StoppedDead
    <3>3. StartOnce'
      BY <3>1 DEF StartOnce, RunningListed, Distinct, Listed
    <3>4. RunningListed'
      <4>1. \A m \in Loops : Listed(m, submitters)' <=> Listed(m, submitters)
        BY <3>1 DEF Listed
      <4>2. ASSUME NEW m \in Loops, loop_running'[m] PROVE Listed(m, todo)'
        BY <1>2, <3>1, <4>2 DEF RunningListed, Listed
      <4>3. QED
        BY <3>1, <4>1, <4>2 DEF RunningListed
    <3>5. QED
      BY <2>2, <3>2, <3>3, <3>4
  <2>4. CASE StopLoop
    <3> DEFINE l == Head(todo)
    <3>1. /\ mpc = "halt" /\ todo # <<>> /\ l \in Loops /\ submitters' = submitters
          /\ mpc' \in {"stop", "ask"} /\ hand' = hand
          /\ loop_running' = [loop_running EXCEPT ![l] = FALSE]
          /\ \/ mpc' = "ask" /\ todo' = todo /\ lpc' = lpc
             \/ /\ mpc' = "stop" /\ todo' = Tail(todo)
                /\ lpc' = [lpc EXCEPT ![l] = "dead"]
      BY <1>1, <2>4 DEF StopLoop, Killed, LoopAt, TodoThere
    <3>2. \A m \in Loops : lpc'[m] = lpc[m] \/ (m = l /\ lpc'[m] = "dead")
      BY <1>0, <3>1 DEF TypeOK
    <3>3. HandFull'
      BY <3>1, <3>2 DEF HandFull
    <3>4. StartOnce'
      <4>1. Listed(l, submitters)
        BY <3>1 DEF StartOnce
      <4>2. \A m \in Loops : lpc'[m] # "none" => Listed(m, submitters)
        BY <3>2, <4>1 DEF StartOnce
      <4>3. QED
        BY <3>1, <4>1, <4>2 DEF StartOnce, Distinct, Listed
    <3>5. \A m \in Loops : loop_running'[m] => m # l /\ loop_running[m]
      BY <1>0, <3>1 DEF TypeOK
    <3>6. RunningListed'
      <4>1. \A m \in Loops : Listed(m, submitters)' <=> Listed(m, submitters)
        BY <3>1 DEF Listed
      <4>2. ASSUME NEW m \in Loops, loop_running'[m] PROVE Listed(m, todo)'
        BY <1>2, <3>1, <3>5, <4>2 DEF RunningListed, Listed
      <4>3. QED
        BY <3>1, <3>5, <4>1, <4>2 DEF RunningListed
    <3>7. StoppedDead'
      BY <1>0, <3>1, <3>2 DEF StoppedDead, TypeOK
    <3>8. QED
      BY <2>2, <3>3, <3>4, <3>6, <3>7
  <2>5. CASE LoopLeft \/ GetHeavy
    <3> DEFINE l == Head(todo)
    <3>1. /\ mpc \in {"ask", "heavy"} /\ todo # <<>> /\ l \in Loops
          /\ UNCHANGED <<submitters, hand, loop_running>>
          /\ \/ mpc' \in {"ask", "heavy"} /\ todo' = todo /\ lpc' = lpc
             \/ /\ mpc' = "stop" /\ todo' = Tail(todo) /\ lpc'[l] = "dead"
                /\ \A m \in Loops : m # l => lpc'[m] = lpc[m]
      <4>1. CASE LoopLeft
        BY <1>1, <4>1 DEF LoopLeft, TodoThere
      <4>2. CASE GetHeavy
        BY <1>0, <1>1, <4>2 DEF GetHeavy, Killed, LoopAt, TodoThere, TypeOK
      <4>3. QED
        BY <2>5, <4>1, <4>2
    <3>2. HandFull'
      BY <3>1 DEF HandFull
    <3>3. StartOnce'
      <4>1. \A m \in Loops : lpc'[m] # "none" => Listed(m, submitters)
        BY <3>1 DEF StartOnce
      <4>2. QED
        BY <3>1, <4>1 DEF StartOnce, Distinct, Listed
    <3>4. RunningListed'
      <4>1. \A m \in Loops : Listed(m, submitters)' <=> Listed(m, submitters)
        BY <3>1 DEF Listed
      <4>2. ASSUME NEW m \in Loops, loop_running'[m] PROVE Listed(m, todo)'
        BY <1>2, <3>1, <4>2 DEF RunningListed, Listed
      <4>3. QED
        BY <3>1, <4>1, <4>2 DEF RunningListed
    <3>5. StoppedDead'
      BY <3>1 DEF StoppedDead
    <3>6. QED
      BY <2>2, <3>2, <3>3, <3>4, <3>5
  <2>6. CASE ReleaseWorkers
    <3>1. \A l \in Loops : ~Listed(l, todo)
      BY <2>6 DEF ReleaseWorkers, Listed
    <3>2. QED
      BY <2>2, <2>6, <3>1 DEF ReleaseWorkers, StartOnce, RunningListed,
         StoppedDead, HandFull, Distinct, Listed
  <2>7. QED
    BY <1>9, <2>3, <2>4, <2>5, <2>6
<1>10. QED
  BY <1>3, <1>4, <1>5, <1>6, <1>7, <1>8, <1>9 DEF OwnerStep, OwnerCall

-----------------------------------------------------------------------------

LEMMA Invariant == Spec => []IInv
<1>1. Init => IInv
  <2>1. ASSUME Init PROVE TypeOK /\ StaffExact
    <3>1. Staff = Workers
      BY <2>1 DEF Init, Staff
    <3>2. StaffExact /\ workers_count \in 0 .. Cardinality(Workers)
      BY <2>1, <3>1, Finite DEF Init, StaffExact
    <3>3. requests \in Seq(Request) /\ submitters \in Seq(Loops) /\ todo \in Seq(Loops)
      BY <2>1, EmptySeq DEF Init
    <3>4. found \in 0 .. MaxRequests
      BY <2>1, LoopsAssumption DEF Init
    <3>5. QED
      BY <2>1, <3>2, <3>3, <3>4
      DEF Init, TypeOK, LoopSteps, WorkerSteps, MainSteps
  <2>2. ASSUME Init PROVE Accounted
    <3>1. Woken = {} /\ Unannounced = {}
      BY <2>2 DEF Init, Woken, Unannounced
    <3>2. Cardinality(Woken) = 0 /\ Cardinality(Unannounced) = 0
      BY <3>1, FS_EmptySet
    <3>3. QED
      BY <2>2, <3>2 DEF Init, Accounted
  <2>3. ASSUME Init PROVE Loopy
    BY <2>3 DEF Init, Loopy, RunningPhase, SetupQuiet, HandFull, TakenFull, TodoThere,
       StartOnce, RunningListed, StoppedDead, NobodyLeft, Distinct, Listed,
       Running, Stopped
  <2>4. QED
    BY <2>1, <2>2, <2>3 DEF IInv
<1>2. IInv /\ [Next]_vars => IInv'
  <2>1. ASSUME IInv, Next PROVE IInv'
    <3>1. Accounted'
      BY <2>1, AccountStep DEF Accounted
    <3>2. Loopy'
      BY <2>1, LoopyWorker, LoopyLoop, LoopyOwner DEF Next
    <3>3. QED
      BY <2>1, <3>1, <3>2, TypeStep, StaffStep DEF IInv
  <2>2. ASSUME IInv, UNCHANGED vars PROVE IInv'
    BY <2>2 DEF IInv, TypeOK, StaffExact, Staff, Accounted, Woken, Unannounced,
       Loopy, RunningPhase, SetupQuiet, HandFull, TakenFull, TodoThere, StartOnce,
       RunningListed, StoppedDead, NobodyLeft, Distinct, Listed, vars,
       queueVars, loopVars, workerVars, mainVars
  <2>3. QED
    BY <2>1, <2>2
<1>3. QED
  BY <1>1, <1>2, PTL DEF Spec

\* The count of workers stays within the number of threads that were created,
\* and a request taken from the list is one that was put there.
THEOREM TypeCorrect == Spec => []TypeOK
BY Invariant, PTL DEF IInv

\* assert (_requests_head) in worker_loop never fails, and no request stays in
\* the list of a running queue without a worker that will be woken for it.
THEOREM RequestSafe == Spec => []RequestThere
<1>1. IInv => RequestThere
  BY DEF IInv, Accounted, Loopy, RunningPhase, Running, RequestThere
<1>2. QED
  BY <1>1, Invariant, PTL

\* When threaded_queue::stop returns its workers have left and its loops are
\* dead or about to be, however many there are and whatever they were doing.
THEOREM StopSafe == Spec => []QuietAfterStop
<1>1. ASSUME IInv, mpc \in {"stopped", "deleted"}, NEW w \in Workers
      PROVE  wpc[w] = "gone"
  BY <1>1, StaffPositive DEF IInv, Loopy, NobodyLeft
<1>2. ASSUME IInv, mpc \in {"stopped", "deleted"}, NEW l \in Loops
      PROVE  lpc[l] \in {"none", "leaving", "dead"}
  BY <1>2 DEF IInv, Loopy, RunningListed, StoppedDead, Stopped
<1>3. IInv => QuietAfterStop
  BY <1>1, <1>2 DEF QuietAfterStop
<1>4. QED
  BY <1>3, Invariant, PTL

=============================================================================
