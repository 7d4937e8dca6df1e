----------------------------- MODULE PthreadCond -----------------------------
(***************************************************************************)
(* The pthread_cond of winsup/cygwin/thread.cc: wait (with timeout and     *)
(* cancellation), signal and broadcast on one condition variable.          *)
(*                                                                         *)
(* The internal mutexes mtx_in and mtx_out are of type NORMAL and are      *)
(* unlocked by whatever thread is due to: mtx_in, locked by the thread     *)
(* that starts a wakeup, is unlocked by the last thread woken.  Here each  *)
(* is 1 while locked; PthreadMutex shows what its lock and unlock do.      *)
(* waiting and pending are updated inside those locks, so that the updates *)
(* of one critical section form one step, except where another lock, the   *)
(* semaphore or the program's mutex is involved.                           *)
(***************************************************************************)
EXTENDS Integers, FiniteSets

CONSTANTS
  Waiter,      \* threads that wait on the condition variable
  Signaller,   \* threads that signal and broadcast
  Mutex,       \* the mutexes waiters bring
  MaxPending,  \* bound on pending when a signal is sent
  None,        \* no owner, no mutex
  Gone         \* an owner that is not there after a fork

ASSUME ThreadAssumption ==
  /\ IsFiniteSet(Waiter) /\ IsFiniteSet(Signaller)
  /\ Waiter \cap Signaller = {}
  /\ None \notin Waiter \cup Signaller \cup Mutex \cup {Gone}
  /\ Gone \notin Waiter

ASSUME MaxPendingAssumption == MaxPending \in Nat

Thread == Waiter \cup Signaller

VARIABLES
  waiting, pending,  \* the counters
  sem_wait,          \* the count of the semaphore
  mtx_in, mtx_out,   \* the internal mutexes
  mtx_cond,          \* the mutex the current waiters brought
  mutexOwner,        \* owner of each of the program's mutexes
  condwaits,         \* condwaits of each of them
  pc,                \* where each thread is
  my,                \* the mutex each waiter brought
  rv,                \* the local rv of wait, and its result
  all,               \* the argument of unblock
  entitled,          \* waiters that were there when the last wakeup was sent
  mixed              \* has a thread come with another mutex than the others'?

vars == <<waiting, pending, sem_wait, mtx_in, mtx_out, mtx_cond, mutexOwner,
          condwaits, pc, my, rv, all, entitled, mixed>>
ghosts == <<entitled, mixed>>
counters == <<waiting, pending, sem_wait>>
user == <<mutexOwner, condwaits, my>>

Results == {"signaled", "timeout", "canceled", "EINVAL"}
Steps == {"idle", "locked", "in", "count", "bad", "release", "sleep", "out", "try",
          "leave", "relock", "check", "blockin", "send", "unlock"}

\* Threads counted in waiting.
Counted(t) == pc[t] \in {"bad", "release", "sleep", "out", "try", "leave"}

Goto(t, step) == pc' = [pc EXCEPT ![t] = step]

Init ==
  /\ waiting = 0 /\ pending = 0 /\ sem_wait = 0
  /\ mtx_in = 0 /\ mtx_out = 0
  /\ mtx_cond = None
  /\ mutexOwner = [m \in Mutex |-> None]
  /\ condwaits = [m \in Mutex |-> 0]
  /\ pc = [t \in Thread |-> "idle"]
  /\ my = [t \in Waiter |-> None]
  /\ rv = [t \in Waiter |-> "signaled"]
  /\ all = [t \in Signaller |-> FALSE]
  /\ entitled = {}
  /\ mixed = FALSE

-----------------------------------------------------------------------------
(* pthread_cond::wait *)

\* The program locks the mutex it will wait with, as can_be_unlocked demands.
LockMutex(t, m) ==
  /\ pc[t] = "idle"
  /\ mutexOwner[m] = None
  /\ mutexOwner' = [mutexOwner EXCEPT ![m] = t]
  /\ my' = [my EXCEPT ![t] = m]
  /\ Goto(t, "locked")
  /\ UNCHANGED <<counters, mtx_in, mtx_out, mtx_cond, condwaits, rv, all, ghosts>>

UnlockMutex(t) ==
  /\ pc[t] = "locked"
  /\ mutexOwner' = [mutexOwner EXCEPT ![my[t]] = None]
  /\ Goto(t, "idle")
  /\ UNCHANGED <<counters, mtx_in, mtx_out, mtx_cond, condwaits, my, rv, all, ghosts>>

\* pthread_cond_wait and timedwait.  A call that is refused at the door (a mutex
\* that is not good or not the caller's, a deadline that is over) leaves
\* everything as it is, and is no step.
CallWait(t) ==
  /\ pc[t] = "locked"
  /\ Goto(t, "in")
  /\ UNCHANGED <<counters, mtx_in, mtx_out, mtx_cond, user, rv, all, ghosts>>

WaitIn(t) ==
  /\ pc[t] = "in"
  /\ mtx_in = 0
  /\ mtx_in' = 1
  /\ Goto(t, "count")
  /\ UNCHANGED <<counters, mtx_out, mtx_cond, user, rv, all, ghosts>>

\* Count the thread in; the first waiter's mutex is the one for all.
WaitCount(t) ==
  /\ pc[t] = "count"
  /\ waiting' = waiting + 1
  /\ \/ waiting = 0 /\ mtx_cond' = my[t] /\ mtx_in' = 0 /\ Goto(t, "release")
     \/ /\ waiting # 0 /\ mtx_cond = my[t]
        /\ mtx_in' = 0 /\ Goto(t, "release") /\ UNCHANGED mtx_cond
     \/ /\ waiting # 0 /\ mtx_cond # my[t]
        /\ Goto(t, "bad") /\ UNCHANGED <<mtx_in, mtx_cond>>
  /\ mixed' = (mixed \/ (waiting # 0 /\ mtx_cond # my[t]))
  /\ UNCHANGED <<pending, sem_wait, mtx_out, user, rv, all, entitled>>

\* Another mutex than the other waiters': EINVAL.
WaitBad(t) ==
  /\ pc[t] = "bad"
  /\ waiting' = waiting - 1
  /\ mtx_in' = 0
  /\ rv' = [rv EXCEPT ![t] = "EINVAL"]
  /\ Goto(t, "locked")
  /\ UNCHANGED <<pending, sem_wait, mtx_out, mtx_cond, user, all, ghosts>>

\* ++mutex->condwaits, mutex->unlock ()
WaitRelease(t) ==
  /\ pc[t] = "release"
  /\ condwaits' = [condwaits EXCEPT ![my[t]] = @ + 1]
  /\ mutexOwner' = [mutexOwner EXCEPT ![my[t]] = None]
  /\ Goto(t, "sleep")
  /\ UNCHANGED <<counters, mtx_in, mtx_out, mtx_cond, my, rv, all, ghosts>>

\* cancelable_wait (sem_wait, ...)
Wakeup(t) ==
  /\ pc[t] = "sleep"
  /\ sem_wait > 0
  /\ sem_wait' = sem_wait - 1
  /\ rv' = [rv EXCEPT ![t] = "signaled"]
  /\ Goto(t, "out")
  /\ UNCHANGED <<waiting, pending, mtx_in, mtx_out, mtx_cond, user, all, ghosts>>

\* The semaphore has priority over the cancel event, and over the timeout.
GiveUp(t, why) ==
  /\ pc[t] = "sleep"
  /\ sem_wait = 0
  /\ rv' = [rv EXCEPT ![t] = why]
  /\ Goto(t, "out")
  /\ UNCHANGED <<counters, mtx_in, mtx_out, mtx_cond, user, all, ghosts>>

WaitOut(t) ==
  /\ pc[t] = "out"
  /\ mtx_out = 0
  /\ mtx_out' = 1
  /\ Goto(t, IF rv[t] = "signaled" THEN "leave" ELSE "try")
  /\ UNCHANGED <<counters, mtx_in, mtx_cond, user, rv, all, ghosts>>

\* Mutant: the wakeup found is taken, but the thread still reports a timeout.
TryForgotten(t) ==
  /\ pc[t] = "try"
  /\ sem_wait' = IF sem_wait > 0 THEN sem_wait - 1 ELSE 0
  /\ Goto(t, "leave")
  /\ UNCHANGED <<waiting, pending, mtx_in, mtx_out, mtx_cond, user, rv, all, ghosts>>

\* A signal was sent after this thread gave up: WaitForSingleObject (sem_wait, 0)
Try(t) ==
  /\ pc[t] = "try"
  /\ \/ /\ sem_wait > 0
        /\ sem_wait' = sem_wait - 1
        /\ rv' = [rv EXCEPT ![t] = "signaled"]
     \/ sem_wait = 0 /\ UNCHANGED <<sem_wait, rv>>
  /\ Goto(t, "leave")
  /\ UNCHANGED <<waiting, pending, mtx_in, mtx_out, mtx_cond, user, all, ghosts>>

\* Mutant: the last thread woken does not let newcomers in.
LeaveShut(t) ==
  /\ pc[t] = "leave"
  /\ waiting' = waiting - 1
  /\ pending' = IF rv[t] = "signaled" THEN pending - 1 ELSE pending
  /\ entitled' = entitled \ {t}
  /\ mtx_out' = 0
  /\ Goto(t, "relock")
  /\ UNCHANGED <<sem_wait, mtx_in, mtx_cond, user, rv, all, mixed>>

\* Count the thread out; the last one woken unlocks mtx_in.
Leave(t) ==
  /\ pc[t] = "leave"
  /\ waiting' = waiting - 1
  /\ pending' = IF rv[t] = "signaled" THEN pending - 1 ELSE pending
  /\ mtx_in' = IF rv[t] = "signaled" /\ pending = 1 THEN 0 ELSE mtx_in
  /\ entitled' = entitled \ {t}
  /\ mtx_out' = 0
  /\ Goto(t, "relock")
  /\ UNCHANGED <<sem_wait, mtx_cond, user, rv, all, mixed>>

\* Mutant: condwaits is not taken back.
RelockCounted(t) ==
  /\ pc[t] = "relock"
  /\ mutexOwner[my[t]] = None
  /\ mutexOwner' = [mutexOwner EXCEPT ![my[t]] = t]
  /\ Goto(t, "locked")
  /\ UNCHANGED <<counters, mtx_in, mtx_out, mtx_cond, condwaits, my, rv, all, ghosts>>

\* mutex->lock (), --mutex->condwaits.  A thread that was cancelled goes on to
\* its cleanup handlers with the mutex locked.
Relock(t) ==
  /\ pc[t] = "relock"
  /\ mutexOwner[my[t]] = None
  /\ mutexOwner' = [mutexOwner EXCEPT ![my[t]] = t]
  /\ condwaits' = [condwaits EXCEPT ![my[t]] = @ - 1]
  /\ Goto(t, "locked")
  /\ UNCHANGED <<counters, mtx_in, mtx_out, mtx_cond, my, rv, all, ghosts>>

-----------------------------------------------------------------------------
(* pthread_cond::unblock *)

Unblock(t, a) ==
  /\ pc[t] = "idle"
  /\ pending < MaxPending
  /\ mtx_out = 0
  /\ mtx_out' = 1
  /\ all' = [all EXCEPT ![t] = a]
  /\ Goto(t, "check")
  /\ UNCHANGED <<counters, mtx_in, mtx_cond, user, rv, ghosts>>

\* Mutant: newcomers are not shut out while a wakeup is under way.
CheckOpen(t) ==
  /\ pc[t] = "check"
  /\ Goto(t, IF waiting - pending = 0 THEN "unlock" ELSE "send")
  /\ UNCHANGED <<counters, mtx_in, mtx_out, mtx_cond, user, rv, all, ghosts>>

\* Anyone to release?  The first wakeup of a round shuts newcomers out.
Check(t) ==
  /\ pc[t] = "check"
  /\ Goto(t, IF waiting - pending = 0 THEN "unlock"
             ELSE IF pending = 0 THEN "blockin" ELSE "send")
  /\ UNCHANGED <<counters, mtx_in, mtx_out, mtx_cond, user, rv, all, ghosts>>

BlockIn(t) ==
  /\ pc[t] = "blockin"
  /\ mtx_in = 0
  /\ mtx_in' = 1
  /\ Goto(t, "send")
  /\ UNCHANGED <<counters, mtx_out, mtx_cond, user, rv, all, ghosts>>

\* Mutant: a broadcast releases one thread.
SendOne(t) ==
  /\ pc[t] = "send"
  /\ pending' = pending + 1
  /\ sem_wait' = sem_wait + 1
  /\ entitled' = {u \in Waiter : Counted(u)}
  /\ Goto(t, "unlock")
  /\ UNCHANGED <<waiting, mtx_in, mtx_out, mtx_cond, user, rv, all, mixed>>

\* ReleaseSemaphore (sem_wait, released, NULL), which refuses a count that is
\* not positive.  waiting and pending are the ones seen with mtx_in locked.
Send(t) ==
  /\ pc[t] = "send"
  /\ LET released == IF all[t] THEN waiting - pending ELSE 1
     IN  /\ pending' = pending + released
         /\ sem_wait' = IF released > 0 THEN sem_wait + released ELSE sem_wait
  /\ entitled' = {u \in Waiter : Counted(u)}
  /\ Goto(t, "unlock")
  /\ UNCHANGED <<waiting, mtx_in, mtx_out, mtx_cond, user, rv, all, mixed>>

UnblockDone(t) ==
  /\ pc[t] = "unlock"
  /\ mtx_out' = 0
  /\ Goto(t, "idle")
  /\ UNCHANGED <<counters, mtx_in, mtx_cond, user, rv, all, ghosts>>

-----------------------------------------------------------------------------
(* fork *)

\* The child has the forking thread alone; a thread it makes takes the name of
\* one that is gone.  The fixups of the mutexes, of mtx_in and mtx_out too, come
\* before that of the condition variable, which unlocks those two.  A mutex of
\* the program that another thread had locked stays locked.
Fork(t) ==
  /\ pc[t] \in {"idle", "locked"}
  /\ waiting' = 0 /\ pending' = 0 /\ sem_wait' = 0
  /\ mtx_in' = 0 /\ mtx_out' = 0
  /\ mtx_cond' = None
  /\ condwaits' = [m \in Mutex |-> 0]
  /\ mutexOwner' = [m \in Mutex |->
       IF mutexOwner[m] \in {None, t} THEN mutexOwner[m] ELSE Gone]
  /\ pc' = [u \in Thread |-> IF u = t THEN pc[u] ELSE "idle"]
  /\ entitled' = {} /\ mixed' = FALSE
  /\ UNCHANGED <<my, rv, all>>

-----------------------------------------------------------------------------
(* The specification *)

WaiterStep(t) ==
  \/ \E m \in Mutex : LockMutex(t, m)
  \/ UnlockMutex(t) \/ CallWait(t) \/ WaitIn(t) \/ WaitCount(t) \/ WaitBad(t)
  \/ WaitRelease(t) \/ Wakeup(t) \/ GiveUp(t, "timeout") \/ GiveUp(t, "canceled")
  \/ WaitOut(t) \/ Try(t) \/ Leave(t) \/ Relock(t)

SignallerStep(t) ==
  \/ \E a \in BOOLEAN : Unblock(t, a)
  \/ Check(t) \/ BlockIn(t) \/ Send(t) \/ UnblockDone(t)

Next ==
  \/ \E t \in Waiter : WaiterStep(t)
  \/ \E t \in Signaller : SignallerStep(t)
  \/ \E t \in Thread : Fork(t)

Spec == Init /\ [][Next]_vars

\* Threads run; the program unlocks its mutexes; a lock or a semaphore that is
\* free again and again is granted in the end (the kernel queues waiters).
\* Nobody is forced to signal, to time out or to be cancelled.
Fairness ==
  /\ \A t \in Waiter :
       SF_vars(UnlockMutex(t) \/ WaitIn(t) \/ WaitCount(t) \/ WaitBad(t)
               \/ WaitRelease(t) \/ Wakeup(t) \/ WaitOut(t) \/ Try(t) \/ Leave(t)
               \/ Relock(t))
  /\ \A t \in Signaller :
       SF_vars(Check(t) \/ BlockIn(t) \/ Send(t) \/ UnblockDone(t))

FairSpec == Spec /\ Fairness

-----------------------------------------------------------------------------
TypeOK ==
  /\ waiting \in Nat /\ pending \in Nat /\ sem_wait \in Nat
  /\ mtx_in \in {0, 1} /\ mtx_out \in {0, 1}
  /\ mtx_cond \in Mutex \cup {None}
  /\ mutexOwner \in [Mutex -> Waiter \cup {None, Gone}]
  /\ condwaits \in [Mutex -> Nat]
  /\ pc \in [Thread -> Steps]
  /\ my \in [Waiter -> Mutex \cup {None}]
  /\ rv \in [Waiter -> Results]
  /\ all \in [Signaller -> BOOLEAN]
  /\ entitled \subseteq Waiter /\ mixed \in BOOLEAN

\* Threads that took a wakeup and have not yet counted it off.
Taken(t) == pc[t] \in {"out", "leave"} /\ rv[t] = "signaled"

\* Every wakeup sent and not yet counted off is in the semaphore or in the
\* hands of one thread: none is lost to a timeout or a cancellation, and none
\* is invented.
WakeupsAccounted ==
  ~mixed => pending = sem_wait + Cardinality({t \in Waiter : Taken(t)})

\* POSIX: a wakeup goes to a thread that was blocked when it was sent, never to
\* one that came later; mtx_in sees to it.
NoStolenWakeup == ~mixed => \A t \in Waiter : Taken(t) => t \in entitled

\* pthread_mutex::_destroy asks condwaits whether threads wait with a mutex;
\* it is exact from their unlock to their relock.
CondwaitsExact ==
  \A m \in Mutex :
    condwaits[m] = Cardinality({t \in Waiter :
      my[t] = m /\ pc[t] \in {"sleep", "out", "try", "leave", "relock"}})

\* Every round of wakeups ends, and its last thread lets newcomers in: nobody
\* blocks in wait before it has even begun to wait.
NewcomersEnter == \A t \in Waiter : pc[t] = "in" ~> pc[t] # "in" \/ mixed

\* A thread that sleeps when a broadcast is sent is woken.
BroadcastWakes ==
  \A t \in Waiter, s \in Signaller :
    pc[s] = "send" /\ all[s] /\ pc[t] = "sleep" ~> pc[t] # "sleep" \/ mixed

=============================================================================
