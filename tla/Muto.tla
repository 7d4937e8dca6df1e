-------------------------------- MODULE Muto --------------------------------
(***************************************************************************)
(* The muto of winsup/cygwin/sync.cc: a recursive lock that stays out of   *)
(* the kernel while nobody contends for it.  Its fields are a flag         *)
(* (sync), a count of owner plus waiters less one (waiters), the owner's   *)
(* thread id (tid), the owner's nesting depth (visits) and an auto-reset   *)
(* event (bruteforce) on which contenders block.                           *)
(*                                                                         *)
(* Each Interlocked call, each wait and each plain store that another      *)
(* thread can observe is a step of its own.  The comparison tid != me is   *)
(* folded into the step that follows it: only me ever stores me in tid.    *)
(***************************************************************************)
EXTENDS Integers, FiniteSets

CONSTANTS
  Thread,         \* the threads that use this muto
  TimedThread,    \* those that pass a finite number of milliseconds
  MaxVisits,      \* bound on the nesting depth of one thread
  NoThread        \* the value of tid when the muto has no owner (0)

ASSUME ThreadAssumption ==
  /\ IsFiniteSet(Thread)
  /\ TimedThread \subseteq Thread
  /\ NoThread \notin Thread

ASSUME MaxVisitsAssumption == MaxVisits \in Nat \ {0}

VARIABLES
  sync,        \* LONG sync
  visits,      \* LONG visits
  waiters,     \* LONG waiters, -1 when the muto is idle
  tid,         \* DWORD tid
  bruteforce,  \* the event: 1 when signalled
  pc,          \* where each thread is in acquire or release
  was_waiting, \* the local variable of acquire
  held,        \* acquires each thread has made and not yet undone
  ret          \* what the last call of each thread returned

mutoVars == <<sync, visits, waiters, tid, bruteforce, pc, was_waiting, held, ret>>
lockVars == <<sync, visits, waiters, tid, bruteforce>>

AcquireSteps == {"try", "wait", "timedout", "gotit", "visit"}
ReleaseSteps == {"untid", "unsync", "unwait", "setevent"}
Steps == {"idle"} \cup AcquireSteps \cup ReleaseSteps

Less(n) == IF n = 0 THEN 0 ELSE n - 1

Goto(t, step) == pc' = [pc EXCEPT ![t] = step]

MutoInit ==
  /\ sync = 0
  /\ visits = 0
  /\ waiters = -1
  /\ tid = NoThread
  /\ bruteforce = 0
  /\ pc = [t \in Thread |-> "idle"]
  /\ was_waiting = [t \in Thread |-> 0]
  /\ held = [t \in Thread |-> 0]
  /\ ret = [t \in Thread |-> 0]

-----------------------------------------------------------------------------
(* muto::acquire *)

\* The owner comes back: no contention, only one more visit.
Reenter(t) ==
  /\ pc[t] = "idle"
  /\ tid = t
  /\ held[t] < MaxVisits
  /\ visits' = visits + 1
  /\ held' = [held EXCEPT ![t] = @ + 1]
  /\ ret' = [ret EXCEPT ![t] = visits + 1]
  /\ UNCHANGED <<sync, waiters, tid, bruteforce, pc, was_waiting>>

\* InterlockedIncrement (&waiters)
Enter(t) ==
  /\ pc[t] = "idle"
  /\ tid # t
  /\ held[t] < MaxVisits
  /\ waiters' = waiters + 1
  /\ was_waiting' = [was_waiting EXCEPT ![t] = waiters + 1]
  /\ Goto(t, "try")
  /\ UNCHANGED <<sync, visits, tid, bruteforce, held, ret>>

\* was_waiting || InterlockedExchange (&sync, 1) != 0
Try(t) ==
  /\ pc[t] = "try"
  /\ IF was_waiting[t] # 0
       THEN Goto(t, "wait") /\ UNCHANGED sync
       ELSE /\ sync' = 1
            /\ Goto(t, IF sync # 0 THEN "wait" ELSE "gotit")
  /\ UNCHANGED <<visits, waiters, tid, bruteforce, was_waiting, held, ret>>

\* Mutant: the event is created with manual reset.
WakeUpNoReset(t) ==
  /\ pc[t] = "wait"
  /\ bruteforce = 1
  /\ Goto(t, "gotit")
  /\ UNCHANGED <<lockVars, was_waiting, held, ret>>

\* WaitForSingleObject (bruteforce, ms) == WAIT_OBJECT_0
WakeUp(t) ==
  /\ pc[t] = "wait"
  /\ bruteforce = 1
  /\ bruteforce' = 0
  /\ Goto(t, "gotit")
  /\ UNCHANGED <<sync, visits, waiters, tid, was_waiting, held, ret>>

\* ... or it gave up after ms milliseconds ...
Timeout(t) ==
  /\ pc[t] = "wait"
  /\ t \in TimedThread
  /\ Goto(t, "timedout")
  /\ UNCHANGED <<lockVars, was_waiting, held, ret>>

\* ... and acquire takes its increment back and fails.
GiveUp(t) ==
  /\ pc[t] = "timedout"
  /\ waiters' = waiters - 1
  /\ ret' = [ret EXCEPT ![t] = 0]
  /\ Goto(t, "idle")
  /\ UNCHANGED <<sync, visits, tid, bruteforce, was_waiting, held>>

\* gotit: tid = this_tid
GotIt(t) ==
  /\ pc[t] = "gotit"
  /\ tid' = t
  /\ Goto(t, "visit")
  /\ UNCHANGED <<sync, visits, waiters, bruteforce, was_waiting, held, ret>>

\* return ++visits
Visit(t) ==
  /\ pc[t] = "visit"
  /\ visits' = visits + 1
  /\ held' = [held EXCEPT ![t] = @ + 1]
  /\ ret' = [ret EXCEPT ![t] = visits + 1]
  /\ Goto(t, "idle")
  /\ UNCHANGED <<sync, waiters, tid, bruteforce, was_waiting>>

-----------------------------------------------------------------------------
(* muto::release *)

\* Not the owner: ERROR_NOT_OWNER.  get_proc_lock reports success after a
\* failed acquire, so callers do reach this.
ReleaseRefused(t) ==
  /\ pc[t] = "idle"
  /\ tid # t \/ visits = 0
  /\ ret' = [ret EXCEPT ![t] = 0]
  /\ held' = [held EXCEPT ![t] = Less(@)]
  /\ UNCHANGED <<lockVars, pc, was_waiting>>

\* --visits, with more visits or the unlocking steps to follow
Release(t) ==
  /\ pc[t] = "idle"
  /\ tid = t
  /\ visits # 0
  /\ visits' = visits - 1
  /\ held' = [held EXCEPT ![t] = Less(@)]
  /\ ret' = [ret EXCEPT ![t] = 1]
  /\ Goto(t, IF visits = 1 THEN "untid" ELSE "idle")
  /\ UNCHANGED <<sync, waiters, tid, bruteforce, was_waiting>>

\* tid = 0
UnTid(t) ==
  /\ pc[t] = "untid"
  /\ tid' = NoThread
  /\ Goto(t, "unsync")
  /\ UNCHANGED <<sync, visits, waiters, bruteforce, was_waiting, held, ret>>

\* InterlockedExchange (&sync, 0)
UnSync(t) ==
  /\ pc[t] = "unsync"
  /\ sync' = 0
  /\ Goto(t, "unwait")
  /\ UNCHANGED <<visits, waiters, tid, bruteforce, was_waiting, held, ret>>

\* Mutant: > 0 for >= 0.
UnWaitOffByOne(t) ==
  /\ pc[t] = "unwait"
  /\ waiters' = waiters - 1
  /\ Goto(t, IF waiters - 1 > 0 THEN "setevent" ELSE "idle")
  /\ UNCHANGED <<sync, visits, tid, bruteforce, was_waiting, held, ret>>

\* InterlockedDecrement (&waiters) >= 0
UnWait(t) ==
  /\ pc[t] = "unwait"
  /\ waiters' = waiters - 1
  /\ Goto(t, IF waiters - 1 >= 0 THEN "setevent" ELSE "idle")
  /\ UNCHANGED <<sync, visits, tid, bruteforce, was_waiting, held, ret>>

\* Mutant: PulseEvent, which wakes only a thread that already blocks.
PulseBruteforce(t) ==
  /\ pc[t] = "setevent"
  /\ bruteforce' = IF \E u \in Thread : pc[u] = "wait" THEN 1 ELSE 0
  /\ Goto(t, "idle")
  /\ UNCHANGED <<sync, visits, waiters, tid, was_waiting, held, ret>>

\* SetEvent (bruteforce)
SetBruteforce(t) ==
  /\ pc[t] = "setevent"
  /\ bruteforce' = 1
  /\ Goto(t, "idle")
  /\ UNCHANGED <<sync, visits, waiters, tid, was_waiting, held, ret>>

-----------------------------------------------------------------------------
(* The specification *)

AcquireStep(t) ==
  Reenter(t) \/ Enter(t) \/ Try(t) \/ WakeUp(t) \/ GotIt(t) \/ Visit(t)

ReleaseStep(t) ==
  \/ ReleaseRefused(t) \/ Release(t) \/ UnTid(t) \/ UnSync(t) \/ UnWait(t)
  \/ SetBruteforce(t)

TimeoutStep(t) == Timeout(t) \/ GiveUp(t)

\* Nobody passes a timeout but INFINITE, as almost all callers of acquire do.
MutoNext == \E t \in Thread : AcquireStep(t) \/ ReleaseStep(t)

MutoSpec == MutoInit /\ [][MutoNext]_mutoVars

\* The threads of TimedThread do, as those in get_proc_lock do.
TimedNext == MutoNext \/ \E t \in Thread : TimeoutStep(t)

TimedSpec == MutoInit /\ [][TimedNext]_mutoVars

\* Threads run, the owner gives back every acquire in the end, and the kernel
\* does not pass a thread blocked on the event over forever (waits are
\* queued in order).
Fairness ==
  \A t \in Thread :
    /\ WF_mutoVars(Try(t) \/ GotIt(t) \/ Visit(t))
    /\ WF_mutoVars(Release(t) \/ UnTid(t) \/ UnSync(t) \/ UnWait(t) \/ SetBruteforce(t))
    /\ SF_mutoVars(Release(t) /\ visits = 1)
    /\ SF_mutoVars(WakeUp(t))

MutoFairSpec == MutoSpec /\ Fairness

-----------------------------------------------------------------------------
MutoTypeOK ==
  /\ sync \in {0, 1}
  /\ visits \in Nat
  /\ waiters \in Int
  /\ tid \in Thread \cup {NoThread}
  /\ bruteforce \in {0, 1}
  /\ pc \in [Thread -> Steps]
  /\ was_waiting \in [Thread -> Int]
  /\ held \in [Thread -> Nat]
  /\ ret \in [Thread -> Int]

\* A thread owns the muto from the moment the contest is decided in its
\* favour (gotit) until its increment of waiters is taken back (unwait).
Owns(t) ==
  \/ held[t] > 0
  \/ pc[t] \in {"gotit", "visit", "untid", "unsync", "unwait"}

\* sync.cc, muto::acquire: "If it succeeds, then this thread owns the muto":
\* two threads never own a muto together.
MutualExclusion == \A s, t \in Thread : Owns(s) /\ Owns(t) => s = t

\* While a thread owns the muto and is not entering or leaving it, tid names
\* the thread and visits counts its acquires, so that none of its releases
\* is refused with ERROR_NOT_OWNER and none unlocks too early.
OwnerRecorded ==
  \A t \in Thread :
    held[t] > 0 /\ pc[t] = "idle" => tid = t /\ visits = held[t]

\* The threads whose increment of waiters has not been taken back.
Counted(t) == Owns(t) \/ pc[t] \in {"try", "wait", "timedout"}

\* waiters is the number of threads between their increment and their
\* decrement, less one: neither a timeout nor a release loses one.
WaitersExact == waiters = Cardinality({t \in Thread : Counted(t)}) - 1

\* No lost wakeup: whenever a thread is blocked on bruteforce, the event is
\* signalled, or some thread owns the muto or is about to, or is about to
\* signal the event.
NoLostWakeup ==
  (\E t \in Thread : pc[t] = "wait") =>
    \/ bruteforce = 1
    \/ \E t \in Thread :
         \/ Owns(t)
         \/ pc[t] = "setevent"
         \/ pc[t] = "try" /\ was_waiting[t] = 0

\* Every thread that calls acquire comes to own the muto.
AcquireSucceeds ==
  \A t \in Thread : pc[t] = "try" ~> held[t] > 0

\* What a muto promises: a recursive lock.
AbstractLock == INSTANCE RecursiveLock WITH depth <- held
ImplementsLock == AbstractLock!Spec

=============================================================================
