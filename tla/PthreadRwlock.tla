---------------------------- MODULE PthreadRwlock ----------------------------
(***************************************************************************)
(* The pthread_rwlock of winsup/cygwin/thread.cc: readers, a writer, the   *)
(* threads that wait for either, cancellation of those threads, destroy    *)
(* and fork.                                                               *)
(*                                                                         *)
(* Every operation runs with the internal mutex mtx locked, so that what   *)
(* it does up to its return or its wait on a condition variable is one     *)
(* step.  What can happen between a wakeup and the moment the woken thread *)
(* has mtx again is what makes the lock hard.  PthreadCond shows that a    *)
(* signal wakes a thread that waited when it was sent, that a broadcast    *)
(* wakes them all, and that a cancelled thread swallows no signal.         *)
(*                                                                         *)
(* destroy alone takes no mutex: it looks at the fields of the object and  *)
(* then deletes it, and the other threads may do anything in between.      *)
(***************************************************************************)
EXTENDS Integers, FiniteSets

CONSTANTS
  Thread,     \* the threads that use the lock
  Reckless,   \* those that call rdlock while they hold the write lock
  MaxCalls,   \* bound on the calls of rdlock and wrlock by one thread
  None        \* writer == NULL

ASSUME ThreadAssumption ==
  /\ IsFiniteSet(Thread)
  /\ Reckless \subseteq Thread
  /\ None \notin Thread

ASSUME MaxCallsAssumption == MaxCalls \in Nat

VARIABLES
  writer,           \* the thread that holds the lock for writing
  readers,          \* the threads on the list of readers
  waiting_readers,
  waiting_writers,
  rwlock,           \* "object", or "null" once destroyed
  pc,               \* where each thread is
  calls,            \* calls each thread has made
  ret,              \* what the last call of each thread returned
  late              \* history: another call ran while one was in destroy

lock == <<writer, readers, waiting_readers, waiting_writers, rwlock, pc, calls, ret>>
vars == <<lock, late>>
waits == <<waiting_readers, waiting_writers>>

\* Asleep in a wait, woken but without mtx, or cancelled and without mtx.
ReaderSteps == {"rsleep", "rwoken", "rcanceled"}
WriterSteps == {"wsleep", "wwoken", "wcanceled"}
\* In destroy: the holders are looked at, and the waiters.
DestroySteps == {"checking", "deleting"}
Steps == {"idle", "dead"} \cup ReaderSteps \cup WriterSteps \cup DestroySteps
Codes == {"OK", "EDEADLK", "EBUSY", "EPERM", "EAGAIN", "CANCELED"}

Goto(t, step) == pc' = [pc EXCEPT ![t] = step]
Answer(t, code) == ret' = [ret EXCEPT ![t] = code]

At(step) == {t \in Thread : pc[t] = step}

Init ==
  /\ writer = None
  /\ readers = {}
  /\ waiting_readers = 0
  /\ waiting_writers = 0
  /\ rwlock = "object"
  /\ pc = [t \in Thread |-> "idle"]
  /\ calls = [t \in Thread |-> 0]
  /\ ret = [t \in Thread |-> "OK"]
  /\ late = FALSE

-----------------------------------------------------------------------------
(* release (), with the lock's state after the caller's own change.  It is   *)
(* the part of pc' that concerns the other threads.                          *)

\* A waiting writer first (once there are no readers), else all the readers.
Release(t, step, rds, wr, ww) ==
  \/ /\ ww > 0 /\ rds = {} /\ At("wsleep") \ {t} # {}
     /\ \E u \in At("wsleep") \ {t} : pc' = [pc EXCEPT ![t] = step, ![u] = "wwoken"]
  \/ /\ ww > 0 /\ (rds # {} \/ At("wsleep") \ {t} = {})
     /\ Goto(t, step)
  \/ /\ ww = 0 /\ wr > 0
     /\ pc' = [u \in Thread |-> IF u = t THEN step
                                ELSE IF pc[u] = "rsleep" THEN "rwoken" ELSE pc[u]]
  \/ /\ ww = 0 /\ wr = 0
     /\ Goto(t, step)

-----------------------------------------------------------------------------
(* rdlock, tryrdlock *)

\* while (writer || waiting_writers) wait, with wr and ww the counts so far
ReadOrSleep(t, wr, ww) ==
  \/ /\ writer # None \/ ww > 0
     /\ waiting_readers' = wr + 1
     /\ Goto(t, "rsleep")
     /\ UNCHANGED <<readers, ret>>
  \/ /\ writer = None /\ ww = 0
     /\ waiting_readers' = wr
     /\ readers' = readers \cup {t}
     /\ Answer(t, "OK")
     /\ Goto(t, "idle")

Call(t) ==
  /\ rwlock = "object"
  /\ pc[t] = "idle"
  /\ calls[t] < MaxCalls
  /\ calls' = [calls EXCEPT ![t] = @ + 1]

Rdlock(t) ==
  /\ Call(t)
  /\ writer = t => t \in Reckless
  /\ \/ /\ t \in readers
        /\ Answer(t, "EDEADLK")
        /\ UNCHANGED <<readers, waiting_readers, pc>>
     \/ /\ t \notin readers     \* new fails
        /\ Answer(t, "EAGAIN")
        /\ UNCHANGED <<readers, waiting_readers, pc>>
     \/ /\ t \notin readers
        /\ ReadOrSleep(t, waiting_readers, waiting_writers)
  /\ UNCHANGED <<writer, waiting_writers, rwlock>>

\* Mutant: a woken reader does not look again.
RdWokenBlind(t) ==
  /\ pc[t] = "rwoken"
  /\ waiting_readers' = waiting_readers - 1
  /\ readers' = readers \cup {t}
  /\ Answer(t, "OK")
  /\ Goto(t, "idle")
  /\ UNCHANGED <<writer, waiting_writers, rwlock, calls>>

\* --waiting_readers, and around the loop
RdWoken(t) ==
  /\ pc[t] = "rwoken"
  /\ ReadOrSleep(t, waiting_readers - 1, waiting_writers)
  /\ UNCHANGED <<writer, waiting_writers, rwlock, calls>>

Tryrdlock(t) ==
  /\ Call(t)
  /\ \/ /\ writer # None \/ waiting_writers > 0 \/ t \in readers
        /\ Answer(t, "EBUSY")
        /\ UNCHANGED readers
     \/ /\ writer = None /\ waiting_writers = 0 /\ t \notin readers
        /\ \/ readers' = readers \cup {t} /\ Answer(t, "OK")
           \/ UNCHANGED readers /\ Answer(t, "EAGAIN")
  /\ UNCHANGED <<writer, waits, rwlock, pc>>

-----------------------------------------------------------------------------
(* wrlock, trywrlock *)

\* while (writer || readers) wait
WriteOrSleep(t, ww) ==
  \/ /\ writer # None \/ readers # {}
     /\ waiting_writers' = ww + 1
     /\ Goto(t, "wsleep")
     /\ UNCHANGED <<writer, ret>>
  \/ /\ writer = None /\ readers = {}
     /\ waiting_writers' = ww
     /\ writer' = t
     /\ Answer(t, "OK")
     /\ Goto(t, "idle")

Wrlock(t) ==
  /\ Call(t)
  /\ \/ /\ writer = t \/ t \in readers
        /\ Answer(t, "EDEADLK")
        /\ UNCHANGED <<writer, waiting_writers, pc>>
     \/ /\ writer # t /\ t \notin readers
        /\ WriteOrSleep(t, waiting_writers)
  /\ UNCHANGED <<readers, waiting_readers, rwlock>>

\* --waiting_writers, and around the loop
WrWoken(t) ==
  /\ pc[t] = "wwoken"
  /\ WriteOrSleep(t, waiting_writers - 1)
  /\ UNCHANGED <<readers, waiting_readers, rwlock, calls>>

Trywrlock(t) ==
  /\ Call(t)
  /\ \/ /\ writer # None \/ readers # {}
        /\ Answer(t, "EBUSY")
        /\ UNCHANGED writer
     \/ /\ writer = None /\ readers = {}
        /\ writer' = t
        /\ Answer(t, "OK")
  /\ UNCHANGED <<readers, waits, rwlock, pc>>

-----------------------------------------------------------------------------
(* unlock *)

Unlock(t) ==
  /\ rwlock = "object"
  /\ pc[t] = "idle"
  /\ \/ /\ writer = t
        /\ writer' = None
        /\ Release(t, "idle", readers, waiting_readers, waiting_writers)
        /\ Answer(t, "OK")
        /\ UNCHANGED readers
     \/ /\ writer = None /\ t \in readers
        /\ readers' = readers \ {t}
        /\ Release(t, "idle", readers \ {t}, waiting_readers, waiting_writers)
        /\ Answer(t, "OK")
        /\ UNCHANGED writer
     \/ /\ writer # t /\ (writer # None \/ t \notin readers)
        /\ Answer(t, "EPERM")
        /\ UNCHANGED <<writer, readers, pc>>
  /\ UNCHANGED <<waits, rwlock, calls>>

-----------------------------------------------------------------------------
(* Cancellation of a waiting thread: it leaves the condition variable, and   *)
(* its cleanup handler runs once it has mtx.                                 *)

Cancel(t) ==
  /\ \/ pc[t] = "rsleep" /\ Goto(t, "rcanceled")
     \/ pc[t] = "wsleep" /\ Goto(t, "wcanceled")
  /\ UNCHANGED <<writer, readers, waits, rwlock, calls, ret>>

RdlockCleanup(t) ==
  /\ pc[t] = "rcanceled"
  /\ waiting_readers' = waiting_readers - 1
  /\ Release(t, "idle", readers, waiting_readers - 1, waiting_writers)
  /\ Answer(t, "CANCELED")
  /\ UNCHANGED <<writer, readers, waiting_writers, rwlock, calls>>

WrlockCleanup(t) ==
  /\ pc[t] = "wcanceled"
  /\ waiting_writers' = waiting_writers - 1
  /\ Release(t, "idle", readers, waiting_readers, waiting_writers - 1)
  /\ Answer(t, "CANCELED")
  /\ UNCHANGED <<writer, readers, waiting_readers, rwlock, calls>>

-----------------------------------------------------------------------------
(* pthread_rwlock_destroy and fork *)

\* writer and readers are looked at ...
Destroy(t) ==
  /\ rwlock = "object" /\ pc[t] = "idle"
  /\ \/ /\ writer = None /\ readers = {}
        /\ Goto(t, "checking")
        /\ UNCHANGED ret
     \/ /\ writer # None \/ readers # {}
        /\ Answer(t, "EBUSY")
        /\ UNCHANGED pc
  /\ late' = (At("checking") \cup At("deleting") # {})
  /\ UNCHANGED <<writer, readers, waits, rwlock, calls>>

\* Mutant: a thread that was woken is taken for one that has left.
DestroyWaitsSleepers(t) ==
  /\ rwlock = "object" /\ pc[t] = "checking"
  /\ \/ /\ At("rsleep") = {} /\ At("wsleep") = {}
        /\ Goto(t, "deleting")
        /\ UNCHANGED ret
     \/ /\ At("rsleep") # {} \/ At("wsleep") # {}
        /\ Answer(t, "EBUSY")
        /\ Goto(t, "idle")
  /\ UNCHANGED <<writer, readers, waits, rwlock, calls, late>>

\* ... then the counts of those who wait ...
DestroyWaits(t) ==
  /\ rwlock = "object" /\ pc[t] = "checking"
  /\ \/ /\ waiting_readers = 0 /\ waiting_writers = 0
        /\ Goto(t, "deleting")
        /\ UNCHANGED ret
     \/ /\ waiting_readers > 0 \/ waiting_writers > 0
        /\ Answer(t, "EBUSY")
        /\ Goto(t, "idle")
  /\ UNCHANGED <<writer, readers, waits, rwlock, calls, late>>

\* ... and the object is deleted, whatever has happened meanwhile.
Delete(t) ==
  /\ rwlock = "object" /\ pc[t] = "deleting"
  /\ rwlock' = "null"
  /\ Answer(t, "OK")
  /\ Goto(t, "idle")
  /\ UNCHANGED <<writer, readers, waits, calls, late>>

\* Mutant: the readers of the parent stay on the child's list.
ForkReadersKept(t) ==
  /\ rwlock = "object" /\ pc[t] = "idle"
  /\ At("dead") = {}
  /\ waiting_readers' = 0
  /\ waiting_writers' = 0
  /\ pc' = [u \in Thread |-> IF u = t THEN "idle" ELSE "dead"]
  /\ UNCHANGED <<writer, readers, rwlock, calls, ret, late>>

\* fork by t: _fixup_after_fork forgets the waiters and removes the readers
\* that do not exist in the child; it leaves writer alone.
Fork(t) ==
  /\ rwlock = "object" /\ pc[t] = "idle"
  /\ At("dead") = {}
  /\ waiting_readers' = 0
  /\ waiting_writers' = 0
  /\ readers' = readers \cap {t}
  /\ pc' = [u \in Thread |-> IF u = t THEN "idle" ELSE "dead"]
  /\ UNCHANGED <<writer, rwlock, calls, ret, late>>

-----------------------------------------------------------------------------
(* The specification *)

WaitStep(t) == RdWoken(t) \/ WrWoken(t) \/ RdlockCleanup(t) \/ WrlockCleanup(t)

CallStep(t) == Rdlock(t) \/ Tryrdlock(t) \/ Wrlock(t) \/ Trywrlock(t) \/ Unlock(t)

\* What a thread does that is left in a deleted object is undefined, and is not
\* followed.
UseStep(t) ==
  /\ rwlock = "object"
  /\ CallStep(t) \/ WaitStep(t) \/ Cancel(t)
  /\ late' = (late \/ At("checking") \cup At("deleting") # {})

DestroyStep(t) == Destroy(t) \/ DestroyWaits(t) \/ Delete(t)

Next == \E t \in Thread : UseStep(t) \/ DestroyStep(t) \/ Fork(t)

Spec == Init /\ [][Next]_vars

-----------------------------------------------------------------------------
TypeOK ==
  /\ writer \in Thread \cup {None}
  /\ readers \in SUBSET Thread
  /\ waiting_readers \in Nat
  /\ waiting_writers \in Nat
  /\ rwlock \in {"object", "null"}
  /\ pc \in [Thread -> Steps]
  /\ calls \in [Thread -> Nat]
  /\ ret \in [Thread -> Codes]
  /\ late \in BOOLEAN

\* A writer excludes the readers (there is one writer by construction of the
\* field): not even a thread woken before somebody else took the lock gets in.
WriterExcludesReaders == writer # None => readers = {}

\* The counts that release and destroy decide by are exact, whether a wait
\* ends by a wakeup or by cancellation.
CountsExact ==
  /\ waiting_readers = Cardinality({t \in Thread : pc[t] \in ReaderSteps})
  /\ waiting_writers = Cardinality({t \in Thread : pc[t] \in WriterSteps})

\* Nobody sleeps on a free lock: a sleeping writer has a holder before it, or a
\* woken or cancelled writer that will act; a sleeping reader has a writer
\* before it.  Readers that a fork has left behind do not count: the fixup is to
\* "Remove all readers except self".
NoLostWakeup ==
  /\ At("wsleep") # {} =>
       writer # None \/ readers \ At("dead") # {} \/ At("wwoken") # {} \/ At("wcanceled") # {}
  /\ At("rsleep") # {} => writer # None \/ waiting_writers > 0

\* destroy deletes no lock that is held or waited for, the waits that are about
\* to end included, as long as no other thread uses the lock while destroy is at
\* it.  One that does is not kept out: see DestroyedUnusedAlways.
DestroyedUnused ==
  rwlock = "null" /\ ~late =>
    writer = None /\ readers = {} /\ \A t \in Thread : pc[t] \in {"idle", "dead"}

\* The same without the condition.  It does not hold: destroy takes no mutex, so
\* a thread that takes the lock after the check has its lock deleted, and so has
\* a woken waiter that comes between the two halves of the check.
DestroyedUnusedAlways ==
  rwlock = "null" =>
    writer = None /\ readers = {} /\ \A t \in Thread : pc[t] \in {"idle", "dead"}

=============================================================================
