------------------------------ MODULE Pthread ------------------------------
(***************************************************************************)
(* The life of threads: pthread::create, exit, join, detach and cancel of  *)
(* thread.cc, with cancellation states and cleanup handlers.               *)
(*                                                                         *)
(* A thread has an object (pthread), which is deleted by the thread itself *)
(* when it is detached, by the thread that joins it, or by the one that    *)
(* detaches it too late.  The object's mutex, of type normal, is its       *)
(* counter and semaphore: a thread that is cancelled asynchronously is     *)
(* torn out of the wait for it, or wakes up from it in pthread::exit.      *)
(*                                                                         *)
(* The program keeps to POSIX: an id is not used once a join or a detach   *)
(* that may end its life is under way, not even by pthread_cancel, which   *)
(* could come too late, and a thread whose cancellation is asynchronous    *)
(* calls only what is async-cancel-safe or ends.                           *)
(***************************************************************************)
EXTENDS Integers, FiniteSets

CONSTANTS
  Thread,      \* the main thread and those that are created
  Main,
  Calls,       \* the calls each thread makes
  Reckless,    \* what the program does beyond the careful use of ids
  MaxPush,     \* bound on the cleanup handlers a thread pushes
  MaxCancel,   \* bound on the number of calls of pthread_cancel
  None

ASSUME ThreadAssumption == IsFiniteSet(Thread) /\ Main \in Thread /\ None \notin Thread

\* None is no thread, no call and no value.
ASSUME NoneAssumption ==
  None \notin {"begin", "exit", "pop", "drop", "enable", "disable", "deferred", "async",
               "join", "detach", "cancel", "value", "canceled"}

ASSUME CallsAssumption ==
  Calls \in [Thread -> SUBSET {"create", "exit", "set", "cancel", "push", "join", "detach", "fork"}]

\* "join": join threads that may not have begun; "cancel": call pthread_cancel
\* with asynchronous cancellation; "main": use the id of the main thread;
\* "fork": fork while other threads use the caller's id
ASSUME RecklessAssumption == Reckless \subseteq {"join", "cancel", "main", "fork"}

ASSUME BoundAssumption == MaxPush \in Nat /\ MaxCancel \in Nat

VARIABLES
  th,            \* the objects
  at,            \* where each thread is: pc, the call fn and the object it is on,
                 \* what follows the unlock, the value it exits with, and its
                 \* suspend count
  torn,          \* the object for whose semaphore a cancelled thread still waits
  eaten,         \* the objects whose mutex such a thread got, and never released
  threadcount,   \* MT_INTERFACE->threadcount
  over,          \* the last thread has called exit (0)
  known,         \* ids the program may use
  cancels,       \* how often pthread_cancel was called
  pushed, ran    \* cleanup handlers pushed and not popped unexecuted, and run

vars == <<th, at, torn, eaten, threadcount, over, known, cancels, pushed, ran>>
hist == <<known, cancels, pushed, ran>>
process == <<torn, eaten, threadcount, over>>

-----------------------------------------------------------------------------
(* Objects and calls *)

\* pthread::pthread and precreate; running is set by postcreate, so never for
\* the main thread.
Object(joinable, running) ==
  [object |-> "valid", joinable |-> joinable, joiner |-> None, running |-> running,
   cancelstate |-> "enable", canceltype |-> "deferred", cancel_event |-> FALSE,
   return_ptr |-> None, cleanup_stack |-> 0, lock_counter |-> 0, semaphore |-> 0]

\* What is left of an object, for those who would still use it
Deleted == [Object(TRUE, FALSE) EXCEPT !.object = "deleted"]

Nowhere == [pc |-> "none", fn |-> None, on |-> None, then |-> "run", val |-> None,
            suspends |-> 0]

Init ==
  /\ th = [t \in Thread |-> IF t = Main THEN Object(TRUE, FALSE)
                            ELSE [Object(TRUE, FALSE) EXCEPT !.object = "none"]]
  /\ at = [t \in Thread |-> IF t = Main THEN [Nowhere EXCEPT !.pc = "run"] ELSE Nowhere]
  /\ torn = [t \in Thread |-> None] /\ eaten = {}
  /\ threadcount = 1 /\ over = FALSE
  /\ known = {t \in {Main} : "main" \in Reckless}
  /\ cancels = 0 /\ pushed = [t \in Thread |-> 0] /\ ran = [t \in Thread |-> 0]

Goto(t, step) == at' = [at EXCEPT ![t].pc = step]

\* A call fn on the object o, after which the thread is where it was: in the
\* program or in pthread::exit.
Call(t, f, o) ==
  at' = [at EXCEPT ![t] = [@ EXCEPT !.pc = "lock", !.fn = f, !.on = o,
                                    !.then = IF at[t].val = None THEN "run" ELSE "exit"]]

\* t is out of the call, and where it was or at the next step.
Returned(t, step) ==
  IF step \in {"run", "exit", "count", "self"}
    THEN [at EXCEPT ![t] = [Nowhere EXCEPT !.pc = step, !.val = at[t].val]]
    ELSE [at EXCEPT ![t].pc = step]

In(t, f) == at[t].pc = "in" /\ at[t].fn = f

\* The body of a call is done; the unlock and what follows it are to come.
Leave(t, then) == at' = [at EXCEPT ![t] = [@ EXCEPT !.pc = "unlock", !.then = then]]

\* cancel_self, or exit (val)
Exiting(t, val) == [at EXCEPT ![t] = [Nowhere EXCEPT !.pc = "exit", !.val = val]]

Async(t) == th[t].canceltype = "async" /\ th[t].cancelstate = "enable"
CancelPending(t) == th[t].cancelstate = "enable" /\ th[t].cancel_event

\* The calls that have the id of t in hand.
Users(t) ==
  {u \in Thread : at[u].on = t /\ at[u].fn \in {"join", "detach", "cancel"}}

-----------------------------------------------------------------------------
(* The object's mutex *)

\* pthread_mutex::_lock: the increment ...
Lock(t) ==
  LET o == at[t].on IN
  /\ at[t].pc = "lock"
  /\ th' = [th EXCEPT ![o].lock_counter = @ + 1]
  /\ Goto(t, IF th[o].lock_counter = 0 THEN "in" ELSE "wait")
  /\ UNCHANGED <<process, hist>>

\* ... and the wait for the semaphore
Wait(t) ==
  LET o == at[t].on IN
  /\ at[t].pc = "wait"
  /\ th[o].semaphore > 0
  /\ th' = [th EXCEPT ![o].semaphore = @ - 1]
  /\ Goto(t, "in")
  /\ UNCHANGED <<process, hist>>

\* Mutant: one waiter is taken for none.
UnlockOffByOne(t) ==
  LET o == at[t].on IN
  /\ at[t].pc = "unlock"
  /\ th' = [th EXCEPT ![o].lock_counter = @ - 1]
  /\ at' = IF th[o].lock_counter <= 2 THEN Returned(t, at[t].then) ELSE [at EXCEPT ![t].pc = "post"]
  /\ UNCHANGED <<process, hist>>

\* pthread_mutex::_unlock
Unlock(t) ==
  LET o == at[t].on IN
  /\ at[t].pc = "unlock"
  /\ th' = [th EXCEPT ![o].lock_counter = @ - 1]
  /\ at' = IF th[o].lock_counter = 1 THEN Returned(t, at[t].then) ELSE [at EXCEPT ![t].pc = "post"]
  /\ UNCHANGED <<process, hist>>

Post(t) ==
  /\ at[t].pc = "post"
  /\ th' = [th EXCEPT ![at[t].on].semaphore = @ + 1]
  /\ at' = Returned(t, at[t].then)
  /\ UNCHANGED <<process, hist>>

-----------------------------------------------------------------------------
(* The beginning and the end of a thread *)

\* pthread::create
Create(t, u, joinable) ==
  /\ at[t].pc = "run" /\ ~Async(t)
  /\ at[u].pc = "none" /\ th[u].object = "none"
  /\ th' = [th EXCEPT ![u] = Object(joinable, TRUE)]
  /\ threadcount' = threadcount + 1
  /\ Call(u, "begin", u)
  /\ known' = IF joinable THEN known \cup {u} ELSE known
  /\ UNCHANGED <<torn, eaten, over, cancels, pushed, ran>>

\* Mutant: a thread created detached does not know it.
BeginAttached(t) ==
  /\ In(t, "begin")
  /\ Leave(t, "run")
  /\ UNCHANGED <<th, process, hist>>

\* thread_init_wrapper
Begin(t) ==
  /\ In(t, "begin")
  /\ th' = [th EXCEPT ![t].joiner = IF ~th[t].joinable /\ @ = None THEN t ELSE @]
  /\ Leave(t, "run")
  /\ UNCHANGED <<process, hist>>

\* pthread_exit, or the return of the thread's function
Exit(t) ==
  /\ at[t].pc = "run"
  /\ at' = Exiting(t, "value")
  /\ UNCHANGED <<th, process, hist>>

\* pthread::testcancel
Testcancel(t) ==
  /\ at[t].pc = "run"
  /\ CancelPending(t)
  /\ at' = Exiting(t, "canceled")
  /\ UNCHANGED <<th, process, hist>>

\* Mutant: only a thread that returns runs its cleanup handlers.
ExitLockCanceled(t) ==
  /\ at[t].pc = "exit" /\ torn[t] = None
  /\ Call(t, IF th[t].cleanup_stack > 0 /\ at[t].val = "value" THEN "pop" ELSE "exit", t)
  /\ UNCHANGED <<th, process, hist>>

\* pthread::exit: pop_all_cleanup_handlers, then the lock
ExitLock(t) ==
  /\ at[t].pc = "exit" /\ torn[t] = None
  /\ Call(t, IF th[t].cleanup_stack > 0 THEN "pop" ELSE "exit", t)
  /\ UNCHANGED <<th, process, hist>>

\* A detached thread deletes its object, mutex and all ...
ExitDelete(t) ==
  /\ In(t, "exit")
  /\ th[t].joiner = t
  /\ th' = [th EXCEPT ![t] = Deleted]
  /\ at' = Returned(t, "count")
  /\ UNCHANGED <<process, hist>>

\* ... any other leaves it for the one who joins or detaches.
ExitKeep(t) ==
  /\ In(t, "exit")
  /\ th[t].joiner # t
  /\ th' = [th EXCEPT ![t].running = FALSE, ![t].return_ptr = at[t].val]
  /\ Leave(t, "count")
  /\ UNCHANGED <<process, hist>>

\* ExitThread, or exit (0) by the last thread
Count(t) ==
  /\ at[t].pc = "count"
  /\ threadcount' = threadcount - 1
  /\ over' = (threadcount = 1)
  /\ Goto(t, "ended")
  /\ UNCHANGED <<th, torn, eaten, hist>>

\* fork by t: fixup_after_fork in the child, where the other threads are gone.  The
\* mutex is as its owner says, which is set after the increment and reset before
\* the decrement.
Fork(t) ==
  /\ at[t].pc = "run"
  /\ Users(t) = {} \/ "fork" \in Reckless
  /\ \E held \in {0, 1} :
       /\ held = 1 => \E u \in Thread : at[u].on = t /\ at[u].pc \in {"in", "pop", "unlock"}
       /\ th' = [u \in Thread |->
                   IF u = t THEN [th[t] EXCEPT !.lock_counter = held, !.semaphore = 0,
                                               !.cancel_event = FALSE]
                   ELSE IF th[u].object = "valid" THEN Deleted ELSE th[u]]
  /\ at' = [u \in Thread |-> IF u = t THEN at[t] ELSE Nowhere]
  /\ torn' = [u \in Thread |-> None] /\ eaten' = {}
  /\ threadcount' = 1
  /\ known' = known \cap {t}
  /\ UNCHANGED <<over, cancels, pushed, ran>>

-----------------------------------------------------------------------------
(* Cancellation *)

\* pthread::setcancelstate and setcanceltype
CancelSettings == {"enable", "disable", "deferred", "async"}

Set(t, new) ==
  /\ at[t].pc = "run"
  /\ Call(t, new, t)
  /\ UNCHANGED <<th, process, hist>>

SetBody(t) ==
  /\ at[t].pc = "in" /\ at[t].fn \in CancelSettings
  /\ th' = IF at[t].fn \in {"enable", "disable"}
             THEN [th EXCEPT ![t].cancelstate = at[t].fn]
             ELSE [th EXCEPT ![t].canceltype = at[t].fn]
  /\ Leave(t, "run")
  /\ UNCHANGED <<process, hist>>

\* pthread_cancel
Cancel(t, u) ==
  /\ at[t].pc = "run"
  /\ Async(t) => "cancel" \in Reckless
  /\ u \in known
  /\ \A v \in Users(u) : at[v].fn = "cancel"
  /\ cancels < MaxCancel /\ cancels' = cancels + 1
  /\ Call(t, "cancel", u)
  /\ UNCHANGED <<th, process, known, pushed, ran>>

\* pthread::cancel: nothing for a thread that does not run, the event for one
\* that will look at it, exit for oneself ...
CancelBody(t) ==
  LET u == at[t].on IN
  /\ In(t, "cancel")
  /\ ~th[u].running \/ ~Async(u) \/ u = t
  /\ Leave(t, IF ~th[u].running THEN "run" ELSE IF ~Async(u) THEN "setevent" ELSE "self")
  /\ UNCHANGED <<th, process, hist>>

\* ... and a thread with asynchronous cancellation is suspended and sent to
\* static_cancel_self from wherever it is.  SetThreadContext does not end a wait:
\* a thread that has got as far as the kernel gets there when its wait is over.
CancelAsync(t) ==
  LET u == at[t].on IN
  /\ In(t, "cancel")
  /\ th[u].running /\ Async(u) /\ u # t
  /\ \/ UNCHANGED torn
     \/ at[u].pc = "wait" /\ torn' = [torn EXCEPT ![u] = at[u].on]
  /\ at' = [at EXCEPT ![u] = [Nowhere EXCEPT !.pc = "suspended", !.val = "canceled",
                                              !.suspends = at[u].suspends + 1],
                      ![t] = [@ EXCEPT !.pc = "unlock", !.then = "resume"]]
  /\ UNCHANGED <<th, eaten, threadcount, over, hist>>

\* The wait of a cancelled thread is over: the semaphore is counted down, nobody
\* owns the mutex, and the thread is in pthread::exit.
WaitEnds(t) ==
  /\ at[t].pc = "exit" /\ torn[t] # None
  /\ th[torn[t]].semaphore > 0
  /\ th' = [th EXCEPT ![torn[t]].semaphore = @ - 1]
  /\ torn' = [torn EXCEPT ![t] = None]
  /\ eaten' = eaten \cup {torn[t]}
  /\ UNCHANGED <<at, threadcount, over, hist>>

\* SetEvent (cancel_event), after the unlock
SetEvent(t) ==
  /\ at[t].pc = "setevent"
  /\ th' = [th EXCEPT ![at[t].on].cancel_event = TRUE]
  /\ at' = Returned(t, "run")
  /\ UNCHANGED <<process, hist>>

\* ResumeThread: the thread runs when it was resumed as often as suspended.
Resume(t) ==
  LET u == at[t].on IN
  /\ at[t].pc = "resume"
  /\ at' = [Returned(t, "run") EXCEPT ![u].suspends = @ - 1,
                                      ![u].pc = IF at[u].suspends = 1 THEN "exit" ELSE @]
  /\ UNCHANGED <<th, process, hist>>

CancelSelf(t) ==
  /\ at[t].pc = "self"
  /\ at' = Exiting(t, "canceled")
  /\ UNCHANGED <<th, process, hist>>

-----------------------------------------------------------------------------
(* Cleanup handlers *)

\* push_cleanup_handler
Push(t) ==
  /\ at[t].pc = "run" /\ ~Async(t)
  /\ pushed[t] < MaxPush
  /\ th' = [th EXCEPT ![t].cleanup_stack = @ + 1]
  /\ pushed' = [pushed EXCEPT ![t] = @ + 1]
  /\ UNCHANGED <<at, process, known, cancels, ran>>

\* pthread_cleanup_pop, with and without execution
Pop(t, f) ==
  /\ at[t].pc = "run" /\ ~Async(t)
  /\ th[t].cleanup_stack > 0
  /\ Call(t, f, t)
  /\ UNCHANGED <<th, process, hist>>

\* pop_cleanup_handler runs the handler with the mutex locked ...
RunHandler(t) ==
  /\ In(t, "pop")
  /\ ran' = [ran EXCEPT ![t] = @ + 1]
  /\ Goto(t, "pop")
  /\ UNCHANGED <<th, process, known, cancels, pushed>>

\* ... and takes it off the stack.
PopBody(t) ==
  /\ at[t].pc = "pop" \/ In(t, "drop")
  /\ th' = [th EXCEPT ![t].cleanup_stack = @ - 1]
  /\ pushed' = IF at[t].pc = "pop" THEN pushed ELSE [pushed EXCEPT ![t] = @ - 1]
  /\ Leave(t, at[t].then)
  /\ UNCHANGED <<process, known, cancels, ran>>

-----------------------------------------------------------------------------
(* Join and detach *)

\* The program may end the life of an id nobody else uses.
MayEnd(t, u) ==
  /\ at[t].pc = "run" /\ ~Async(t)
  /\ u \in known /\ Users(u) = {}

Join(t, u) ==
  /\ MayEnd(t, u) /\ u # t
  /\ ~CancelPending(t)
  /\ at[u].pc \in {"lock", "wait", "in", "unlock", "post"} /\ at[u].fn = "begin" => "join" \in Reckless
  /\ Call(t, "join", u)
  /\ UNCHANGED <<th, process, hist>>

JoinBody(t) ==
  LET u == at[t].on IN
  /\ In(t, "join")
  /\ IF th[u].joinable
       THEN /\ th' = [th EXCEPT ![u].joiner = t, ![u].joinable = FALSE]
            /\ Leave(t, "joining")
       ELSE Leave(t, "run") /\ UNCHANGED th
  /\ UNCHANGED <<process, hist>>

\* The thread has ended: its object is deleted.
Joined(t) ==
  LET u == at[t].on IN
  /\ at[t].pc = "joining"
  /\ at[u].pc = "ended"
  /\ th' = [th EXCEPT ![u] = Deleted]
  /\ known' = known \ {u}
  /\ at' = Returned(t, "run")
  /\ UNCHANGED <<process, cancels, pushed, ran>>

\* WAIT_CANCELED: the joiner is taken back, without the mutex, ...
JoinCanceled(t) ==
  LET u == at[t].on IN
  /\ at[t].pc = "joining"
  /\ at[u].pc # "ended"
  /\ CancelPending(t)
  /\ th' = [th EXCEPT ![u].joiner = None]
  /\ Goto(t, "rejoin")
  /\ UNCHANGED <<process, hist>>

\* ... and then the state.
Rejoin(t) ==
  /\ at[t].pc = "rejoin"
  /\ th' = [th EXCEPT ![at[t].on].joinable = TRUE]
  /\ at' = Exiting(t, "canceled")
  /\ UNCHANGED <<process, hist>>

Detach(t, u) ==
  /\ MayEnd(t, u)
  /\ Call(t, "detach", u)
  /\ known' = known \ {u}
  /\ UNCHANGED <<th, process, cancels, pushed, ran>>

\* Mutant: the object is deleted at once.
DetachBodyHasty(t) ==
  /\ In(t, "detach")
  /\ Leave(t, IF th[at[t].on].joinable THEN "delete" ELSE "run")
  /\ UNCHANGED <<th, process, hist>>

\* A running thread is left to delete its object itself.
DetachBody(t) ==
  LET u == at[t].on IN
  /\ In(t, "detach")
  /\ IF ~th[u].joinable THEN Leave(t, "run") /\ UNCHANGED th
     ELSE IF th[u].running /\ at[u].pc # "ended"
       THEN /\ th' = [th EXCEPT ![u].joiner = u, ![u].joinable = FALSE]
            /\ Leave(t, "run")
       ELSE Leave(t, "delete") /\ UNCHANGED th
  /\ UNCHANGED <<process, hist>>

DetachDelete(t) ==
  /\ at[t].pc = "delete"
  /\ th' = [th EXCEPT ![at[t].on] = Deleted]
  /\ at' = Returned(t, "run")
  /\ UNCHANGED <<process, hist>>

-----------------------------------------------------------------------------
(* The specification *)

\* What a thread does once it is in a call or on its way out
Step(t) ==
  \/ Lock(t) \/ Wait(t) \/ Unlock(t) \/ Post(t)
  \/ Begin(t) \/ ExitLock(t) \/ ExitDelete(t) \/ ExitKeep(t) \/ Count(t)
  \/ SetBody(t) \/ CancelBody(t) \/ CancelAsync(t) \/ WaitEnds(t) \/ SetEvent(t) \/ Resume(t)
  \/ CancelSelf(t)
  \/ RunHandler(t) \/ PopBody(t)
  \/ JoinBody(t) \/ Joined(t) \/ JoinCanceled(t) \/ Rejoin(t)
  \/ DetachBody(t) \/ DetachDelete(t)

\* What the program may do
Program(t) ==
  \/ /\ "create" \in Calls[t]
     /\ \E u \in Thread, joinable \in BOOLEAN : Create(t, u, joinable)
  \/ "exit" \in Calls[t] /\ Exit(t)
  \/ Testcancel(t)
  \/ "set" \in Calls[t] /\ \E new \in CancelSettings : Set(t, new)
  \/ "cancel" \in Calls[t] /\ \E u \in Thread : Cancel(t, u)
  \/ "push" \in Calls[t] /\ (Push(t) \/ \E f \in {"pop", "drop"} : Pop(t, f))
  \/ "join" \in Calls[t] /\ \E u \in Thread : Join(t, u)
  \/ "detach" \in Calls[t] /\ \E u \in Thread : Detach(t, u)
  \/ "fork" \in Calls[t] /\ Fork(t)

\* The process has ended.
Over == over /\ UNCHANGED vars

Next ==
  \/ ~over /\ \E t \in Thread : Step(t) \/ Program(t)
  \/ Over

Spec == Init /\ [][Next]_vars

-----------------------------------------------------------------------------
(* Properties *)

Steps == {"none", "run", "lock", "wait", "in", "pop", "unlock", "post", "exit", "count", "ended",
          "suspended", "setevent", "resume", "self", "joining", "rejoin", "delete"}

Objects ==
  [object : {"none", "valid", "deleted"}, joinable : BOOLEAN, joiner : Thread \cup {None},
   running : BOOLEAN, cancelstate : {"enable", "disable"}, canceltype : {"deferred", "async"},
   cancel_event : BOOLEAN, return_ptr : {None, "value", "canceled"},
   cleanup_stack : 0 .. MaxPush, lock_counter : Nat, semaphore : {0, 1}]

TypeOK ==
  /\ th \in [Thread -> Objects]
  /\ \A t \in Thread : /\ at[t].pc \in Steps /\ at[t].then \in Steps
                       /\ at[t].on \in Thread \cup {None}
                       /\ at[t].suspends \in 0 .. Cardinality(Thread)
                       /\ at[t].val \in {None, "value", "canceled"}
  /\ torn \in [Thread -> Thread \cup {None}] /\ eaten \subseteq Thread
  /\ threadcount \in 0 .. Cardinality(Thread) /\ over \in BOOLEAN
  /\ known \subseteq Thread /\ cancels \in 0 .. MaxCancel
  /\ pushed \in [Thread -> 0 .. MaxPush] /\ ran \in [Thread -> 0 .. MaxPush]

\* An object is not deleted while a call is at work on it, nor while the
\* program may still use its id: exit, join and detach delete it once, and the
\* last of them does.
ObjectsInUse ==
  /\ \A t \in known : th[t].object = "valid"
  /\ \A t \in Thread :
       at[t].pc \notin {"none", "run", "exit", "count", "ended", "self", "suspended"} =>
         th[at[t].on].object = "valid"

\* Every cleanup handler is run once, or popped by the program, and a thread that
\* has ended has none left, however it was cancelled.
HandlersOnce ==
  \A t \in Thread :
    /\ at[t].pc # "none" /\ th[t].object = "valid" =>
         pushed[t] + (IF at[t].pc = "pop" THEN 1 ELSE 0) = ran[t] + th[t].cleanup_stack
    /\ at[t].pc = "ended" => pushed[t] = ran[t]

\* The process ends with its last thread, and not before.
LastOneExits == over <=> \A t \in Thread : at[t].pc \in {"none", "ended"}

\* A thread that waits for the mutex of an object gets it: somebody is on the way
\* to release it, or has, though others were torn out of the same wait by their
\* cancellation; unless one of these was in the kernel, and got the mutex.
NoLostWakeup ==
  \A t \in Thread : at[t].pc = "wait" /\ at[t].on \notin eaten =>
    \/ th[at[t].on].semaphore > 0
    \/ \E u \in Thread : at[u].on = at[t].on /\ at[u].pc \in {"in", "pop", "unlock", "post"}

\* What pthread_cancel is for: a thread on its way out gets out.  It does not hold:
\* the thread that has got the mutex of its own object in this way waits for it in
\* pthread::exit.
CanceledGetsOut == \A t \in Thread : at[t].fn = "exit" /\ at[t].pc = "wait" => t \notin eaten

\* An object whose thread has ended, and whose id the program has given up, is
\* deleted: by the thread, or by the one that joined or detached it, who is the
\* only one to be still at it.
RecordsFreed ==
  \A t \in Thread \ {Main} :
    at[t].pc = "ended" /\ t \notin known /\ th[t].object = "valid" =>
      \E u \in Users(t) : at[u].fn = "detach"

=============================================================================
