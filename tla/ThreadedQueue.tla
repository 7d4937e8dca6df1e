---------------------------- MODULE ThreadedQueue ----------------------------
(***************************************************************************)
(* The request queue of the cygserver (cygserver/threaded_queue.cc): one   *)
(* thread per submission loop finds requests and appends them to a list, a *)
(* fixed number of worker threads take them from its head, and a semaphore *)
(* counts what is there.  The server has two such queues: the requests of  *)
(* clients, fed by a loop that sits in accept and can only be killed, and  *)
(* the dead processes to clean up after, fed by a loop that can be asked   *)
(* to leave.                                                               *)
(*                                                                         *)
(* The thread that owns the queue starts and stops it.  A critical section *)
(* during which no thread can be killed is one step; the one of            *)
(* threaded_queue::add is three, since its thread can be terminated        *)
(* anywhere and the lock then stays with it.                               *)
(***************************************************************************)
EXTENDS Integers, Sequences, FiniteSets

CONSTANTS
  Workers,        \* the worker threads
  Loops,          \* the submission loops
  Interruptible,  \* those with an interrupt event (process_cache)
  MayFail,        \* those whose transport can fail for good (accept)
  MaxRequests,    \* bound on the requests the loops find
  Nobody          \* neither a loop nor a request

ASSUME LoopsAssumption ==
  /\ IsFiniteSet(Workers) /\ IsFiniteSet(Loops)
  /\ Interruptible \subseteq Loops
  /\ MayFail \subseteq Loops
  /\ MaxRequests \in Nat
  /\ Nobody \notin Loops \cup Nat

VARIABLES
  running,        \* threaded_queue::_running
  workers_count,  \* _workers_count
  requests,       \* the list at _requests_head
  requests_sem,   \* the count of _requests_sem
  queue_lock,     \* the loop inside add that owns _queue_lock, if any
  submitters,     \* the list at _submitters_head
  loop_running,   \* queue_submission_loop::_running
  hThread,        \* is _hThread set?
  interrupt,      \* is _interrupt_event signalled?
  lpc,            \* where the thread of each loop is
  hand,           \* the request a loop is about to add
  wpc,            \* where each worker is
  taken,          \* the request a worker has taken from the list
  mpc,            \* where the owner of the queue is
  todo,           \* its loopptr: the loops still to start or stop
  found,          \* how many requests the loops have found
  processed,      \* the requests whose process () has returned
  aborted         \* an assertion has failed

queueVars == <<running, workers_count, requests, requests_sem, queue_lock>>
loopVars == <<submitters, loop_running, hThread, interrupt, lpc, hand, found>>
workerVars == <<wpc, taken, processed>>
mainVars == <<mpc, todo>>
vars == <<queueVars, loopVars, workerVars, mainVars, aborted>>

Request == 1 .. MaxRequests
AddSteps == {"enter", "append", "leave", "release"}
LoopSteps == {"none", "top", "wait", "ending", "halting", "leaving", "dead"} \cup AddSteps
WorkerSteps == {"wait", "woken", "listen", "process", "exit", "gone"}
MainSteps == {"setup", "start", "started", "pause", "stop", "halt", "ask", "heavy",
              "join", "stopped", "deleted"}

\* The constructors have run: the workers exist, the queue does not run.
Init ==
  /\ running = FALSE
  /\ workers_count = Cardinality(Workers)
  /\ requests = <<>>
  /\ requests_sem = 0
  /\ queue_lock = Nobody
  /\ submitters = <<>>
  /\ loop_running = [l \in Loops |-> FALSE]
  /\ hThread = [l \in Loops |-> FALSE]
  /\ interrupt = [l \in Loops |-> FALSE]
  /\ lpc = [l \in Loops |-> "none"]
  /\ hand = [l \in Loops |-> Nobody]
  /\ wpc = [w \in Workers |-> "wait"]
  /\ taken = [w \in Workers |-> Nobody]
  /\ mpc = "setup"
  /\ todo = <<>>
  /\ found = 0
  /\ processed = {}
  /\ aborted = FALSE

LoopAt(l, step) == lpc' = [lpc EXCEPT ![l] = step]
WorkerAt(w, step) == wpc' = [wpc EXCEPT ![w] = step]

-----------------------------------------------------------------------------
(* The owner: add_submission_loop, start, stop, the destructor *)

AddSubmissionLoop(l) ==
  /\ mpc \in {"setup", "pause"}
  /\ \A i \in DOMAIN submitters : submitters[i] # l
  /\ submitters' = <<l>> \o submitters
  /\ IF running
       THEN mpc' = "start" /\ todo' = <<l>>
       ELSE UNCHANGED mainVars
  /\ UNCHANGED <<queueVars, loop_running, hThread, interrupt, lpc, hand,
                 found, workerVars, aborted>>

Start ==
  /\ mpc = "setup"
  /\ queue_lock = Nobody
  /\ running' = TRUE
  /\ todo' = submitters
  /\ mpc' = "start"
  /\ UNCHANGED <<workers_count, requests, requests_sem, queue_lock, loopVars,
                 workerVars, aborted>>

\* queue_submission_loop::start as far as CreateThread, which lets the new
\* thread run before its handle is stored.
StartThread ==
  /\ mpc = "start"
  /\ todo # <<>>
  /\ loop_running' = [loop_running EXCEPT ![Head(todo)] = TRUE]
  /\ LoopAt(Head(todo), "top")
  /\ mpc' = "started"
  /\ UNCHANGED <<queueVars, submitters, hThread, interrupt, hand, found,
                 workerVars, todo, aborted>>

\* _hThread = CreateThread (...)
StoreHandle ==
  /\ mpc = "started"
  /\ hThread' = [hThread EXCEPT ![Head(todo)] = TRUE]
  /\ todo' = Tail(todo)
  /\ mpc' = "start"
  /\ UNCHANGED <<queueVars, submitters, loop_running, interrupt, lpc, hand,
                 found, workerVars, aborted>>

AllStarted ==
  /\ mpc = "start"
  /\ todo = <<>>
  /\ mpc' = "pause"
  /\ UNCHANGED <<queueVars, loopVars, workerVars, todo, aborted>>

Stop ==
  /\ mpc = "pause"
  /\ queue_lock = Nobody
  /\ running' = FALSE
  /\ todo' = submitters
  /\ mpc' = "stop"
  /\ UNCHANGED <<workers_count, requests, requests_sem, queue_lock, loopVars,
                 workerVars, aborted>>

\* TerminateThread: what the thread holds, the queue's lock included, stays.
Killed(l) == LoopAt(l, "dead")

\* queue_submission_loop::stop for the next loop: one that runs no more is
\* passed over ...
PassLoop ==
  /\ mpc = "stop"
  /\ todo # <<>>
  /\ IF loop_running[Head(todo)]
       THEN mpc' = "halt" /\ UNCHANGED todo
       ELSE todo' = Tail(todo) /\ UNCHANGED mpc
  /\ UNCHANGED <<queueVars, loopVars, workerVars, aborted>>

\* Mutant: a loop that cannot be interrupted is left to notice by itself.
StopLoopNoKill ==
  /\ mpc = "halt"
  /\ LET l == Head(todo) IN
       /\ loop_running' = [loop_running EXCEPT ![l] = FALSE]
       /\ IF l \in Interruptible
            THEN /\ interrupt' = [interrupt EXCEPT ![l] = TRUE]
                 /\ mpc' = "ask"
                 /\ UNCHANGED <<lpc, todo>>
            ELSE /\ todo' = Tail(todo)
                 /\ mpc' = "stop"
                 /\ UNCHANGED <<lpc, interrupt>>
  /\ UNCHANGED <<queueVars, submitters, hThread, hand, found, workerVars,
                 aborted>>

\* ... one with an event is asked to leave, any other is killed, though either
\* may have begun to stop itself since the owner looked.
StopLoop ==
  /\ mpc = "halt"
  /\ LET l == Head(todo) IN
       /\ loop_running' = [loop_running EXCEPT ![l] = FALSE]
       /\ IF l \in Interruptible
            THEN /\ interrupt' = [interrupt EXCEPT ![l] = TRUE]
                 /\ mpc' = "ask"
                 /\ UNCHANGED <<lpc, todo>>
            ELSE /\ Killed(l)
                 /\ todo' = Tail(todo)
                 /\ mpc' = "stop"
                 /\ UNCHANGED interrupt
  /\ UNCHANGED <<queueVars, submitters, hThread, hand, found, workerVars,
                 aborted>>

\* WaitForSingleObject (_hThread, 1000): it left, or time is up ...
LoopLeft ==
  /\ mpc = "ask"
  /\ IF lpc[Head(todo)] = "dead"
       THEN todo' = Tail(todo) /\ mpc' = "stop"
       ELSE mpc' = "heavy" /\ UNCHANGED todo
  /\ UNCHANGED <<queueVars, loopVars, workerVars, aborted>>

\* ... and it is killed, unless it has just left: there is no thread to kill.
GetHeavy ==
  /\ mpc = "heavy"
  /\ IF lpc[Head(todo)] = "dead"
       THEN aborted' = TRUE /\ UNCHANGED <<lpc, mainVars>>
       ELSE /\ Killed(Head(todo))
            /\ todo' = Tail(todo)
            /\ mpc' = "stop"
            /\ UNCHANGED aborted
  /\ UNCHANGED <<queueVars, submitters, loop_running, hThread, interrupt, hand,
                 found, workerVars>>

\* Mutant: one count for all the workers.
ReleaseOneWorker ==
  /\ mpc = "stop"
  /\ todo = <<>>
  /\ requests_sem' = requests_sem + 1
  /\ mpc' = "join"
  /\ UNCHANGED <<running, workers_count, requests, queue_lock, loopVars,
                 workerVars, todo, aborted>>

\* ReleaseSemaphore (_requests_sem, _workers_count, NULL)
ReleaseWorkers ==
  /\ mpc = "stop"
  /\ todo = <<>>
  /\ requests_sem' = requests_sem + workers_count
  /\ mpc' = "join"
  /\ UNCHANGED <<running, workers_count, requests, queue_lock, loopVars,
                 workerVars, todo, aborted>>

\* while (_workers_count) Sleep (1000)
Join ==
  /\ mpc = "join"
  /\ workers_count = 0
  /\ mpc' = "stopped"
  /\ UNCHANGED <<queueVars, loopVars, workerVars, todo, aborted>>

\* ~threaded_queue: what is left in the list goes unprocessed.
Delete ==
  /\ mpc = "stopped"
  /\ requests' = <<>>
  /\ mpc' = "deleted"
  /\ UNCHANGED <<running, workers_count, requests_sem, queue_lock, loopVars,
                 workerVars, todo, aborted>>

-----------------------------------------------------------------------------
(* A submission loop: request_loop, threaded_queue::add, start_routine *)

\* while (_running)
Top(l) ==
  /\ lpc[l] = "top"
  /\ LoopAt(l, IF loop_running[l] THEN "wait" ELSE "ending")
  /\ UNCHANGED <<queueVars, submitters, loop_running, hThread, interrupt, hand,
                 found, workerVars, mainVars, aborted>>

\* accept, or WaitForMultipleObjects, found something for the queue ...
Find(l) ==
  /\ lpc[l] = "wait"
  /\ found < MaxRequests
  /\ found' = found + 1
  /\ hand' = [hand EXCEPT ![l] = found + 1]
  /\ LoopAt(l, "enter")
  /\ UNCHANGED <<queueVars, submitters, loop_running, hThread, interrupt,
                 workerVars, mainVars, aborted>>

\* ... or the loop was asked to leave ...
Interrupted(l) ==
  /\ lpc[l] = "wait"
  /\ interrupt[l]
  /\ interrupt' = [interrupt EXCEPT ![l] = FALSE]
  /\ LoopAt(l, "top")
  /\ UNCHANGED <<queueVars, submitters, loop_running, hThread, hand, found,
                 workerVars, mainVars, aborted>>

\* ... or there was nothing (another event, an error that can be recovered) ...
FoundNothing(l) ==
  /\ lpc[l] = "wait"
  /\ LoopAt(l, "top")
  /\ UNCHANGED <<queueVars, submitters, loop_running, hThread, interrupt, hand,
                 found, workerVars, mainVars, aborted>>

\* ... or the transport is broken and request_loop returns.
Fail(l) ==
  /\ lpc[l] = "wait"
  /\ l \in MayFail
  /\ LoopAt(l, "ending")
  /\ UNCHANGED <<queueVars, submitters, loop_running, hThread, interrupt, hand,
                 found, workerVars, mainVars, aborted>>

EnterAdd(l) ==
  /\ lpc[l] = "enter"
  /\ queue_lock = Nobody
  /\ queue_lock' = l
  /\ LoopAt(l, "append")
  /\ UNCHANGED <<running, workers_count, requests, requests_sem, submitters,
                 loop_running, hThread, interrupt, hand, found, workerVars,
                 mainVars, aborted>>

\* Mutant: the semaphore is released before the request is in the list.
AppendAfterRelease(l) ==
  /\ lpc[l] = "append"
  /\ requests_sem' = requests_sem + 1
  /\ LoopAt(l, "leave")
  /\ UNCHANGED <<running, workers_count, requests, queue_lock, submitters,
                 loop_running, hThread, interrupt, hand, found, workerVars,
                 mainVars, aborted>>

AppendRequest(l) ==
  /\ lpc[l] = "append"
  /\ requests' = Append(requests, hand[l])
  /\ hand' = [hand EXCEPT ![l] = Nobody]
  /\ LoopAt(l, "leave")
  /\ UNCHANGED <<running, workers_count, requests_sem, queue_lock, submitters,
                 loop_running, hThread, interrupt, found, workerVars, mainVars,
                 aborted>>

LeaveAdd(l) ==
  /\ lpc[l] = "leave"
  /\ queue_lock' = Nobody
  /\ LoopAt(l, "release")
  /\ UNCHANGED <<running, workers_count, requests, requests_sem, submitters,
                 loop_running, hThread, interrupt, hand, found, workerVars,
                 mainVars, aborted>>

\* Where a loop is once it has added a request: accept gives one at a time,
\* the process cache may have found more that died.
AfterAdd(l) == IF l \in Interruptible THEN {"wait", "top"} ELSE {"top"}

\* Mutant: only the first request in an empty list is announced.
AnnounceFirst(l) ==
  /\ lpc[l] = "release"
  /\ requests_sem' = IF Len(requests) > 1 THEN requests_sem ELSE requests_sem + 1
  /\ \E step \in AfterAdd(l) : LoopAt(l, step)
  /\ UNCHANGED <<running, workers_count, requests, queue_lock, submitters,
                 loop_running, hThread, interrupt, hand, found, workerVars,
                 mainVars, aborted>>

\* ReleaseSemaphore (_requests_sem, 1, NULL)
Announce(l) ==
  /\ lpc[l] = "release"
  /\ requests_sem' = requests_sem + 1
  /\ \E step \in AfterAdd(l) : LoopAt(l, step)
  /\ UNCHANGED <<running, workers_count, requests, queue_lock, submitters,
                 loop_running, hThread, interrupt, hand, found, workerVars,
                 mainVars, aborted>>

\* The thread calls stop () for itself: it ends if the owner has stopped the
\* loop already ...
StopItself(l) ==
  /\ lpc[l] = "ending"
  /\ hThread[l]
  /\ LoopAt(l, IF loop_running[l] THEN "halting" ELSE "dead")
  /\ UNCHANGED <<queueVars, submitters, loop_running, hThread, interrupt, hand,
                 found, workerVars, mainVars, aborted>>

\* ... and else is about to terminate itself, at once or after the second it
\* waits for itself to end.
HaltItself(l) ==
  /\ lpc[l] = "halting"
  /\ loop_running' = [loop_running EXCEPT ![l] = FALSE]
  /\ interrupt' = [interrupt EXCEPT ![l] = @ \/ l \in Interruptible]
  /\ LoopAt(l, "leaving")
  /\ UNCHANGED <<queueVars, submitters, hThread, hand, found, workerVars,
                 mainVars, aborted>>

TerminateItself(l) ==
  /\ lpc[l] = "leaving"
  /\ Killed(l)
  /\ UNCHANGED <<queueVars, submitters, loop_running, hThread, interrupt, hand,
                 found, workerVars, mainVars, aborted>>

\* stop () asserts that _hThread is set.
AssertHandle(l) ==
  /\ lpc[l] = "ending"
  /\ ~hThread[l]
  /\ aborted' = TRUE
  /\ UNCHANGED <<queueVars, loopVars, workerVars, mainVars>>

-----------------------------------------------------------------------------
(* A worker: worker_loop, start_routine *)

\* WaitForSingleObject (_requests_sem, INFINITE)
Wake(w) ==
  /\ wpc[w] = "wait"
  /\ requests_sem > 0
  /\ requests_sem' = requests_sem - 1
  /\ WorkerAt(w, "woken")
  /\ UNCHANGED <<running, workers_count, requests, queue_lock, loopVars, taken,
                 processed, mainVars, aborted>>

\* The critical section of worker_loop, the queue being stopped or not
SeeStopped(w) ==
  /\ wpc[w] = "woken"
  /\ queue_lock = Nobody
  /\ ~running
  /\ WorkerAt(w, "exit")
  /\ UNCHANGED <<queueVars, loopVars, taken, processed, mainVars, aborted>>

\* The request may be that of a client that says nothing: process () begins with
\* a read of its pipe, which has no timeout.
Take(w) ==
  /\ wpc[w] = "woken"
  /\ queue_lock = Nobody
  /\ running
  /\ taken' = [taken EXCEPT ![w] = Head(requests)]
  /\ requests' = Tail(requests)
  /\ \E step \in {"listen", "process"} : WorkerAt(w, step)
  /\ UNCHANGED <<running, workers_count, requests_sem, queue_lock, loopVars,
                 processed, mainVars, aborted>>

\* The client has written its request, or is gone.
Hear(w) ==
  /\ wpc[w] = "listen"
  /\ WorkerAt(w, "process")
  /\ UNCHANGED <<queueVars, loopVars, taken, processed, mainVars, aborted>>

\* reqptr->process (); safe_delete (reqptr);
Process(w) ==
  /\ wpc[w] = "process"
  /\ processed' = processed \cup {taken[w]}
  /\ taken' = [taken EXCEPT ![w] = Nobody]
  /\ WorkerAt(w, "wait")
  /\ UNCHANGED <<queueVars, loopVars, mainVars, aborted>>

\* InterlockedDecrement (&_workers_count)
Exit(w) ==
  /\ wpc[w] = "exit"
  /\ workers_count' = workers_count - 1
  /\ WorkerAt(w, "gone")
  /\ UNCHANGED <<running, requests, requests_sem, queue_lock, loopVars, taken,
                 processed, mainVars, aborted>>

-----------------------------------------------------------------------------
WorkerStep(w) ==
  Wake(w) \/ SeeStopped(w) \/ Take(w) \/ Process(w) \/ Exit(w)

\* What a loop does by itself, and what happens to it in accept or its wait
AddStep(l) == EnterAdd(l) \/ AppendRequest(l) \/ LeaveAdd(l) \/ Announce(l)
LoopStep(l) ==
  Top(l) \/ Interrupted(l) \/ AddStep(l) \/ StopItself(l) \/ HaltItself(l)
  \/ TerminateItself(l) \/ AssertHandle(l)
LoopEvent(l) == Find(l) \/ FoundNothing(l) \/ Fail(l)

\* What the owner goes on with once it has begun
OwnerStep ==
  \/ StartThread \/ StoreHandle \/ AllStarted
  \/ PassLoop \/ StopLoop \/ LoopLeft \/ GetHeavy \/ ReleaseWorkers \/ Join \/ Delete
OwnerCall == Start \/ Stop \/ \E l \in Loops : AddSubmissionLoop(l)

Next ==
  /\ ~aborted
  /\ \/ \E w \in Workers : WorkerStep(w) \/ Hear(w)
     \/ \E l \in Loops : LoopStep(l) \/ LoopEvent(l)
     \/ OwnerStep
     \/ OwnerCall

Spec == Init /\ [][Next]_vars

\* Threads that can run do run, and nobody is kept out of a critical section
\* that is free again and again; nothing makes requests or signals come, nor a
\* client that is silent speak.
FairSpec ==
  /\ Spec
  /\ \A w \in Workers : WF_vars(~aborted /\ WorkerStep(w))
  /\ \A w \in Workers : SF_vars(~aborted /\ (SeeStopped(w) \/ Take(w)))
  /\ \A l \in Loops : WF_vars(~aborted /\ LoopStep(l))
  /\ \A l \in Loops : SF_vars(~aborted /\ EnterAdd(l))
  /\ WF_vars(~aborted /\ OwnerStep)

-----------------------------------------------------------------------------
(* Properties *)

TypeOK ==
  /\ running \in BOOLEAN
  /\ workers_count \in 0 .. Cardinality(Workers)
  /\ requests \in Seq(Request)
  /\ requests_sem \in Nat
  /\ queue_lock \in Loops \cup {Nobody}
  /\ submitters \in Seq(Loops)
  /\ loop_running \in [Loops -> BOOLEAN]
  /\ hThread \in [Loops -> BOOLEAN]
  /\ interrupt \in [Loops -> BOOLEAN]
  /\ lpc \in [Loops -> LoopSteps]
  /\ hand \in [Loops -> Request \cup {Nobody}]
  /\ wpc \in [Workers -> WorkerSteps]
  /\ taken \in [Workers -> Request \cup {Nobody}]
  /\ mpc \in MainSteps
  /\ todo \in Seq(Loops)
  /\ found \in 0 .. MaxRequests
  /\ processed \subseteq Request
  /\ aborted \in BOOLEAN

Woken == {w \in Workers : wpc[w] = "woken"}
Unannounced == {l \in Loops : lpc[l] \in {"leave", "release"}}

\* While the queue runs its semaphore counts its list, but for the requests
\* that are about to be announced and the workers that are about to take one:
\* a worker that wakes finds a request (assert (_requests_head)), and none is
\* left that no worker will be woken for.
RequestThere ==
  running => requests_sem + Cardinality(Woken) + Cardinality(Unannounced)
               = Len(requests)

\* When stop returns nothing works on a request and no loop can add one: the
\* caller goes on to delete the transport, the requests and the queue.  A loop
\* that gave up by itself may still be on its way to its own TerminateThread.
QuietAfterStop ==
  mpc \in {"stopped", "deleted"} =>
    /\ \A w \in Workers : wpc[w] = "gone"
    /\ \A l \in Loops : lpc[l] \in {"none", "leaving", "dead"}

\* A loop was killed while it owned the queue's lock.
LockOrphaned == queue_lock # Nobody /\ lpc[queue_lock] = "dead"

\* A worker is in the read of a client's pipe.
Listens(w) == wpc[w] = "listen"

\* stop returns, every worker having left, unless it killed a loop in add, or the
\* queue gave up, or some client keeps a worker for ever: stop waits for them all.
StopReturns ==
  (\A w \in Workers : []<>~Listens(w)) =>
    (mpc = "stop" ~> (mpc = "deleted" \/ LockOrphaned \/ aborted))

\* Every request that is found is processed, whatever comes after it, unless the
\* queue is stopped or its own client is silent: one worker that no client keeps
\* for ever is enough.
RequestsServed ==
  (\E w \in Workers : []<>~Listens(w)) =>
    \A r \in Request :
      found >= r ~> \/ r \in processed
                    \/ \E w \in Workers : Listens(w) /\ taken[w] = r
                    \/ mpc \notin {"start", "started", "pause"}
                    \/ aborted

\* What does not hold: stop returns whatever the clients do.
StopReturnsAlways == mpc = "stop" ~> (mpc = "deleted" \/ LockOrphaned \/ aborted)

=============================================================================
