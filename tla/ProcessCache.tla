---------------------------- MODULE ProcessCache ----------------------------
(***************************************************************************)
(* The process cache of the cygserver (cygserver/process.cc).  The server  *)
(* keeps an object for each process that has asked it for something; the   *)
(* object holds the routines that undo what the process leaves behind.     *)
(* Workers look an object up and hold it, by its critical section _access, *)
(* while they serve a request.  One thread, the submitter, waits for the   *)
(* processes to end, takes their objects out of the cache and hands them   *)
(* to the cleanup workers, which run the routines and delete the object.   *)
(*                                                                         *)
(* A worker serves one thread of a client at a time and the thread waits   *)
(* for the answer, so a worker goes by the name of that thread.  How       *)
(* requests and objects get to their workers is ThreadedQueue.  A process  *)
(* id is not used again while the model runs.                              *)
(***************************************************************************)
EXTENDS Integers, Sequences, FiniteSets

CONSTANTS
  Client,         \* the process ids of the clients
  Thread,         \* the threads of the clients that make requests
  Owner,          \* the client each thread belongs to
  Address,        \* where objects of class process can be
  RoutineKey,     \* the keys of cleanup routines
  MaxProcesses,   \* MAXIMUM_WAIT_OBJECTS - SPECIALS_COUNT
  Null            \* no object, no thread

ASSUME CacheAssumption ==
  /\ Client \subseteq Nat
  /\ Owner \in [Thread -> Client]
  /\ IsFiniteSet(Thread)
  /\ IsFiniteSet(Address)
  /\ MaxProcesses \in Nat
  /\ Null \notin Address
  /\ Null \notin Thread
  /\ Null \notin Client

VARIABLES
  status,           \* what each client does, and how it ended
  state,            \* the state of the object at each address
  winpid,           \* _winpid of each object
  active,           \* _exit_status == STILL_ACTIVE
  routines,         \* the list at _routines_head
  access,           \* the worker inside _access, if any
  processes_count,  \* _processes_count
  cache_lock,       \* the worker inside _cache_write_access, if any
  cache_add_trigger,\* is _cache_add_trigger signalled?
  rpc,              \* where the request of each thread is
  obj,              \* the object its worker has looked up
  spc,              \* where the submitter is
  array             \* what it still has to look at in _process_array

objectVars == <<state, winpid, active, routines>>
cacheVars == <<processes_count, cache_lock, cache_add_trigger>>
requestVars == <<rpc, obj>>
submitterVars == <<spc, array>>
vars == <<status, objectVars, access, cacheVars, requestVars, submitterVars>>

\* An object is linked in the cache, then handed over to be cleaned up, then
\* _cleaning_up, then deleted.
States == {"free", "cached", "queued", "cleaning"}
\* 259 is STILL_ACTIVE: GetExitCodeProcess does not tell such an end.
Statuses == {"runs", "exited", "exited 259"}
RequestSteps == {"idle", "find", "enter", "serve"}
SubmitterSteps == {"sync", "wait", "check", "remove"}

Cached == {a \in Address : state[a] = "cached"}
Ended(c) == status[c] # "runs"
RequestAt(t, step) == rpc' = [rpc EXCEPT ![t] = step]

Init ==
  /\ status = [c \in Client |-> "runs"]
  /\ state = [a \in Address |-> "free"]
  /\ winpid = [a \in Address |-> Null]
  /\ active = [a \in Address |-> FALSE]
  /\ routines = [a \in Address |-> <<>>]
  /\ access = [a \in Address |-> Null]
  /\ processes_count = 0
  /\ cache_lock = Null
  /\ cache_add_trigger = FALSE
  /\ rpc = [t \in Thread |-> "idle"]
  /\ obj = [t \in Thread |-> Null]
  /\ spc = "sync"
  /\ array = {}

-----------------------------------------------------------------------------
(* The clients *)

Arrive(t) ==
  /\ rpc[t] = "idle"
  /\ ~Ended(Owner[t])
  /\ RequestAt(t, "find")
  /\ UNCHANGED <<status, objectVars, access, cacheVars, obj, submitterVars>>

Exit(c, how) ==
  /\ ~Ended(c)
  /\ how # "runs"
  /\ status' = [status EXCEPT ![c] = how]
  /\ UNCHANGED <<objectVars, access, cacheVars, requestVars, submitterVars>>

-----------------------------------------------------------------------------
(* A worker: process_cache::process, the request and process::release *)

\* Mutant: the cache is unlocked before the object is locked.
FindUnlocked(t, a) ==
  /\ rpc[t] = "find"
  /\ cache_lock = Null
  /\ a \in Cached
  /\ winpid[a] = Owner[t]
  /\ obj' = [obj EXCEPT ![t] = a]
  /\ RequestAt(t, "enter")
  /\ UNCHANGED <<status, objectVars, access, cacheVars, submitterVars>>

\* find knows the process: go on to lock its object, the cache still locked.
Find(t, a) ==
  /\ rpc[t] = "find"
  /\ cache_lock = Null
  /\ a \in Cached
  /\ winpid[a] = Owner[t]
  /\ cache_lock' = t
  /\ obj' = [obj EXCEPT ![t] = a]
  /\ RequestAt(t, "enter")
  /\ UNCHANGED <<status, objectVars, access, processes_count,
                 cache_add_trigger, submitterVars>>

Unknown(t) ==
  /\ rpc[t] = "find"
  /\ cache_lock = Null
  /\ \A a \in Cached : winpid[a] # Owner[t]

\* Mutant: the limit is one too high.
CreateOneMore(t, a) ==
  /\ Unknown(t)
  /\ processes_count <= MaxProcesses
  /\ state[a] = "free"
  /\ state' = [state EXCEPT ![a] = "cached"]
  /\ winpid' = [winpid EXCEPT ![a] = Owner[t]]
  /\ active' = [active EXCEPT ![a] = TRUE]
  /\ routines' = [routines EXCEPT ![a] = <<>>]
  /\ processes_count' = processes_count + 1
  /\ cache_add_trigger' = TRUE
  /\ cache_lock' = t
  /\ obj' = [obj EXCEPT ![t] = a]
  /\ RequestAt(t, "enter")
  /\ UNCHANGED <<status, access, submitterVars>>

\* Mutant: the submitter is not told of the new process.
CreateUntold(t, a) ==
  /\ Unknown(t)
  /\ processes_count < MaxProcesses
  /\ state[a] = "free"
  /\ state' = [state EXCEPT ![a] = "cached"]
  /\ winpid' = [winpid EXCEPT ![a] = Owner[t]]
  /\ active' = [active EXCEPT ![a] = TRUE]
  /\ routines' = [routines EXCEPT ![a] = <<>>]
  /\ processes_count' = processes_count + 1
  /\ cache_lock' = t
  /\ obj' = [obj EXCEPT ![t] = a]
  /\ RequestAt(t, "enter")
  /\ UNCHANGED <<status, access, cache_add_trigger, submitterVars>>

\* It does not: a new object, whose constructor opens the process.  That it
\* can be opened does not mean that it still runs.
Create(t, a) ==
  /\ Unknown(t)
  /\ processes_count < MaxProcesses
  /\ state[a] = "free"
  /\ state' = [state EXCEPT ![a] = "cached"]
  /\ winpid' = [winpid EXCEPT ![a] = Owner[t]]
  /\ active' = [active EXCEPT ![a] = TRUE]
  /\ routines' = [routines EXCEPT ![a] = <<>>]
  /\ processes_count' = processes_count + 1
  /\ cache_add_trigger' = TRUE
  /\ cache_lock' = t
  /\ obj' = [obj EXCEPT ![t] = a]
  /\ RequestAt(t, "enter")
  /\ UNCHANGED <<status, access, submitterVars>>

\* EAGAIN at the process limit, ESRCH if the process cannot be opened.
Refuse(t) ==
  /\ Unknown(t)
  /\ processes_count >= MaxProcesses \/ Ended(Owner[t])
  /\ RequestAt(t, "idle")
  /\ UNCHANGED <<status, objectVars, access, cacheVars, obj, submitterVars>>

\* EnterCriticalSection (&entry->_access), and the cache is unlocked.
Enter(t) ==
  /\ rpc[t] = "enter"
  /\ access[obj[t]] = Null
  /\ access' = [access EXCEPT ![obj[t]] = t]
  /\ cache_lock' = Null
  /\ RequestAt(t, "serve")
  /\ UNCHANGED <<status, objectVars, processes_count, cache_add_trigger, obj,
                 submitterVars>>

\* The request is served and the object released, in one step: nobody else
\* looks at what the request changes without that lock but the submitter, at
\* nothing but the exit status.
Served(t) ==
  /\ rpc[t] = "serve"
  /\ access' = [access EXCEPT ![obj[t]] = Null]
  /\ obj' = [obj EXCEPT ![t] = Null]
  /\ RequestAt(t, "idle")
  /\ UNCHANGED <<status, state, winpid, active, cacheVars, submitterVars>>

\* process::add, which refuses once the object is being cleaned up
AddRoutine(t, k) ==
  /\ Served(t)
  /\ routines' = IF state[obj[t]] = "cleaning" THEN routines
                 ELSE [routines EXCEPT ![obj[t]] = <<k>> \o @]

\* The list without its i-th routine
Without(s, i) == SubSeq(s, 1, i - 1) \o SubSeq(s, i + 1, Len(s))

IsFirst(s, k, i) == s[i] = k /\ \A j \in 1 .. i - 1 : s[j] # k

\* process::remove takes the first routine of the key out, if there is one.
RemoveRoutine(t, k) ==
  /\ Served(t)
  /\ \/ /\ state[obj[t]] # "cleaning"
        /\ \E i \in 1 .. Len(routines[obj[t]]) :
             /\ IsFirst(routines[obj[t]], k, i)
             /\ routines' = [routines EXCEPT ![obj[t]] = Without(@, i)]
     \/ /\ \/ state[obj[t]] = "cleaning"
           \/ \A i \in 1 .. Len(routines[obj[t]]) : routines[obj[t]][i] # k
        /\ UNCHANGED routines

\* A request that has nothing to do with the routines
ServeOther(t) == Served(t) /\ UNCHANGED routines

-----------------------------------------------------------------------------
(* The submitter: sync_wait_array, wait_for_processes,                     *)
(* check_and_remove_process                                                *)

SyncWaitArray ==
  /\ spc = "sync"
  /\ cache_lock = Null
  /\ array' = Cached
  /\ spc' = "wait"
  /\ UNCHANGED <<status, objectVars, access, cacheVars, requestVars>>

Signalled == {a \in array : Ended(winpid[a])}

\* WaitForMultipleObjects returns the first of the processes, which are
\* sorted by process id, that has ended ...
ProcessEnded ==
  /\ spc = "wait"
  /\ \E a \in Signalled :
       /\ \A b \in Signalled : winpid[a] <= winpid[b]
       /\ array' = {b \in array : winpid[b] >= winpid[a]}
  /\ spc' = "check"
  /\ UNCHANGED <<status, objectVars, access, cacheVars, requestVars>>

\* ... or, when there is none, the event of a process that was added.
ProcessAdded ==
  /\ spc = "wait"
  /\ Signalled = {}
  /\ cache_add_trigger
  /\ cache_add_trigger' = FALSE
  /\ spc' = "sync"
  /\ array' = {}
  /\ UNCHANGED <<status, objectVars, access, processes_count, cache_lock,
                 requestVars>>

\* The next one of the array
NextToCheck(a) == a \in array /\ \A b \in array : winpid[a] <= winpid[b]

\* On to the one after it, or back to request_loop and sync_wait_array
DoneWith(a) ==
  /\ array' = array \ {a}
  /\ spc' = IF array' = {} THEN "sync" ELSE "check"

\* check_exit_code, which takes no lock
CheckExitCode(a) ==
  /\ spc = "check"
  /\ NextToCheck(a)
  /\ IF status[winpid[a]] = "exited"
       THEN /\ active' = [active EXCEPT ![a] = FALSE]
            /\ spc' = "remove"
            /\ UNCHANGED array
       ELSE DoneWith(a) /\ UNCHANGED active
  /\ UNCHANGED <<status, state, winpid, routines, access, cacheVars,
                 requestVars>>

\* Unlink the object, and queue it for a cleanup worker.
RemoveProcess(a) ==
  /\ spc = "remove"
  /\ NextToCheck(a)
  /\ cache_lock = Null
  /\ state' = [state EXCEPT ![a] = "queued"]
  /\ processes_count' = processes_count - 1
  /\ DoneWith(a)
  /\ UNCHANGED <<status, winpid, active, routines, access, cache_lock,
                 cache_add_trigger, requestVars>>

-----------------------------------------------------------------------------
(* A cleanup worker: process::cleanup, ~process_cleanup *)

\* What cleanup does inside _access; from here on the list is its own, for
\* add and remove leave the object alone.
Cleanup(a) ==
  /\ state[a] = "queued"
  /\ access[a] = Null
  /\ state' = [state EXCEPT ![a] = "cleaning"]
  /\ UNCHANGED <<status, winpid, active, routines, access, cacheVars,
                 requestVars, submitterVars>>

\* ptr->cleanup (this), for the next routine of the list
RunRoutine(a) ==
  /\ state[a] = "cleaning"
  /\ routines[a] # <<>>
  /\ routines' = [routines EXCEPT ![a] = Tail(@)]
  /\ UNCHANGED <<status, state, winpid, active, access, cacheVars, requestVars,
                 submitterVars>>

Delete(a) ==
  /\ state[a] = "cleaning"
  /\ routines[a] = <<>>
  /\ state' = [state EXCEPT ![a] = "free"]
  /\ winpid' = [winpid EXCEPT ![a] = Null]
  /\ UNCHANGED <<status, active, routines, access, cacheVars, requestVars,
                 submitterVars>>

-----------------------------------------------------------------------------
Lookup(t) == Refuse(t) \/ \E a \in Address : Find(t, a) \/ Create(t, a)
Serve(t) ==
  ServeOther(t) \/ \E k \in RoutineKey : AddRoutine(t, k) \/ RemoveRoutine(t, k)

SubmitterStep ==
  \/ SyncWaitArray \/ ProcessEnded \/ ProcessAdded
  \/ \E a \in Address : CheckExitCode(a) \/ RemoveProcess(a)

CleanerStep(a) == Cleanup(a) \/ RunRoutine(a) \/ Delete(a)

Next ==
  \/ \E t \in Thread :
       Arrive(t) \/ Lookup(t) \/ Enter(t) \/ Serve(t)
  \/ \E c \in Client, how \in Statuses : Exit(c, how)
  \/ SubmitterStep
  \/ \E a \in Address : CleanerStep(a)

Spec == Init /\ [][Next]_vars

-----------------------------------------------------------------------------
(* Properties *)

TypeOK ==
  /\ status \in [Client -> Statuses]
  /\ state \in [Address -> States]
  /\ winpid \in [Address -> Client \cup {Null}]
  /\ active \in [Address -> BOOLEAN]
  /\ routines \in [Address -> Seq(RoutineKey)]
  /\ access \in [Address -> Thread \cup {Null}]
  /\ processes_count \in Nat
  /\ cache_lock \in Thread \cup {Null}
  /\ cache_add_trigger \in BOOLEAN
  /\ rpc \in [Thread -> RequestSteps]
  /\ obj \in [Thread -> Address \cup {Null}]
  /\ spc \in SubmitterSteps
  /\ array \subseteq Address

\* An object that a worker has looked up, and then locked, is the object of
\* its client, is not being cleaned up and is not deleted: process::add does
\* not fail (the assertion in segment_t::attach).
HeldObjectLives ==
  \A t \in Thread : rpc[t] \in {"enter", "serve"} =>
    /\ state[obj[t]] \in {"cached", "queued"}
    /\ winpid[obj[t]] = Owner[t]

\* What the submitter asserts of the array it waits on: there is room for the
\* cached processes, all of which are active, and the process that it is about
\* to take out of the cache is the one find knows by its process id; and what
\* cleanup asserts, that the process is not active.
CacheConsistent ==
  /\ processes_count = Cardinality(Cached) /\ processes_count <= MaxProcesses
  /\ spc = "sync" => \A a \in Cached : active[a]
  /\ spc = "remove" =>
       \A a \in array : NextToCheck(a) =>
         /\ a \in Cached
         /\ \A b \in Cached : winpid[b] = winpid[a] => b = a
  /\ \A a \in Address : state[a] \in {"queued", "cleaning"} => ~active[a]

=============================================================================
