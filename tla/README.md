# A TLA+ verification project for Cygwin (winsup)

The repository holds the Cygwin library of 2003: a DLL (`src/winsup/cygwin`) that
gives Windows processes a POSIX interface, a helper daemon (`src/winsup/cygserver`),
utilities and tests. This project models the parts in which threads and processes
meet: of the library its locks, the pthread synchronisation objects, the life of
threads, child processes and signals; of the daemon its request queue, its process
cache and shared memory, the client's side of it included.

## Inventory

| Part | State it keeps | Operations | Meets | What makes it correct |
|---|---|---|---|---|
| muto (`sync.cc`) | `sync`, `visits`, `waiters`, `tid`, the event `bruteforce` | `acquire`, `release`, `reset` | every part that locks | one owner; a waiter of a free lock is woken; a recursive lock to its users |
| pthread_mutex (`thread.cc`) | `lock_counter`, `recursion_counter`, `owner`, `type`, a semaphore | init, lock, trylock, unlock, destroy, static initializer, fixup after fork | pthread_cond, pthread_rwlock, fork | as above, for three types, from the static initializer to destruction and across fork |
| pthread_cond (`thread.cc`) | `waiting`, `pending`, `sem_wait`, `mtx_in`, `mtx_out`, `mtx_cond` | wait, timedwait, signal, broadcast, destroy, fixup | pthread_mutex, cancellation | a wakeup goes to a thread that waited for it; none is lost or left over |
| pthread_rwlock (`thread.cc`) | `writer`, `readers`, `waiting_readers`, `waiting_writers` | rdlock, wrlock, try, unlock, destroy, fixup | pthread_cond, pthread_mutex, cancellation | writer alone; writers preferred; nobody asleep on a free lock |
| child processes (`sigproc.cc`, `wait.cc`) | `pchildren`, `hchildren`, `zombies`, the wait queue | proc_subproc, wait_subproc, wait4, proc_terminate | fork, exec, SIGCHLD, signal handlers | every child is waited for once; no exit goes unnoticed; ECHILD and EINTR are honest |
| signals (`sigproc.cc`, `signal.cc`, `exceptions.cc`) | two arrays of counts, three catch objects, two completions, `pending_signals`, `sigsave`, the mask, `mainthread.frame` | sig_send, wait_sig, sig_handle, kill, sigprocmask, sigsuspend, stop and continue | every blocking call | no signal lost or doubled; the mask is kept; kill and sigsuspend return |
| thread life cycle (`thread.cc`) | `running`, `joiner`, `attr.joinable`, cancel state, type and event, `cleanup_stack`, `threadcount` | create, exit, join, detach, cancel, cleanup handlers, fixup after fork | mutexes, conditions, every cancellation point | an object is deleted once, by its last user; every handler runs once; nobody is left waiting for its mutex |
| keys, once, atfork (`thread.cc`) | the lists of keys and of atfork routines, a once control | set, destructors, once, atfork | thread exit, fork | a destructor runs once per value; one run of the routine |
| semaphores (`thread.cc`, `sem.cc`) | `currentvalue`, a Windows semaphore | post, wait, trywait, timedwait | cancellation, fork | the value kept for fork is the semaphore's |
| cygthread (`cygthread.cc`) | the pool of threads | create, detach, terminate | signals, select, pipes | a thread is used by one owner at a time |
| cygserver: queue (`threaded_queue.cc`) | the list of requests, `_requests_sem`, `_workers_count`, the submission loops and their threads | add, worker_loop, start, stop | transports, process cache | a woken worker finds a request; every request is processed until the stop; stop returns and leaves nobody behind |
| cygserver: process cache (`process.cc`) | an object per client process with its lock and cleanup routines, `_processes_count`, the wait array | process (lookup), add, remove, check_and_remove_process, cleanup | queue, shared memory | an object in use is not deleted; a process that ended is forgotten once |
| cygserver: shared memory (`cygserver/shm.cc`, `cygwin/shm.cc`) | segments, ids, attachments per process, removal marks; in the client its list of attachments | shmget, shmat, shmdt, shmctl, cleanup of a dead client | process cache, the client's memory | counts exact; a removed segment goes with its last attachment; client and server agree |
| cygserver: transports, messages and semaphores | pipes and sockets; nothing for the others | accept, read, write; ENOSYS | the queue | requests and replies in order |
| fork, spawn, pinfo | shared process entries, the handshake | fork, exec, spawn | children, signals | the child starts from a consistent state |
| files (dtable, pipe, tty, select, mmap) | tables shared and inherited | open, dup, close, fork | devices | tables consistent over fork and exec |
| paths, security, devices, utilities | mostly data | conversions | Windows | not a matter of interleavings |

Hard behaviours: machine-level interleavings of lock code; timeouts and cancellation that race
with wakeups; fork in the middle of everything; a helper thread per process for signals and one
for children, which use data the main thread changes; objects (one slot for a handler, one for a
frame) that are shared by nested uses; in the daemon threads that are killed wherever they are,
and clients that end in the middle of a request. `PROJECT.json` lists the hazards one by one,
with the lines where they bite.

## Modules

| Module | What it models |
|---|---|
| `RecursiveLock` | abstract: a lock with a depth per thread, of which at most one is positive |
| `Muto` | `muto::init`, `acquire`, `release`; refines `RecursiveLock` |
| `PthreadMutex` | `pthread_mutex`, all types; refines `RecursiveLock` |
| `PthreadMutexProofs` | theorems about `PthreadMutex` |
| `PthreadCond` | `pthread_cond::wait`, `unblock` and the fixup after fork, over inner mutexes |
| `PthreadCondProofs` | theorems about `PthreadCond` |
| `PthreadRwlock` | `pthread_rwlock`, over a mutex and two conditions |
| `PthreadRwlockProofs` | theorems about `PthreadRwlock` |
| `Pthread` | `pthread::create`, `exit`, `join`, `detach`, `cancel`, cleanup handlers |
| `PthreadProofs` | theorems about `Pthread` |
| `SubProc` | `proc_subproc`, `wait_subproc`, `wait4`, SIGCHLD in `wait_sig` |
| `SubProcProofs` | theorems about `SubProc` |
| `Signals` | `sig_send`, `wait_sig`, `sig_handle`, masks, `sigsuspend`, job control |
| `SignalsProofs` | theorems about `Signals` |
| `ThreadedQueue` | `threaded_queue`, its workers, `queue_submission_loop`: start, stop, add |
| `MutoQueueProofs` | theorems about `Muto` and about `ThreadedQueue` (the module extends both, so the names of the former begin with Muto where they would clash) |
| `ProcessCache` | `process_cache` and `process`: lookup, routines, the submitter, cleanup |
| `SharedMemory` | `server_shmmgr` and `client_shmmgr`, composed with `ProcessCache`, which it EXTENDS and whose actions its own conjoin |
| `CygserverProofs` | theorems about `ProcessCache` and `SharedMemory`; the latter implements the former |
| `MC*` | instances for TLC |

Variables have the names of the fields and globals they stand for; actions have the
names of functions, or of the step of a function they perform. A thread's place in a
function is `pc`. Operators named "Mutant: ..." in a comment are faulty variants of the
definition after them; they are used by no specification, only to see that the
properties notice such a fault.

### Muto

Every access of `acquire` and `release` to shared memory is an action: the counter, the
exchange of `sync`, the wait for the event, the owner, the visits, and in `release` the
decrement of `visits`, the owner, `sync`, the counter and the event. `bruteforce` is an
auto-reset event (0 or 1). In `MutoSpec` nobody times out; in `TimedSpec` the threads in
`TimedThread` may. `muto::reset`, called only while the process ends with prejudice
(`exceptions.cc:1113`) and not meant to be thread safe, is left out. `held` counts what the
program believes it holds and is the refinement mapping to `RecursiveLock`.

### PthreadMutex

The value of the user's variable (`mutex`: static initializer, object, or invalid), the
object, and the steps of lock, unlock and trylock; `semaphore` is the count of
`win32_obj_id`. The steps before an interlocked operation and the plain stores after it
are one action where no other thread can see the difference; in unlock the decrement of
`recursion_counter` (`Unlock`) and the store of `owner` (`Clear`) are two, since a thread may
fork between them. A thread inside `fork` makes the others vanish (`dead`) and runs the
fixup. The first call on a PTHREAD_MUTEX_INITIALIZER goes through the two tests of
`is_good_initializer` (`Call`, `Test`), the construction under `mutex_initialization_lock`
(`StaticInit`), which publishes the object before it has been checked, and the deletion of one
that could not get its semaphore (`StaticInitFails`). Two rules come from POSIX rather than the
code: an uninitialised or destroyed mutex is not used while somebody is inside a call,
and a normal mutex is unlocked by its holder.

The FIXME at `thread.cc:2824-2830` says that "threads waiting on a mutex may collide as they
all try to enter the initialisation code" and proposes a lock. The lock is there (2837): a
thread that comes second finds an object and makes none. `ImplementsLock` shows it, so this comment
is out of date; what is left of the hazard is the failed initialization, in the table below.

### PthreadCond

`wait` in nine steps, `unblock` in four, over the inner mutexes `mtx_in` and `mtx_out`,
which are exclusive locks that another thread may unlock (they are of type normal), the
counters and the semaphore. A wait ends by the semaphore, a timeout or cancellation.
`entitled` remembers who was waiting when a signal was sent, and `mixed` whether somebody
came with another mutex than the others'. `Fork` goes on in the child: its other threads
are gone, the counters are reset and the inner mutexes unlocked, and a user's mutex that a
thread now gone had locked stays locked (its owner is `Gone`). Time, `pthread_cond_init`
and `pthread_cond_destroy` are not modelled. A wait that is refused before it touches the
object (`thread.cc:2497-2540`: a bad mutex, one of somebody else, a deadline that has passed)
changes nothing and is no step.

### PthreadRwlock

The inner mutex `mtx` is held throughout each call except in the waits, so a call is one
action up to its wait and one after it; the conditions are the sets of threads that sleep
on them, and a signal wakes one of them. A blocked thread may be cancelled and then runs
its cleanup handler. `rdlock` may find no memory for its reader (EAGAIN). `destroy` is the
exception: it takes no mutex, so it is three steps (the holders, the waiters, the deletion)
between which the others go on; the history variable `late` remembers whether one of them did.
What a thread does inside an object that has been deleted is not followed.

### Pthread

A thread's object (`th[t]`) has the fields of `class pthread` and of its mutex, which is of
type normal and is kept as `lock_counter` and `semaphore`: a thread that is cancelled
asynchronously can be torn out of the wait for it. Every call is a lock, a body, an unlock
in two steps (the decrement, the semaphore) and what the code does after the unlock:
`SetEvent`, `ResumeThread`, the deletion by detach, the wait of join. `Create` is one action,
since the new thread starts suspended. `CancelAsync` suspends a thread wherever it is and
sends it to `pthread::exit` once it was resumed as often as it was suspended. That does not end
a wait in the kernel: a thread that waits for the mutex of an object is remembered in `torn`,
and when the wait ends (`WaitEnds`) it has taken the permit, which it never gives back (`eaten`),
and goes on in `pthread::exit`. A thread that was suspended before it was in the kernel is just
taken out of its call; which of the two it is, is left open. `Fork` goes on in the child.

The program is one that POSIX allows: `known` holds the ids it may use, join and detach are not
called on an id that another call is using, an id is not used any more, not even by
`pthread_cancel`, when a join or a detach that may end its life is under way, and a thread with
asynchronous cancellation enabled calls nothing that is not async-cancel-safe, or ends. Three
rules are stricter and can be lifted one by one with `Reckless`: threads are joined after
`thread_init_wrapper` has looked at `joiner`, the id of the main thread is not used, and a
thread does not fork while another has its id in hand. The fourth lets a thread with
asynchronous cancellation call `pthread_cancel`, which POSIX requires to be safe. The table
below says what each of them breaks. Not modelled: the destructors of keys, suspend and resume,
failing creation.

### SubProc

`proc_subproc` holds `sync_proc_subproc` from start to end, so each of its cases is one
action; what happens between the calls is not protected: the index that
`WaitForMultipleObjects` returns, the SIGCHLD that is sent after the lock is released, the
thread that wakes up after it was answered. The scan of the wait queue is a recursive
function on the tables and keeps the order of the list and the step that passes over a
waiter. A child is a pid with up to two Windows processes (before and after exec). A child
that stops sets `stopsig` and tells its parent in a second step; between the two it may be
continued, or killed, and then never tells. A SIGCHLD whose handler cannot be set up is put
back, for whatever reason `setup_handler` has. The lock is taken for granted: after 40 seconds
`get_proc_lock` gives up and goes on without it (`sigproc.cc:197-206`), which would need a call
of `proc_subproc` that takes as long; none of them waits for anything.

### Signals

A signal is a count; its sender counts it, raises a catch object, and waits for the completion
if it belongs to the process. `wait_sig` is modelled step by step: the choice of the catch
object, the array, the order of the signals, the mask test and the put-back as two steps,
`flush`, the failed interrupt and the completion. The main thread runs handlers through
`sigsave`, from the program, from a call with a registered frame, or when a handler returns. The
mask a handler runs with and the one it restores are both fixed when it is set up (`oldmask` and
`newmask` in `sigsave`), not when it is entered. Left out: `sa_mask`, `SA_RESTART`, SIGKILL and
default actions that end the process, `main_vfork`, strace and commune signals, the WSSC timeout
and the exit path. The program changes its mask and suspends only outside handlers. The retries
inside `setup_handler` are one decision: it succeeds exactly when the slot is free and the main
thread is in the program or has a frame.

### ThreadedQueue

The owner of a queue adds loops to it (`AddSubmissionLoop`, also while it runs), starts
it, one thread at a time, and stops it: `StopLoop` kills a loop that has no interrupt
event, wherever its thread is, and asks the others, with a timeout after which they are
killed too; then it releases a semaphore unit per worker and waits for `_workers_count` to
be zero. A loop finds requests and adds them: the lock, the append, the unlock and the
semaphore are steps of their own, since the thread can be killed between any two. A loop
whose transport fails for good stops itself. A worker is woken, sees `_running` or takes
the head of the list, processes it and looks again. Processing begins with a read of the
client's pipe that has no timeout (`client.cc:260`, `transport_pipes.cc:228`): the worker is in
`listen` until the client speaks (`Hear`), which nothing forces it to do; so is one in the
`FlushFileBuffers` of the close (196). A loop that is stopped, by the owner or by itself, tests
`_running` and clears it in two steps. The two queues of the server are both
instances: the accepting loop cannot be interrupted and can fail, that of the process
cache can be interrupted. Not modelled: the creation of workers one by one, WAIT_FAILED, a
`TerminateThread` that takes effect later.

### ProcessCache and SharedMemory

A worker and the client thread it serves have one name. A request takes the lock of the
cache, finds or makes the object of its process, takes the lock of the object
(`access`) and only then gives back the cache's; serving it and releasing the object are
one step. The submitter copies the cache into its wait array, waits, looks at the exit
codes one after the other in the order of the process ids, unlinks and hands over; a
cleanup worker takes the object's lock, marks it, runs the routines and deletes it. An
object has an address, which is used again, as an `attach_t` that points to a deleted
object would show.

`SharedMemory` adds the segments of the server, with the ids made from an index and a
sequence number (`Int2Ext`, `Ext2Int`), and the clients: a call takes the client's
`_segments_lock` where the code does, asks, and for shmat maps the view, which may fail,
and then gives the attachment back. The request of a shmdt, of the program's or of one that makes
up for a failed map, may not get through (`CallShmdtUntold`, `MapFailsUntold`): `make_request`
fails, the client has forgotten the attachment and the server has not (`untold`). `IdAssumption`
is what the headers say of their constants and true of the shipped ones (65536, 65536, 256): the
index is ORed into the id, and an index that reaches `IPCMNI` runs into the sequence number, so
`Ext2Int` refuses the id (see below). A client may end at any moment, a request of it then
still being served. Every action of the server is one of `ProcessCache` with what shared
memory does on top, and `UsesCache` says that nothing else happens to the cache. Left out:
sizes, permissions, times and what only reads them, the re-attachment of a forked child
(`fixup_shms_after_fork`), an answer that is lost after the request was served, and the lazy
creation of the one `client_shmmgr` (`cygwin/shm.cc:101-111`), of which two threads that make
their first call together may make two. A process id is not used again.

## Runs

| Run | Shows |
|---|---|
| `muto` | three threads without timeouts, nesting to two: no lost wakeup, refinement of `RecursiveLock` (so exclusion), every acquire succeeds |
| `muto_timeout` | (violation) a timeout and a release together admit two owners, against the comment at `sync.cc:87-91` |
| `mutex` | three threads, mutexes of the three types, static initializer, destroy, fork: no lost wakeup, refinement of `RecursiveLock` |
| `cond` | two waiters that may bring different mutexes, time out, be cancelled or fork, and a thread that signals and broadcasts: `condwaits` of each mutex is exact, wakeups are accounted for and not stolen, newcomers enter again, a broadcast wakes everybody |
| `rwlock` | four threads with cancellation, fork and destruction: the writer is alone, nobody sleeps on a free lock, also in a forked child, whose other readers are gone; destroy deletes no lock in use, as long as it is alone with it |
| `pthread` | a main thread that creates, cancels and detaches, a thread that changes its cancellation, has handlers and forks, and one that joins and cancels: objects are deleted once and by the last to use them, handlers run once, nobody waits for a mutex that no one will release unless a cancelled thread took it in the kernel, no object is left over |
| `subproc` | two children that exec and die, tables of two, every form of wait4, all dispositions of SIGCHLD, other signals: every child is kept once, the index of the wait is right, an answer is kept, a scan is to come for every change, ECHILD is honest |
| `subproc_live` | one child that may stop, and continue and exit before or after it has told so: waits for it end |
| `signals` | main thread and one other process, two signals, masks, sigsuspend: no signal lost or doubled, completions owed, and kill returns when its signal is off the local array and, unless it is masked, a handler runs before the program goes on |
| `signals_live` | SIGSTOP, SIGCONT and a signal with a handler, which can be blocked, from another process, with and without a Cygwin parent: a SIGCONT resumes, also after a second stop, and every signal that stays unblocked is handled unless the process is stopped |
| `queue` | two workers, a loop that sits in accept and can fail, one that can be interrupted, and an owner that starts, adds and stops at any time: a woken worker finds a request, nothing works on after stop, stop returns unless a loop was killed in add or a client keeps a worker for ever, requests are processed until then by whoever is not kept |
| `cygserver` | two clients, one with two threads, that make, attach, detach and remove segments and end at any moment, with room for one process in the cache: no object is used after its end, the counts and the wait array are right, every attachment will be undone, client and server agree but for what did not get through, the composition implements `ProcessCache`, and a process that ended is forgotten |

Deadlock is not checked where a program may simply stop making calls, or where a bound on
the number of calls or signals ends the behaviour.

### What does not hold

`muto_timeout` is a run. The following are stated in the modules as the comments of the
code have them, and fail; the constants named reproduce the counterexample.

| Property | Constants | Why |
|---|---|---|
| `PthreadMutex!InitializedWhileWaiting` | those of `mutex` | "If it's been initialized while we waited, we can just attempt to lock it" (`thread.cc:2897-2898`): if the other thread's initialization failed, `*mutex` is NULL or an object about to be deleted, and 2903 uses it |
| `PthreadRwlock!DestroyedUnusedAlways` | those of `rwlock` | destroy takes no mutex (`thread.cc:2625-2641`): a thread that takes the lock after the check has it deleted |
| `Pthread!CanceledGetsOut` | those of `pthread` | a thread that is redirected inside the kernel's wait for the mutex of its own object takes the permit when the wait ends, and then waits for the same mutex in `pthread::exit` (`thread.cc:449-460`; `exceptions.cc:626-659` avoids this for signals) |
| `ThreadedQueue!StopReturnsAlways` | those of `queue` | one client that has connected and says nothing keeps a worker in its read, and stop waits for `_workers_count` (`threaded_queue.cc:144-150`) |
| `SubProc!NoChildEndsWait` | `Waiter = {main, t2}` | the scan passes over the waiter after the one it unlinks (`sigproc.cc:412-433`), so ECHILD does not reach it; `wait.cc:41` says wait4 is not thread safe |
| `SubProc!HandlerNotHeldUp` | those of `subproc` | a handler set up between the frame (`wait.cc:58`) and PROC_WAIT is not run until wait4 ends: the PROC_CLEARWAIT of `exceptions.cc:702` found nobody |
| `Signals!KillReturnsHandled` | those of `signals` | "returns from kill/raise do not occur until the signal has been handled" (`sigproc.cc:1049-1052`): `setup_handler` fails when another handler waits to be run, the signal goes back to the other array (1211-1215), and kill returns |
| `Signals!KillDelivers` | `Raiser = {main, t2}` | one completion for all threads: the FIXME at `sigproc.cc:1241` |
| `Signals!PendingFlagHonest`, `SentHandled` | `Raiser = {main}`, for `SentHandled` with `CallingSpec` | the flag is cleared at each wakeup (`sigproc.cc:1159`), whichever array is looked at: in a program that sends itself signals one of another process that was put back can stay there for ever |
| `Signals!MaskKept` | those of `signals` | the mask a handler restores is read without `mask_sync` (`exceptions.cc:692`), so its return undoes a later sigprocmask |
| `Signals!SuspendWakes` | those of `signals`, with `FairSpec` | a signal found masked is put back after sigsuspend (`exceptions.cc:562`) has opened the mask (`sigproc.cc:1176-1183`) |
| `Signals!SuspendedInFrame` | those of `signals` | one slot for nested frames: the end of an inner frame (`sigproc.h:55-66`) removes that of sigsuspend (`exceptions.cc:585`) |
| `Pthread!ObjectsInUse` | `Reckless = {"join"}` | a cancelled join sets `joiner` and `joinable` back without the mutex, one after the other (`thread.cc:2216-2217`); between the two `thread_init_wrapper` takes the thread for a detached one (`1810-1811`), and it deletes the object that the comment at `2215` calls joinable |
| `Pthread!ObjectsInUse` | `Reckless = {"main"}`, main's id detached | `running` is set by `postcreate` only, never for the main thread, so detach finds that it "has already terminated" (`2244-2255`) and deletes the object of a running thread; for the same reason cancelling it does nothing |
| `Pthread!NoLostWakeup` | `Reckless = {"fork"}` | the fixup of a mutex leaves `lock_counter` at 1 when it has an owner (`1632-1637`), here a thread that the child does not have: the child's thread waits for ever when it exits |
| `Pthread!NoLostWakeup` | `Reckless = {"cancel"}`, `t1` calls cancel and exit | a thread that is cancelled asynchronously inside `pthread_cancel` leaves the mutex of its target locked (`449-460`) |

Others show as an exception in a property, or were seen while modelling:

- `thread.cc:928-930` says that while `unblock` works threads cannot leave, so that
  `releaseable` can only get higher. A thread that brought another mutex does leave
  (`957-962`); a broadcast then releases too few or none, and one signal too many stays in
  the semaphore. The accounting properties of `PthreadCond` except histories with `mixed`.
- `pthread_cond_destroy` deletes the object when `waiting` is zero (`thread.cc:2436`), though
  the last waiter may still have `mtx_out` to unlock.
- A cleanup handler runs with the object's mutex, of type normal, locked
  (`thread.cc:743`): one that calls `pthread_setcancelstate` waits for itself.
- The count a semaphore keeps for fork is changed after the call of the system and not
  together with it (`thread.cc:1690`).
- When a queue is stopped its workers leave without looking at the list again
  (`threaded_queue.cc`, worker_loop): requests still in it are dropped, although
  `cygserver.cc:765` then prints "All pending requests processed". `RequestsServed` excepts
  the stop.
- A fatal error of the transport is reported as "closing down" (`cygserver.cc:467`), but it
  ends the accepting loop only: the server goes on without one.
- A loop that stops itself asserts that `_hThread` is set (`threaded_queue.cc:344`), and
  `start` stores it after the thread runs. The assertion can fail (`AssertHandle`).
- `stop` kills the accepting thread anywhere; inside `add` it takes `_queue_lock` with it,
  the workers wait for it and stop never returns (`LockOrphaned`).
- A process that exits with code 259 is taken for one that runs (`process.cc:385`): it is
  never forgotten, and the submitter, whose wait returns at once, is kept busy.
  `EndedForgotten` is about the other exit codes.
- The server finds a segment by the index in a shmid and does not compare the sequence
  number (`cygserver_ipc.h:81`): a stale id reaches a newer segment. `ViewsAgree` is
  therefore stated by index.
- `ipc_int2ext` (`cygserver_ipc.h:60-68`) puts `OPEN_MAX + 3 * intid + subsys` below a sequence
  number that starts at bit 16, and SHMMNI is as large as IPCMNI (65536): from the index 21760 on
  the sum runs into the sequence number, `ipc_ext2int` finds another subsystem in the id and
  refuses it, and the segment that shmget has made can be neither attached nor removed by the id
  it returned. The model has such indices and so do the theorems: the segment is in `CountsExact`,
  and has no attachments.
- A thread cancelled in the wait of rdlock leaks the reader it had allocated
  (`thread.cc:1123`): `rdlock_cleanup` only counts it out.

The following hold in the instances at hand and are not repeated by a run, because they
follow from what the runs check or say less: the type invariants and `Pthread!LastOneExits`
(theorems as well); `PthreadRwlock!CountsExact`,
`SubProc!ZombiesFit` and `OnlyDeadReaped`, `Signals!NotLeftStopped` and `NoStaleCompletion`
(theorems as well); with one waiter, `SubProc!NoChildEndsWait`; `Signals!KillReturns` and, with
signals from other processes only, `PendingFlagHonest`.

### Bounds

Two or three threads suffice for the locks: the interesting cases need an owner, a waiter and a
newcomer. The tables hold two children and two zombies, so that they fill up. Two signals, a
lower and a higher, show the order in which the array is looked at; each is sent up to twice,
which is enough for a second one to arrive while the first is in hand; with job control SIGSTOP
is sent twice, SIGCONT and the other once (`MaxSent`), so that a stop comes before and after the
SIGCONT. The three threads of `Pthread` have roles (`MCCalls`), so that every pair of calls that
may meet on an object does: a thread that ends, one that cancels it, and one that joins or
detaches it; two cancels (`MaxCancel`) can suspend one thread twice, and one handler (`MaxPush`)
is on the stack when it happens. The threads of `rwlock` make three calls each (`MaxCalls`), and
states that differ only in what a call returned are taken for one (`VIEW`): no guard and no
property of the run looks at it. The queue has two requests (`MaxRequests`) for two workers, so
that one can wait in the list while a silent client keeps a worker; the safety theorems have no
bound on either. `subproc` has no stops (`MaxTodo = 0`), `subproc_live` has. The cache of
`cygserver` holds one process (`MaxProcesses`) and is asked for two, so that it is full; there
are two indices (`SHMMNI`), the second of which gives ids that cannot be found again (`IPCMNI =
4`), a segment can be made twice (`MaxSequence`), so that an index is used again, and there are
three calls (`MaxCalls`), enough to make a segment, attach it and remove or detach it while the
client ends. To attach a segment whose index was used before, by a client that still has the
older one, takes more calls: that is left to the theorems, which have no bound on them.
`MaxVisits`, `MaxRecursion`, `MaxCalls`, `MaxPending` and `MaxTodo` also bound counters the code
leaves unbounded; each is named in the module that uses it.

### Fairness

Weak fairness of every thread's own steps: Windows schedules every thread that can run. Not
assumed: that a program calls anything, that children exit, that other processes send, that a
timeout comes, that a semaphore prefers a particular waiter, or that a client of the cygserver
says or reads anything: a worker may stay in the untimed read of its pipe for ever, and
`StopReturns` and `RequestsServed` say of which workers they need that it does not
(`[]<>~Listens(w)`: all of them for the first, any one for the second). `MutoFairSpec` adds that
the event does not pass over the same waiter for ever, which Windows' FIFO wait queues give.
`CallingSpec` of `Signals` adds that the program goes on making calls, which delivery needs: a
signal put back is looked at when the program next calls `sig_dispatch_pending`. `PthreadCond`
and `ThreadedQueue` have strong fairness for a thread at a lock or a semaphore that is free
again and again, which the kernel's queues give. The clients of `SharedMemory` make finitely
many calls, so that weak fairness of the server's threads is enough there.

## Proofs

`MutoQueueProofs` on mutos, for any finite set of threads. `MutoTypeCorrect` is inductive by
itself. The other theorems assume that no thread times out (the run `muto_timeout` shows that
they fail otherwise) and rest on the invariant `MutoInv`: at most one thread is in charge of
`sync`, by having won the exchange, holding the lock, being on its way out, or being owed the
event; `waiters` is one less than the number of threads that have counted themselves, as a
cardinality of a set that each step changes by one element; and `tid` and `visits` describe the
thread in charge. Exclusion alone is not inductive: a waiter takes the event as ownership, so
one must know that the event is set only when nobody is in charge. `MutoIsLock` maps `held` to
the depth of `RecursiveLock` and shows that every step is a step or a stutter.

`PthreadMutexProofs`, for any finite set of threads and any bounds. `IInv` has the same
shape: `lock_counter` counts the owner, the waiters and the increments about to be taken
back; the semaphore, the unlocker on its way to post, and the owner exclude each other.
`TypeCorrect`, `MutexSafe`, `WakeupSafe`, `OwnerSafe` and `MutexIsLock` follow from it.

`PthreadRwlockProofs`, for any finite set of threads. Who is woken is decided by the counts
of waiting readers and writers, so `NoLostWakeup` needs them exact (`CountsExact`), which each
step changes by one element of a set; it is also strengthened to `SleepersCovered`, which
says for a sleeping writer or reader what will wake it, in every state between a wakeup
and the step of the thread that was woken. `DestroySafe` is about a destroy during which no
other thread uses the lock, which the code leaves to the program: `Deleting` says what destroy has
found out so far, and that it is still so unless `late`.

`PthreadCondProofs`, for any finite sets of waiters and signallers and any mutexes. `mtx_out`
has one holder, `mtx_in` is locked by a thread that counts itself or for a round of wakeups
(`OutHeld`, `InHeld`), and `waiting` and `condwaits` count exactly. A round is `Normal` when its
wakeups are in the semaphore or taken and not more than there are waiters (`Accounted`), when
everybody counted was there when they were sent (`RoundClosed`), when what `unblock` has found
is still so when it sends (`Found`), and when a thread that leaves without a wakeup left none
behind (`Without`). The one other state is `Stuck`: the only thread counted had brought another
mutex and is gone, the wakeup is sent to nobody and `mtx_in` stays shut, until a fork. So the
types hold in every history, and the accounting in those without a second mutex.

`MutoQueueProofs` on the queue, for any finite sets of workers and loops and any number of requests.
`Accounted`: until the stop, the semaphore, the workers just woken and the appends not yet
announced add up to the length of the list; so a worker that was woken finds a request. For
`QuietAfterStop` one needs that `_workers_count` is exact (`StaffExact`), that the owner comes by
every loop that runs (`StartOnce`, `RunningListed`), and that a loop that does not run is dead
or the one the owner waits for (`StoppedDead`).

`PthreadProofs`, for any finite set of threads, any sets of calls that they make and any bounds,
as long as the program is `Careful` (`Reckless = {}`): each way to be reckless breaks one of the
theorems, as the table above says, so none of the four rules can be dropped. What a step does to
a place and to the parts of an object is stated first, once per action (`LockEffect`, ...); most
actions then are quiet for most of the invariant (`Quiet`, `MutexQuiet`, `LifeQuiet`), and only
the others need an argument. The mutex of an object is a token: one thread inside it or on its
way to the semaphore, or the semaphore's one permit (`TokenUnique`, `SemaphoreFree`), and it
exists while `lock_counter` is positive (`TokenExists`). The counter is at least the number of
threads that have incremented it, not equal to it (`CounterCovers`): a thread torn out of the
call by asynchronous cancellation is counted for good. One that was torn out of the wait in the
kernel may also take the token with it, when that wait ends: the object is then `eaten`, its
token is gone for good, and `TokenExists` and `NoLostWakeup` except it. That a cancellation
costs nobody else a wakeup rests on `Uses` and `Suspends`: what is torn out of a call before the
kernel never holds the token, and a suspended thread goes on only when the last canceller has
resumed it. Who deletes an object is `Life`: while the program may use the id, nobody does, and
an object that is not joinable has its joiner on the way (`KnownKept`); afterwards it is the
detach still at it (`DetachComing`) or the thread itself, which then has not left its lock yet
(`DetachedLives`). It needs `running` exact (`RunningExact`), since detach decides by it.
`HandlersOnce` follows from `Handlers`, which speaks of the stack during exit too.
`PthreadTypeCorrect`, `PthreadLastOneExits` (with `threadcount` as a cardinality, `Counted`),
`PthreadObjectsInUse`, `PthreadHandlersOnce`, `PthreadNoLostWakeup` and `PthreadRecordsFreed`
follow.

`SubProcProofs`, for any children, waiting threads, arguments of `wait4` and sizes of the tables.
The scan of the queue is a loop that changes the queue it goes over; it is written as a
recursive function (`Turns`), of which the prover knows nothing by itself. So the module first
proves that `Turns` is what its recursion says (by induction over the natural numbers in a form
that speaks of a set, which the provers can use where the library's speaks of a predicate), then
what one turn keeps (`Keep`), then what a whole scan keeps. The invariant says who is in the
queue and why (`Queue`), what is in the two arrays (`Arrays`), that what `wait_subproc` waits for is
how the array of children begins (`Events`), that only a thread still in `wait4` has been told of
an end, which no other will be told of (`Reported`), and contains `FoundIsKept`, `OnlyDeadReaped`
and `ZombiesFit`. `EachChildOnce` and
`IndexStable` follow from it, `EchildHonest` is an action property. `ScanToCome` is proved for a
program whose main thread alone waits, which is where it holds: with several threads a scan may
pass one of them over.

`SignalsProofs`, for any signals with handlers, with or without job control, any senders and any
bounds. The heart of the invariant is an account of completions: while the main thread waits in
`sig_send` exactly one completion is coming, in the semaphore, in the catch object, in the flush
that was put off, or with the signal that `wait_sig` has in hand (`OwedMain`), and otherwise none;
the other threads have as many coming as there are who wait (`OwedNonmain`). `NoSignalLost`
alone is not inductive: that a handler which is entered is in `sigsave` and one which returns is on
the stack needs the steps that a call of `sig_dispatch_pending` can lead to (`Places`,
`Handlers`), and that `__SIGFLUSH` never gets in hand (`FlushLocal`). `Stopping` ties a stop in
`sigsave` to `stopped` and `sigCONT`. `KillDelivers` is proved for a process in which no other
thread sends signals (`KillReachesHandler`): `wait_sig` has the signal still before it
(`LocalOfMain`), and when it is done with it a handler is in `sigsave`, which is not entered
before the main thread is out of the kill (`Delivering`, `StopHeld`).

`CygserverProofs`, for any clients, threads, objects, limit and number of segments. In the cache a
worker passes from the cache's lock to the object's without a gap (`LookedUp`, `Held`); the
submitter unlinks only with the former and a cleanup begins only with the latter. That it unlinks
the right object rests on `OnePerProcess`, `Waited` and `Exited`; the assertions about the count
on `CountExact`. Every step of shared memory is a step of `ProcessCache` or leaves the cache
alone, for which the id in a segment must be one that a segment can have (`SegmentIds`); so the
invariants of the cache carry over. That an id is refused or gives back the index it was made of,
whatever the constants, is `Ext2IntInt2Ext`; `Identified` says it of the segments there are.

The theorems about the segments need sums over finite sets: that `Total` is the sum whatever the
order it is taken in, what it becomes when one value changes, and its bounds, are proved from the
definition of the fold. `Counts` is kept by every change of one segment (`Replaced`), from which
each call gets its effect on the attachments (`Effect`, `Still`). `Covered` strengthens
`AttachmentsCovered`: it speaks of all ids, those of segments that are gone included, because a
routine may outlive its segment and find, at the same index, a newer one with another id.
`Agreed` is `ViewsAgree`. It is inductive together with `Truly`, by which a running process has no
object but the one in the cache, and `Protocol`, by which a thread waits for what its request
asks: then a shmdt of a running process finds its attachment (`DetachFinds`), and is never
refused. `ShmCounts`, `ShmAttachments` and `ShmViews` follow.

Assumptions on the constants are the named ASSUMEs of the modules: finite sets of threads, of
children and of addresses, values that are not threads, children, signals or (`NoneAssumption`)
calls, limits that are natural numbers, and for the ids what the headers of cygserver say of
their constants (`IdAssumption`): `OPEN_MAX` is below `IPCMNI`, SHMMNI not above it, and three
does not divide it. It holds of the shipped values.

Every safety invariant, action property and refinement that a passing run checks is a theorem
as well. Only model-checked: what is shown not to hold, and all liveness (`AcquireSucceeds`,
`NewcomersEnter`, `BroadcastWakes`, `DeadChildEndsWait`, `StoppedChildEndsWait`, `SentHandled`,
`ContinueResumes`, `StopReturns`, `RequestsServed`, `EndedForgotten`), which is outside the prover.

## Not modelled

`PROJECT.json` lists every part with the reason. In short: paths, security, devices, network,
time, locale, the utilities and the C library wrappers translate data and have no protocol;
bz2lib, mingw, w32api, regex and malloc are third-party code or headers and make up most of
the lines. Of the parts with a protocol, fork and spawn, pinfo, the descriptor table,
pipes, terminals, select, mmap, cygheap, semaphores, keys, once, atfork, cygthread and the
delete queue are left for later, in the order of the plan.

## Plan

1. Done: mutos, mutexes, conditions, read-write locks, the life of threads, children,
   signals; the queue, the process cache and the shared memory of cygserver; theorems about
   all of them.
2. Semaphores, keys, once and atfork, `cygthread`, the delete queue; init and destruction of
   conditions; `sa_mask`, `SA_RESTART` and the exit path of signals.
3. The descriptor table, pipes, terminals, mmap's bitmaps, `cygheap`, the fork handshake.
