---------------------------- MODULE PthreadMutex ----------------------------
(***************************************************************************)
(* The pthread_mutex of winsup/cygwin/thread.cc and thread.h: one mutex    *)
(* variable, used by the threads of a process through pthread_mutex_init,  *)
(* _lock, _trylock, _unlock and _destroy, and what fork makes of it in the *)
(* child.                                                                  *)
(*                                                                         *)
(* The variable may start as PTHREAD_MUTEX_INITIALIZER, in which case the  *)
(* first call creates the object.  Each Interlocked call and each          *)
(* semaphore call is a step; set_owner is one step, because nobody but the *)
(* new owner acts on owner or recursion_counter between its two stores.    *)
(*                                                                         *)
(* Left to the caller, as POSIX does: a mutex is not initialized or        *)
(* destroyed while another thread is inside a call on it, and a NORMAL     *)
(* mutex is unlocked only by the thread that locked it.  condwaits belongs *)
(* to PthreadCond.                                                         *)
(***************************************************************************)
EXTENDS Integers, FiniteSets

CONSTANTS
  Thread,         \* the threads of the process
  Types,          \* the mutex types pthread_mutex_init is called with
  MaxRecursion,   \* UINT_MAX, the largest recursion_counter
  NoOwner,        \* owner == NULL
  Anonymous       \* MUTEX_OWNER_ANONYMOUS

ASSUME ThreadAssumption ==
  /\ IsFiniteSet(Thread)
  /\ NoOwner \notin Thread
  /\ Anonymous \notin Thread
  /\ NoOwner # Anonymous

ASSUME TypesAssumption == Types \subseteq {"recursive", "errorcheck", "normal"}

ASSUME RecursionAssumption == MaxRecursion \in Nat \ {0}

VARIABLES
  mutex,              \* *mutex: "static", "null", "object", or "bad": an object whose
                      \* constructor failed
  type,
  lock_counter,
  recursion_counter,
  owner,
  semaphore,          \* the count of win32_obj_id
  pc,                 \* where each thread is; "dead" in a forked child
  op,                 \* the call each thread is making
  held,               \* locks each thread has taken and not given back
  ret                 \* what the last call of each thread returned

vars == <<mutex, type, lock_counter, recursion_counter, owner, semaphore,
          pc, op, held, ret>>
object == <<type, lock_counter, recursion_counter, owner, semaphore>>

Calls == {"lock", "trylock", "unlock"}
Codes == {"OK", "EBUSY", "EINVAL", "EAGAIN", "EDEADLK", "EPERM"}
Steps ==
  Calls \cup {"idle", "test", "init", "fail", "valid", "nested", "wait", "own", "clear",
             "dec", "post", "dead", "lost"}

\* get_pthread_self
Self(t) == IF type = "normal" THEN Anonymous ELSE t

Goto(t, step) == pc' = [pc EXCEPT ![t] = step]
Return(t, code) == Goto(t, "idle") /\ ret' = [ret EXCEPT ![t] = code]

OthersOutside(t) == \A u \in Thread \ {t} : pc[u] \in {"idle", "dead"}

\* The constructor, with the type asked for
Construct(ty) ==
  /\ type' = ty
  /\ lock_counter' = 0
  /\ recursion_counter' = 0
  /\ owner' = NoOwner
  /\ semaphore' = 0

Init ==
  /\ mutex \in {"static", "null"}
  /\ type = "errorcheck"
  /\ lock_counter = 0
  /\ recursion_counter = 0
  /\ owner = NoOwner
  /\ semaphore = 0
  /\ pc = [t \in Thread |-> "idle"]
  /\ op = [t \in Thread |-> "lock"]
  /\ held = [t \in Thread |-> 0]
  /\ ret = [t \in Thread |-> "OK"]

-----------------------------------------------------------------------------
(* pthread_mutex_init and the static initializer *)

\* pthread_mutex_init called by the program; the constructor fails if there is
\* no semaphore to be had, or the mutex was to be shared between processes.
UserInit(t, ty) ==
  /\ pc[t] = "idle"
  /\ OthersOutside(t)
  /\ \/ mutex = "object" /\ Return(t, "EBUSY") /\ UNCHANGED <<mutex, object>>
     \/ mutex # "object" /\ mutex' = "object" /\ Construct(ty) /\ Return(t, "OK")
     \/ mutex # "object" /\ mutex' = "null" /\ Return(t, "EAGAIN") /\ UNCHANGED object
  /\ UNCHANGED <<op, held>>

\* A call finds the variable invalid, statically initialized, or an object; lock
\* tests a second time for the initializer.
Call(t, o) ==
  /\ pc[t] = "idle"
  /\ o = "unlock" /\ mutex = "object" /\ type = "normal" => held[t] > 0
  /\ op' = [op EXCEPT ![t] = o]
  /\ \/ mutex \in {"null", "bad"} /\ Return(t, "EINVAL")
     \/ mutex = "static" /\ Goto(t, IF o = "lock" THEN "test" ELSE "init") /\ UNCHANGED ret
     \/ mutex = "object" /\ Goto(t, o) /\ UNCHANGED ret
  /\ UNCHANGED <<mutex, object, held>>

\* The second test of lock: if another thread has got rid of the initializer, the
\* pointer is used as it is.  It is NULL, or points to what is about to be deleted,
\* when that thread could not make an object; the caller is then lost.
Test(t) ==
  /\ pc[t] = "test"
  /\ Goto(t, CASE mutex = "static" -> "init" [] mutex = "object" -> "lock" [] OTHER -> "lost")
  /\ UNCHANGED <<mutex, object, op, held, ret>>

\* pthread_mutex::init (mutex, NULL) under mutex_initialization_lock: whoever
\* comes second finds an object and uses it, and makes one if the first failed.
StaticInit(t) ==
  /\ pc[t] = "init"
  /\ \A u \in Thread : pc[u] # "fail"
  /\ \/ /\ mutex = "object"
        /\ Goto(t, op[t])
        /\ UNCHANGED <<mutex, object>>
     \/ /\ mutex # "object"
        /\ mutex' = "object" /\ Construct("errorcheck")
        /\ Goto(t, op[t])
     \/ /\ mutex # "object"
        /\ mutex' = "bad"
        /\ Goto(t, "fail")
        /\ UNCHANGED object
  /\ UNCHANGED <<op, held, ret>>

\* CreateSemaphore failed: the object, which *mutex names already, is deleted and
\* the variable becomes NULL; trylock and unlock look at it once more.
StaticInitFails(t) ==
  /\ pc[t] = "fail"
  /\ mutex' = "null"
  /\ \/ op[t] = "lock" /\ Return(t, "EAGAIN")
     \/ op[t] # "lock" /\ Goto(t, "valid") /\ UNCHANGED ret
  /\ UNCHANGED <<object, op, held>>

\* is_good_object
Valid(t) ==
  /\ pc[t] = "valid"
  /\ \/ mutex = "object" /\ Goto(t, op[t]) /\ UNCHANGED ret
     \/ mutex # "object" /\ Return(t, "EINVAL")
  /\ UNCHANGED <<mutex, object, op, held>>

-----------------------------------------------------------------------------
(* pthread_mutex::_lock and _trylock *)

\* InterlockedIncrement (&lock_counter)
Lock(t) ==
  /\ pc[t] = "lock"
  /\ lock_counter' = lock_counter + 1
  /\ \/ lock_counter = 0 /\ Goto(t, "own")
     \/ lock_counter # 0 /\ type # "normal" /\ owner = t /\ Goto(t, "nested")
     \/ lock_counter # 0 /\ (type = "normal" \/ owner # t) /\ Goto(t, "wait")
  /\ UNCHANGED <<mutex, type, recursion_counter, owner, semaphore, op, held, ret>>

\* set_owner (self)
Own(t) ==
  /\ pc[t] = "own"
  /\ recursion_counter' = 1
  /\ owner' = Self(t)
  /\ held' = [held EXCEPT ![t] = @ + 1]
  /\ Return(t, "OK")
  /\ UNCHANGED <<mutex, type, lock_counter, semaphore, op>>

\* lock_recursive, or the errors for a relock that cannot be granted
LockRecursive(t) ==
  \/ /\ type = "recursive" /\ recursion_counter < MaxRecursion
     /\ recursion_counter' = recursion_counter + 1
     /\ held' = [held EXCEPT ![t] = @ + 1]
     /\ Return(t, "OK")
  \/ /\ type = "recursive" /\ recursion_counter = MaxRecursion
     /\ Return(t, "EAGAIN")
     /\ UNCHANGED <<recursion_counter, held>>
  \/ /\ type = "errorcheck"
     /\ Return(t, "EDEADLK")
     /\ UNCHANGED <<recursion_counter, held>>

\* The owner came back: it takes its increment back first.
Nested(t) ==
  /\ pc[t] = "nested"
  /\ lock_counter' = lock_counter - 1
  /\ LockRecursive(t)
  /\ UNCHANGED <<mutex, type, owner, semaphore, op>>

\* WaitForSingleObject (win32_obj_id, INFINITE)
Wait(t) ==
  /\ pc[t] = "wait"
  /\ semaphore > 0
  /\ semaphore' = semaphore - 1
  /\ Goto(t, "own")
  /\ UNCHANGED <<mutex, type, lock_counter, recursion_counter, owner, op, held, ret>>

\* InterlockedCompareExchange (&lock_counter, 1, 0)
Trylock(t) ==
  /\ pc[t] = "trylock"
  /\ \/ /\ lock_counter = 0
        /\ lock_counter' = 1
        /\ Goto(t, "own")
        /\ UNCHANGED <<recursion_counter, held, ret>>
     \/ /\ lock_counter # 0 /\ type = "recursive" /\ owner = t
        /\ LockRecursive(t)
        /\ UNCHANGED lock_counter
     \/ /\ lock_counter # 0 /\ ~(type = "recursive" /\ owner = t)
        /\ Return(t, "EBUSY")
        /\ UNCHANGED <<lock_counter, recursion_counter, held>>
  /\ UNCHANGED <<mutex, type, owner, semaphore, op>>

-----------------------------------------------------------------------------
(* pthread_mutex::_unlock *)

UnlockRefused(t) ==
  /\ pc[t] = "unlock"
  /\ owner # Self(t)
  /\ Return(t, "EPERM")
  /\ UNCHANGED <<mutex, object, op, held>>

\* Mutant: the owner is not checked.
UnlockUnchecked(t) ==
  /\ pc[t] = "unlock"
  /\ recursion_counter' = recursion_counter - 1
  /\ \/ /\ recursion_counter = 1
        /\ Goto(t, "clear")
        /\ UNCHANGED <<held, ret>>
     \/ /\ recursion_counter # 1
        /\ held' = [held EXCEPT ![t] = IF @ = 0 THEN 0 ELSE @ - 1]
        /\ Return(t, "OK")
  /\ UNCHANGED <<mutex, type, lock_counter, owner, semaphore, op>>

\* if (--recursion_counter == 0) ...
Unlock(t) ==
  /\ pc[t] = "unlock"
  /\ owner = Self(t)
  /\ recursion_counter' = recursion_counter - 1
  /\ \/ /\ recursion_counter = 1
        /\ Goto(t, "clear")
        /\ UNCHANGED <<held, ret>>
     \/ /\ recursion_counter # 1
        /\ held' = [held EXCEPT ![t] = IF @ = 0 THEN 0 ELSE @ - 1]
        /\ Return(t, "OK")
  /\ UNCHANGED <<mutex, type, lock_counter, owner, semaphore, op>>

\* ... owner = NULL
Clear(t) ==
  /\ pc[t] = "clear"
  /\ owner' = NoOwner
  /\ held' = [held EXCEPT ![t] = IF @ = 0 THEN 0 ELSE @ - 1]
  /\ Goto(t, "dec")
  /\ ret' = [ret EXCEPT ![t] = "OK"]
  /\ UNCHANGED <<mutex, type, lock_counter, recursion_counter, semaphore, op>>

\* Mutant: the semaphore is released only for a second waiter.
DecOffByOne(t) ==
  /\ pc[t] = "dec"
  /\ lock_counter' = lock_counter - 1
  /\ Goto(t, IF lock_counter > 2 THEN "post" ELSE "idle")
  /\ UNCHANGED <<mutex, type, recursion_counter, owner, semaphore, op, held, ret>>

\* if (InterlockedDecrement (&lock_counter))
Dec(t) ==
  /\ pc[t] = "dec"
  /\ lock_counter' = lock_counter - 1
  /\ Goto(t, IF lock_counter # 1 THEN "post" ELSE "idle")
  /\ UNCHANGED <<mutex, type, recursion_counter, owner, semaphore, op, held, ret>>

\* ReleaseSemaphore (win32_obj_id, 1, NULL)
Post(t) ==
  /\ pc[t] = "post"
  /\ semaphore' = semaphore + 1
  /\ Goto(t, "idle")
  /\ UNCHANGED <<mutex, type, lock_counter, recursion_counter, owner, op, held, ret>>

-----------------------------------------------------------------------------
(* pthread_mutex_destroy, with its _trylock, and fork *)

\* A locked mutex is refused: _trylock fails, or it nests and the nesting is
\* taken back.  The caller sees to it that nobody else is inside a call.
Destroy(t) ==
  /\ pc[t] = "idle"
  /\ OthersOutside(t)
  /\ \/ /\ mutex = "object" /\ lock_counter = 0
        /\ mutex' = "null"
        /\ Return(t, "OK")
     \/ /\ mutex = "object" /\ lock_counter # 0
        /\ Return(t, "EBUSY")
        /\ UNCHANGED mutex
     \/ /\ mutex # "object"
        /\ Return(t, IF mutex = "static" THEN "OK" ELSE "EINVAL")
        /\ UNCHANGED mutex
  /\ UNCHANGED <<object, op, held>>

\* fork by t: the other threads are gone in the child, wherever they were, and
\* _fixup_after_fork repairs the counter and makes a new semaphore.
Fork(t) ==
  /\ pc[t] = "idle"
  /\ mutex = "object"
  /\ \A u \in Thread : pc[u] # "dead"
  /\ lock_counter' = IF owner = NoOwner THEN 0
                     ELSE IF lock_counter # 0 THEN 1 ELSE lock_counter
  /\ semaphore' = 0
  /\ pc' = [u \in Thread |-> IF u = t THEN "idle" ELSE "dead"]
  /\ UNCHANGED <<mutex, type, recursion_counter, owner, op, held, ret>>

-----------------------------------------------------------------------------
(* The specification *)

LockStep(t) ==
  \/ Lock(t) \/ Own(t) \/ Nested(t) \/ Wait(t) \/ Trylock(t)

UnlockStep(t) == UnlockRefused(t) \/ Unlock(t) \/ Clear(t) \/ Dec(t) \/ Post(t)

InitStep(t) == Test(t) \/ StaticInit(t) \/ StaticInitFails(t) \/ Valid(t)

Next ==
  \E t \in Thread :
    \/ \E ty \in Types : UserInit(t, ty)
    \/ \E o \in Calls : Call(t, o)
    \/ InitStep(t) \/ LockStep(t) \/ UnlockStep(t)
    \/ Destroy(t) \/ Fork(t)

Spec == Init /\ [][Next]_vars

-----------------------------------------------------------------------------
TypeOK ==
  /\ mutex \in {"static", "null", "object", "bad"}
  /\ type \in {"recursive", "errorcheck", "normal"}
  /\ lock_counter \in Nat
  /\ recursion_counter \in 0 .. MaxRecursion
  /\ owner \in Thread \cup {NoOwner, Anonymous}
  /\ semaphore \in Nat
  /\ pc \in [Thread -> Steps]
  /\ op \in [Thread -> Calls]
  /\ held \in [Thread -> Nat]
  /\ ret \in [Thread -> Codes]

\* A thread owns the mutex from the moment its increment (or the semaphore)
\* gives it the mutex until its own decrement.
Owns(t) == held[t] > 0 \/ pc[t] \in {"own", "dec"}

\* Two threads never own the mutex together, not even when several calls race
\* to create the object of a static initializer.
MutualExclusion == \A s, t \in Thread : Owns(s) /\ Owns(t) => s = t

\* The increments of lock_counter not yet taken back: one per owner, waiter
\* and nested call that is still on its way.
Increments ==
  Cardinality({t \in Thread : Owns(t)})
  + Cardinality({t \in Thread : pc[t] \in {"wait", "nested"}})

\* lock_counter is exact, in a forked child too: unlock releases the semaphore
\* if and only if somebody waits, and trylock and destroy see a lock exactly
\* when there is one.
CounterExact == lock_counter = Increments

\* No lost wakeup: while a thread blocks on the semaphore, the semaphore is
\* available, or about to be released, or the mutex has an owner.
NoLostWakeup ==
  (\E t \in Thread : pc[t] = "wait") =>
    \/ semaphore > 0
    \/ \E t \in Thread : Owns(t) \/ pc[t] = "post"

\* owner and recursion_counter describe the holder, so that its unlocks are
\* neither refused nor early; in a forked child a mutex whose holder did not
\* survive stays locked, though it may have been about to give up the ownership.
OwnerRecorded ==
  \A t \in Thread :
    held[t] > 0 =>
      /\ owner = Self(t)
      /\ \/ recursion_counter = held[t]
         \/ recursion_counter = 0 /\ held[t] = 1 /\ pc[t] \in {"clear", "dead"}

\* pthread_mutex::_destroy: "Do not destroy a condwaited or locked mutex".
DestroyedUnlocked == mutex # "object" => \A t \in Thread : ~Owns(t)

\* "If it's been initialized while we waited, we can just attempt to lock it"
\* (thread.cc:2897).  It is not so when the initialization has failed.
InitializedWhileWaiting == \A t \in Thread : pc[t] # "lost"

\* What a pthread mutex of any type promises: a (recursive) lock.
AbstractLock == INSTANCE RecursiveLock WITH depth <- held
ImplementsLock == AbstractLock!Spec

=============================================================================
