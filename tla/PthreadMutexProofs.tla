------------------------- MODULE PthreadMutexProofs -------------------------
(***************************************************************************)
(* What TLAPS proves of pthread_mutex for any number of threads, any set   *)
(* of types and any recursion limit, a fork at any moment included.        *)
(*                                                                         *)
(* As for the muto, the heart of the invariant is that there is one token: *)
(* an owner, a thread about to release the semaphore, or the semaphore's   *)
(* count.  It exists exactly while lock_counter is not 0.                  *)
(***************************************************************************)
EXTENDS PthreadMutex, FiniteSetTheorems, TLAPS

Token(t) == Owns(t) \/ pc[t] = "post"

TokenUnique ==
  /\ \A s, t \in Thread : Token(s) /\ Token(t) => s = t
  /\ semaphore \in {0, 1}
  /\ semaphore = 1 => \A t \in Thread : ~Token(t)

\* A semaphore count is on its way only while somebody counts on it.
WakeupWanted ==
  semaphore = 1 \/ (\E t \in Thread : pc[t] = "post") => lock_counter > 0

TokenExists ==
  lock_counter > 0 => semaphore = 1 \/ \E t \in Thread : Token(t)

\* A thread that is taking or giving up the mutex holds nothing yet or any more.
NotYetHeld ==
  \A t \in Thread : pc[t] \in {"own", "dec", "post"} => held[t] = 0

\* A thread that gives up its last hold still has it.
LastHeld ==
  \A t \in Thread : pc[t] = "clear" => held[t] = 1 /\ recursion_counter = 0

\* owner names a holder.
OwnerHolds ==
  /\ owner \in Thread => type # "normal" /\ held[owner] > 0
  /\ owner = Anonymous => type = "normal" /\ \E t \in Thread : held[t] > 0

\* Only a lock that found its caller in owner nests.
NestedHolds ==
  \A t \in Thread : pc[t] = "nested" => owner = t /\ type # "normal"

\* Before a thread uses the object
Outside == {"idle", "dead", "lost", "test", "init", "fail", "valid"}

\* A thread past the validity check uses an object, one that met the static
\* initializer gets the default type, and a NORMAL mutex is unlocked by its holder.
InsideObject ==
  \A t \in Thread :
    /\ pc[t] \notin Outside => mutex = "object"
    /\ pc[t] \in {"test", "init", "valid"} /\ mutex = "object" => type = "errorcheck"
    /\ pc[t] = "unlock" /\ type = "normal" => held[t] > 0

\* mutex_initialization_lock is held by the one that fails.
FailsAlone ==
  /\ \A t \in Thread : pc[t] = "fail" => mutex = "bad" /\ op[t] \in Calls
  /\ \A s, t \in Thread : pc[s] = "fail" /\ pc[t] = "fail" => s = t

Core ==
  /\ TokenUnique
  /\ WakeupWanted
  /\ TokenExists
  /\ NotYetHeld
  /\ LastHeld
  /\ OwnerHolds
  /\ NestedHolds
  /\ InsideObject
  /\ FailsAlone
  /\ OwnerRecorded
  /\ DestroyedUnlocked

IInv == TypeOK /\ Core /\ CounterExact

ThreadStep(t) ==
  \/ \E ty \in Types : UserInit(t, ty)
  \/ \E o \in Calls : Call(t, o)
  \/ InitStep(t) \/ LockStep(t) \/ UnlockStep(t)
  \/ Destroy(t) \/ Fork(t)

-----------------------------------------------------------------------------

\* The two sets that lock_counter counts.
Owners == {t \in Thread : Owns(t)}
Blocked == {t \in Thread : pc[t] \in {"wait", "nested"}}

LEMMA FiniteSides ==
  /\ IsFiniteSet(Owners) /\ Cardinality(Owners) \in Nat
  /\ IsFiniteSet(Blocked) /\ Cardinality(Blocked) \in Nat
<1>1. IsFiniteSet(Owners) /\ IsFiniteSet(Blocked)
  BY ThreadAssumption, FS_Subset DEF Owners, Blocked
<1>2. QED
  BY <1>1, FS_CardinalityType

\* lock_counter is 0 exactly when nobody owns the mutex or waits for it.
LEMMA CounterZero ==
  ASSUME CounterExact
  PROVE  /\ lock_counter \in Nat
         /\ lock_counter = 0 =>
              \A t \in Thread : ~Owns(t) /\ pc[t] \notin {"wait", "nested"}
<1>1. lock_counter = Cardinality(Owners) + Cardinality(Blocked)
  BY DEF CounterExact, Increments, Owners, Blocked
<1>2. ASSUME lock_counter = 0
      PROVE  Owners = {} /\ Blocked = {}
  <2>1. Cardinality(Owners) = 0 /\ Cardinality(Blocked) = 0
    BY <1>1, <1>2, FiniteSides
  <2>2. QED
    BY <2>1, FiniteSides, FS_EmptySet
<1>3. QED
  BY <1>1, <1>2, FiniteSides DEF Owners, Blocked

\* Every step of a thread keeps the fields within their types; that the
\* counters do not underflow rests on OwnerRecorded and CounterExact.
LEMMA TypeStep ==
  ASSUME IInv, NEW t \in Thread, ThreadStep(t)
  PROVE  TypeOK'
<1> USE ThreadAssumption, RecursionAssumption, CounterZero
   
       DEF IInv, TypeOK, Core, Steps, Calls, Codes, Goto, object, Self,
           OwnerRecorded, OwnerHolds
<1>1. CASE \E ty \in Types : UserInit(t, ty)
  BY <1>1, TypesAssumption DEF UserInit, Construct, Return, OthersOutside
<1>2. CASE \E o \in Calls : Call(t, o)
  BY <1>2 DEF Call, Calls, Return
<1>3. CASE StaticInit(t)
  BY <1>3 DEF StaticInit, Construct
<1>4. CASE StaticInitFails(t)
  BY <1>4 DEF StaticInitFails, Return
<1>5. CASE Lock(t)
  BY <1>5 DEF Lock
<1>6. CASE Own(t)
  BY <1>6 DEF Own, Return
<1>7. CASE Nested(t)
  BY <1>7 DEF Nested, LockRecursive, Return
<1>8. CASE Wait(t)
  BY <1>8 DEF Wait
<1>9. CASE Trylock(t)
  BY <1>9 DEF Trylock, LockRecursive, Return
<1>10. CASE UnlockRefused(t)
  BY <1>10 DEF UnlockRefused, Return
<1>11. CASE Unlock(t)
  <2>1. recursion_counter \in 1 .. MaxRecursion
    BY <1>11 DEF Unlock, InsideObject
  <2>2. QED
    BY <1>11, <2>1 DEF Unlock, Return
<1>12. CASE Dec(t)
  BY <1>12 DEF Dec, Owns
<1>13. CASE Post(t)
  BY <1>13 DEF Post
<1>14. CASE Destroy(t)
  BY <1>14 DEF Destroy, Return, OthersOutside
<1>15. CASE Fork(t)
  BY <1>15 DEF Fork
<1>16. CASE Test(t)
  BY <1>16 DEF Test
<1>17. CASE Valid(t)
  BY <1>17 DEF Valid, Return, Calls
<1>18. CASE Clear(t)
  BY <1>18 DEF Clear
<1>19. QED
  BY <1>1, <1>2, <1>3, <1>4, <1>5, <1>6, <1>7, <1>8, <1>9, <1>10, <1>11, <1>12, <1>13,
     <1>14, <1>15, <1>16, <1>17, <1>18
     DEF ThreadStep, InitStep, LockStep, UnlockStep

\* Every step of a thread keeps the part of the invariant that is not about
\* counting (thread.cc, pthread_mutex::_lock to _fixup_after_fork).
LEMMA CoreStep ==
  ASSUME IInv, NEW t \in Thread, ThreadStep(t)
  PROVE  Core'
<1> USE ThreadAssumption, RecursionAssumption, CounterZero
    DEF IInv, TypeOK, Core, TokenUnique, WakeupWanted, TokenExists, NotYetHeld,
        OwnerHolds, NestedHolds, InsideObject, Outside, FailsAlone, LastHeld, OwnerRecorded, DestroyedUnlocked,
        Token, Owns, Goto, object, Self
<1>1. CASE \E ty \in Types : UserInit(t, ty)
  BY <1>1, TypesAssumption DEF UserInit, Construct, Return, OthersOutside
<1>2. CASE \E o \in Calls : Call(t, o)
  BY <1>2 DEF Call, Calls, Return
<1>3. CASE StaticInit(t)
  BY <1>3 DEF StaticInit, Construct, Calls
<1>4. CASE StaticInitFails(t)
  BY <1>4 DEF StaticInitFails, Return
<1>5. CASE Lock(t)
  BY <1>5 DEF Lock
<1>6. CASE Own(t)
  BY <1>6 DEF Own, Return
<1>7. CASE Nested(t)
  BY <1>7 DEF Nested, LockRecursive, Return
<1>8. CASE Wait(t)
  BY <1>8 DEF Wait
<1>9. CASE Trylock(t)
  BY <1>9 DEF Trylock, LockRecursive, Return
<1>10. CASE UnlockRefused(t)
  BY <1>10 DEF UnlockRefused, Return
<1>11. CASE Unlock(t)
  BY <1>11 DEF Unlock, Return
<1>12. CASE Dec(t)
  BY <1>12 DEF Dec
<1>13. CASE Post(t)
  BY <1>13 DEF Post
<1>14. CASE Destroy(t)
  BY <1>14 DEF Destroy, Return, OthersOutside
<1>15. CASE Fork(t)
  BY <1>15 DEF Fork
<1>16. CASE Test(t)
  BY <1>16 DEF Test
<1>17. CASE Valid(t)
  BY <1>17 DEF Valid, Return, Calls
<1>18. CASE Clear(t)
  BY <1>18 DEF Clear
<1>19. QED
  BY <1>1, <1>2, <1>3, <1>4, <1>5, <1>6, <1>7, <1>8, <1>9, <1>10, <1>11, <1>12, <1>13,
     <1>14, <1>15, <1>16, <1>17, <1>18
     DEF ThreadStep, InitStep, LockStep, UnlockStep

\* lock_counter stays exact through every step, fork included.
LEMMA CountStep ==
  ASSUME IInv, NEW t \in Thread, ThreadStep(t)
  PROVE  CounterExact'
<1> DEFINE A == Cardinality(Owners)
           B == Cardinality(Blocked)
<1>1. /\ lock_counter = A + B /\ A \in Nat /\ B \in Nat
      /\ IsFiniteSet(Owners) /\ IsFiniteSet(Blocked)
  BY FiniteSides DEF IInv, CounterExact, Increments, Owners, Blocked
<1>2. SUFFICES lock_counter' = A' + B'
  BY DEF CounterExact, Increments, Owners, Blocked
<1>3. lock_counter = 0 => Owners = {} /\ Blocked = {}
  BY CounterZero DEF IInv, Owners, Blocked
<1>4. ASSUME lock_counter' = 0, Owners' = {}, Blocked' = {}
      PROVE  lock_counter' = A' + B'
  BY <1>4, FS_EmptySet
<1>5. ASSUME Owners' = Owners, Blocked' = Blocked, lock_counter' = lock_counter
      PROVE  lock_counter' = A' + B'
  BY <1>1, <1>5
<1>6. CASE Lock(t) /\ lock_counter = 0
  <2>1. t \notin Owners /\ Owners' = Owners \cup {t} /\ Blocked' = Blocked
    BY <1>3, <1>6 DEF IInv, TypeOK, Core, Goto, object, Owns, Owners, Blocked, Lock
  <2>2. A' = A + 1 /\ B' = B
    BY <1>1, <2>1, FS_AddElement
  <2>3. QED
    BY <1>1, <1>6, <2>2 DEF Lock
<1>7. CASE Lock(t) /\ lock_counter # 0
  <2>1. t \notin Blocked /\ Blocked' = Blocked \cup {t} /\ Owners' = Owners
    BY <1>7 DEF IInv, TypeOK, Core, Goto, object, Owns, Owners, Blocked, Lock
  <2>2. A' = A /\ B' = B + 1
    BY <1>1, <2>1, FS_AddElement
  <2>3. QED
    BY <1>1, <1>7, <2>2 DEF Lock
<1>8. CASE Nested(t)
  <2>1. t \in Blocked /\ Blocked' = Blocked \ {t} /\ Owners' = Owners
    BY <1>8
       DEF IInv, TypeOK, Core, Goto, object, Owns, Owners, Blocked, Nested,
           LockRecursive, Return, NestedHolds, OwnerHolds
  <2>2. A' = A /\ B' = B - 1
    BY <1>1, <2>1, FS_RemoveElement
  <2>3. QED
    BY <1>1, <1>8, <2>2 DEF Nested
<1>9. CASE Wait(t)
  <2>1. /\ t \in Blocked /\ Blocked' = Blocked \ {t}
        /\ t \notin Owners /\ Owners' = Owners \cup {t}
    BY <1>9
       DEF IInv, TypeOK, Core, Goto, object, Owns, Owners, Blocked, Wait,
           TokenUnique, Token
  <2>2. A' = A + 1 /\ B' = B - 1
    BY <1>1, <2>1, FS_RemoveElement, FS_AddElement
  <2>3. QED
    BY <1>1, <1>9, <2>2 DEF Wait
<1>10. CASE Trylock(t) /\ lock_counter = 0
  <2>1. t \notin Owners /\ Owners' = Owners \cup {t} /\ Blocked' = Blocked
    BY <1>3, <1>10
       DEF IInv, TypeOK, Core, Goto, object, Owns, Owners, Blocked, Trylock
  <2>2. A' = A + 1 /\ B' = B
    BY <1>1, <2>1, FS_AddElement
  <2>3. QED
    BY <1>1, <1>10, <2>2 DEF Trylock
<1>11. CASE Trylock(t) /\ lock_counter # 0
  BY <1>5, <1>11
     DEF IInv, TypeOK, Core, Goto, object, Owns, Owners, Blocked, Trylock,
         LockRecursive, Return, OwnerHolds
<1>12. CASE Dec(t)
  <2>1. t \in Owners /\ Owners' = Owners \ {t} /\ Blocked' = Blocked
    BY <1>12
       DEF IInv, TypeOK, Core, Goto, object, Owns, Owners, Blocked, Dec,
           NotYetHeld
  <2>2. A' = A - 1 /\ B' = B
    BY <1>1, <2>1, FS_RemoveElement
  <2>3. QED
    BY <1>1, <1>12, <2>2 DEF Dec
<1>13. CASE Unlock(t)
  <2>1. held[t] > 0 /\ recursion_counter = held[t]
    BY <1>13, ThreadAssumption
       DEF IInv, TypeOK, Core, Unlock, Self, OwnerHolds, OwnerRecorded, InsideObject, LastHeld
  <2>2. QED
    BY <1>5, <1>13, <2>1 DEF IInv, TypeOK, Goto, Return, Owns, Unlock, Owners, Blocked
<1>14. CASE Fork(t)
  <2>1. CASE owner = NoOwner
    <3>1. \A u \in Thread : held[u] = 0
      BY <2>1, ThreadAssumption DEF IInv, TypeOK, Core, OwnerRecorded, Self
    <3>2. QED
      BY <1>4, <1>14, <2>1, <3>1 DEF IInv, TypeOK, Owns, Fork, Owners, Blocked
  <2>2. CASE owner # NoOwner
    <3>1. PICK u \in Thread : held[u] > 0
      BY <2>2 DEF IInv, TypeOK, Core, OwnerHolds
    <3>2. Owners' = {u} /\ Blocked' = {}
      BY <1>14, <3>1
         DEF IInv, TypeOK, Core, Goto, object, Owns, Owners, Blocked, Fork,
             TokenUnique, Token
    <3>3. lock_counter # 0
      BY <1>3, <3>1 DEF Owners, Owns
    <3>4. A' = 1 /\ B' = 0
      BY <3>2, FS_EmptySet, FS_Singleton
    <3>5. QED
      BY <1>14, <2>2, <3>3, <3>4 DEF Fork
  <2>3. QED
    BY <2>1, <2>2
<1>15. CASE \/ \E ty \in Types : UserInit(t, ty)
            \/ StaticInit(t) /\ mutex' # "bad"
  <2>1. CASE mutex = "object" \/ mutex' = "null"
    BY <1>5, <1>15, <2>1
       DEF IInv, TypeOK, Core, Goto, object, Owns, Owners, Blocked, UserInit,
           StaticInit, Return, Calls
  <2>2. CASE mutex # "object" /\ mutex' # "null"
    <3>1. Owners' = {} /\ Blocked' = {} /\ lock_counter' = 0
      BY <1>15, <2>2
         DEF IInv, TypeOK, Core, Goto, object, Owns, Owners, Blocked, UserInit,
             StaticInit, Return, Construct, Calls,
             DestroyedUnlocked, InsideObject, Outside, FailsAlone
    <3>2. QED
      BY <1>4, <3>1
  <2>3. QED
    BY <2>1, <2>2
<1>16. CASE \/ \E o \in Calls : Call(t, o)
            \/ StaticInit(t) /\ mutex' = "bad"
            \/ StaticInitFails(t) \/ Test(t) \/ Valid(t) \/ Clear(t) \/ Own(t) \/ UnlockRefused(t) \/ Post(t)
            \/ Destroy(t)
  <2>1. Owners' = Owners /\ Blocked' = Blocked /\ lock_counter' = lock_counter
    BY <1>16
       DEF IInv, TypeOK, Core, Goto, object, Owns, Owners, Blocked, Call, Calls,
           StaticInit, StaticInitFails, Test, Valid, Clear, Own, UnlockRefused, Post,
           Destroy, Return, LastHeld, Construct
  <2>2. QED
    BY <1>5, <2>1
<1>17. QED
  BY <1>6, <1>7, <1>8, <1>9, <1>10, <1>11, <1>12, <1>13, <1>14, <1>15, <1>16
     DEF ThreadStep, InitStep, LockStep, UnlockStep

\* The inductive invariant of pthread_mutex.
THEOREM Induction == Spec => []IInv
<1>1. Init => IInv
  <2> SUFFICES ASSUME Init PROVE IInv
    OBVIOUS
  <2>1. TypeOK
    BY RecursionAssumption DEF Init, TypeOK, Steps, Calls, Codes
  <2>2. Core
    BY ThreadAssumption DEF Init, Core, TokenUnique, WakeupWanted, TokenExists,
       NotYetHeld, OwnerHolds, NestedHolds, InsideObject, Outside, FailsAlone, LastHeld, OwnerRecorded,
       DestroyedUnlocked, Token, Owns
  <2>3. {t \in Thread : Owns(t)} = {} /\ {t \in Thread : pc[t] \in {"wait", "nested"}} = {}
    BY DEF Init, Owns
  <2>4. CounterExact
    BY <2>3, FS_EmptySet DEF Init, CounterExact, Increments
  <2>5. QED
    BY <2>1, <2>2, <2>4 DEF IInv
<1>2. IInv /\ [Next]_vars => IInv'
  <2> SUFFICES ASSUME IInv, [Next]_vars PROVE IInv'
    OBVIOUS
  <2>1. CASE UNCHANGED vars
    BY <2>1 DEF vars, IInv, TypeOK, Core, TokenUnique, WakeupWanted, TokenExists,
       NotYetHeld, OwnerHolds, NestedHolds, InsideObject, Outside, FailsAlone, LastHeld, OwnerRecorded,
       DestroyedUnlocked, Token, Owns, Self, CounterExact, Increments
  <2>2. ASSUME NEW t \in Thread, ThreadStep(t) PROVE IInv'
    BY <2>2, TypeStep, CoreStep, CountStep DEF IInv
  <2>3. QED
    BY <2>1, <2>2 DEF Next, ThreadStep
<1>3. QED
  BY <1>1, <1>2, PTL DEF Spec

-----------------------------------------------------------------------------

\* The fields of a mutex keep their types: no counter underflows, and
\* recursion_counter never passes its limit.
THEOREM TypeCorrect == Spec => []TypeOK
BY Induction, PTL DEF IInv

\* No two threads of a process own a mutex together, whatever its type and
\* however it came to be initialized.
THEOREM MutexSafe == Spec => []MutualExclusion
<1>1. IInv => MutualExclusion
  BY DEF IInv, Core, TokenUnique, Token, MutualExclusion
<1>2. QED
  BY <1>1, Induction, PTL

\* unlock wakes a waiter if there is one: the counter it decides by is exact,
\* and a blocked thread always has a wakeup or an owner before it.
THEOREM WakeupSafe == Spec => [](CounterExact /\ NoLostWakeup)
<1>1. IInv => CounterExact
  BY DEF IInv
<1>2. IInv => NoLostWakeup
  <2> SUFFICES ASSUME IInv, NEW t \in Thread, pc[t] = "wait"
               PROVE  NoLostWakeup
    BY DEF NoLostWakeup
  <2>1. lock_counter > 0
    BY CounterZero DEF IInv
  <2>2. QED
    BY <2>1 DEF IInv, Core, TokenExists, Token, NoLostWakeup
<1>3. QED
  BY <1>1, <1>2, Induction, PTL

\* owner and recursion_counter describe the holder, and destroy never deletes
\* a mutex that is held.
THEOREM OwnerSafe == Spec => [](OwnerRecorded /\ DestroyedUnlocked)
<1>1. IInv => OwnerRecorded /\ DestroyedUnlocked
  BY DEF IInv, Core
<1>2. QED
  BY <1>1, Induction, PTL

\* A mutex of any type is a recursive lock.
THEOREM MutexIsLock == Spec => ImplementsLock
<1>1. Init => AbstractLock!Init
  BY DEF Init, AbstractLock!Init
<1>2. IInv /\ [Next]_vars => [AbstractLock!Next]_held
  <2> SUFFICES ASSUME IInv, [Next]_vars PROVE AbstractLock!Next \/ UNCHANGED held
    OBVIOUS
  <2>1. CASE UNCHANGED vars
    BY <2>1 DEF vars
  <2>2. ASSUME NEW t \in Thread, Owns(t), held' = [held EXCEPT ![t] = @ + 1]
        PROVE  AbstractLock!Acquire(t)
    <3>1. \A s \in Thread \ {t} : held[s] = 0
      BY <2>2 DEF IInv, TypeOK, Core, TokenUnique, Token, Owns
    <3>2. QED
      BY <2>2, <3>1 DEF AbstractLock!Acquire
  <2>3. ASSUME NEW t \in Thread, Own(t) \/ Nested(t) \/ Trylock(t)
        PROVE  AbstractLock!Acquire(t) \/ UNCHANGED held
    BY <2>2, <2>3 DEF Own, Nested, Trylock, LockRecursive, Owns, IInv, TypeOK, Core,
                      NestedHolds, OwnerHolds
  <2>4. ASSUME NEW t \in Thread, Unlock(t) \/ Clear(t)
        PROVE  AbstractLock!Release(t) \/ UNCHANGED held
    <3>1. held[t] > 0 /\ held[t] # 0
      BY <2>4, ThreadAssumption
         DEF IInv, TypeOK, Core, Unlock, Clear, Self, OwnerHolds, OwnerRecorded, InsideObject,
             LastHeld
    <3>2. held' = [held EXCEPT ![t] = held[t] - 1] \/ UNCHANGED held
      BY <2>4, <3>1 DEF Unlock, Clear
    <3>3. QED
      BY <3>1, <3>2 DEF AbstractLock!Release
  <2>5. ASSUME NEW t \in Thread,
               \/ \E ty \in Types : UserInit(t, ty)
               \/ \E o \in Calls : Call(t, o)
               \/ InitStep(t) \/ Lock(t) \/ Wait(t) \/ UnlockRefused(t)
               \/ Dec(t) \/ Post(t) \/ Destroy(t) \/ Fork(t)
        PROVE  UNCHANGED held
    BY <2>5 DEF UserInit, Call, InitStep, StaticInit, StaticInitFails, Test, Valid, Lock, Wait,
                UnlockRefused, Dec, Post, Destroy, Fork
  <2>6. QED
    BY <2>1, <2>3, <2>4, <2>5
       DEF Next, LockStep, UnlockStep, AbstractLock!Next
<1>3. QED
  BY <1>1, <1>2, Induction, PTL DEF Spec, ImplementsLock, AbstractLock!Spec

=============================================================================
