---------------------------- MODULE PthreadProofs ----------------------------
(***************************************************************************)
(* What TLAPS proves of the life of threads, for any finite set of threads,*)
(* any calls they make and any bounds, as long as the program is careful   *)
(* with ids (Careful).                                                     *)
(***************************************************************************)
EXTENDS Pthread, FiniteSetTheorems, TLAPS

\* The program uses no id of the main thread, joins only threads that have begun,
\* makes no call of pthread_cancel that can be torn apart, and forks only while
\* nobody uses the caller's id.
Careful == Reckless = {}

-----------------------------------------------------------------------------
(* Where a thread is *)

OffSteps == {"none", "run", "exit", "count", "ended", "suspended", "self"}
Early == {"lock", "wait", "in"}
Leaving == {"unlock", "post"}
SelfCalls == {"begin", "exit", "pop", "drop"} \cup CancelSettings
OtherCalls == {"join", "detach", "cancel"}

Places ==
  [pc : Steps, fn : SelfCalls \cup OtherCalls \cup {None}, on : Thread \cup {None},
   then : Steps, val : {None, "value", "canceled"}, suspends : Nat]

Types ==
  /\ th \in [Thread -> Objects]
  /\ at \in [Thread -> Places]
  /\ torn \in [Thread -> Thread \cup {None}] /\ eaten \subseteq Thread
  /\ threadcount \in Nat /\ over \in BOOLEAN
  /\ known \subseteq Thread /\ cancels \in 0 .. MaxCancel
  /\ pushed \in [Thread -> 0 .. MaxPush] /\ ran \in [Thread -> 0 .. MaxPush]

Valid(o) == th[o].object = "valid"

\* What may follow the unlock at the end of each call
Then(t) ==
  /\ at[t].fn = "exit" => at[t].then = "count"
  /\ at[t].fn = "cancel" => at[t].then \in {"run", "setevent", "resume", "self"}
  /\ at[t].fn = "join" => at[t].then = "joining"
  /\ at[t].fn = "detach" => at[t].then \in {"run", "delete"}
  /\ at[t].fn \in SelfCalls \ {"exit"} => at[t].then \in {"run", "exit"}

\* Each step of a call belongs to that call, and each call but join, detach and
\* cancel is on the caller's own object.
Row(t) ==
  /\ at[t].pc \in OffSteps => at[t].fn = None /\ at[t].on = None
  /\ at[t].pc \notin OffSteps => at[t].fn \in SelfCalls \cup OtherCalls /\ at[t].on \in Thread
  /\ at[t].pc = "pop" => at[t].fn = "pop"
  /\ at[t].pc \in {"setevent", "resume"} => at[t].fn = "cancel"
  /\ at[t].pc \in {"joining", "rejoin"} => at[t].fn = "join"
  /\ at[t].pc = "delete" => at[t].fn = "detach"
  /\ at[t].fn \in SelfCalls => at[t].on = t
  /\ at[t].fn \in {"pop", "drop"} => at[t].then \in {"run", "exit"}
  /\ at[t].pc \in Leaving => Then(t)

Rows == \A t \in Thread : Row(t)

-----------------------------------------------------------------------------
(* How a step changes a place and an object *)

Only(t) == \A x \in Thread \ {t} : at'[x] = at[x]

Went(t, step) ==
  /\ Only(t)
  /\ at'[t].pc = step /\ at'[t].fn = at[t].fn /\ at'[t].on = at[t].on
  /\ at'[t].then = at[t].then /\ at'[t].suspends = at[t].suspends

Left(t, then) ==
  /\ Only(t)
  /\ at'[t].pc = "unlock" /\ at'[t].fn = at[t].fn /\ at'[t].on = at[t].on
  /\ at'[t].then = then /\ at'[t].suspends = at[t].suspends

Out(t, step) ==
  /\ Only(t)
  /\ at'[t].pc = step /\ at'[t].fn = None /\ at'[t].on = None
  /\ at'[t].then = "run" /\ at'[t].suspends = 0

Called(t, f, o) ==
  /\ Only(t)
  /\ at'[t].pc = "lock" /\ at'[t].fn = f /\ at'[t].on = o
  /\ at'[t].then \in {"run", "exit"} /\ at'[t].suspends = at[t].suspends

SameLife(x) ==
  /\ th'[x].object = th[x].object /\ th'[x].joiner = th[x].joiner
  /\ th'[x].joinable <=> th[x].joinable
  /\ th'[x].running <=> th[x].running
SameLock(x) == th'[x].lock_counter = th[x].lock_counter /\ th'[x].semaphore = th[x].semaphore
SameCancel(x) ==
  th'[x].cancelstate = th[x].cancelstate /\ th'[x].canceltype = th[x].canceltype
SameStack(x) == th'[x].cleanup_stack = th[x].cleanup_stack

SameObjects == \A x \in Thread : SameLife(x) /\ SameLock(x) /\ SameCancel(x) /\ SameStack(x)

\* Goto and Leave change one place.
LEMMA GotoPlace ==
  ASSUME Types, NEW t \in Thread, NEW step, Goto(t, step) PROVE Went(t, step)
  BY DEF Types, Places, Goto, Went, Only

LEMMA LeavePlace ==
  ASSUME Types, NEW t \in Thread, NEW then, Leave(t, then) PROVE Left(t, then)
  BY DEF Types, Places, Leave, Left, Only

\* So does a call, ...
LEMMA CallPlace ==
  ASSUME Types, NEW t \in Thread, NEW f, NEW o, Call(t, f, o) PROVE Called(t, f, o)
  BY DEF Types, Places, Call, Called, Only

\* ... the return from one, ...
LEMMA ReturnedPlace ==
  ASSUME Types, NEW t \in Thread, NEW step, at' = Returned(t, step)
  PROVE  IF step \in {"run", "exit", "count", "self"} THEN Out(t, step) ELSE Went(t, step)
  BY DEF Types, Places, Returned, Nowhere, Out, Went, Only

\* ... and the way out.
LEMMA ExitingPlace ==
  ASSUME Types, NEW t \in Thread, NEW val, at' = Exiting(t, val) PROVE Out(t, "exit")
  BY DEF Types, Places, Exiting, Nowhere, Out, Only

\* A step that changes no object changes none of its parts.
LEMMA Unchanged == th' = th => SameObjects
  BY DEF SameObjects, SameLife, SameLock, SameCancel, SameStack

LockOnly(o, counter, count) ==
  /\ \A x \in Thread : SameLife(x) /\ SameCancel(x) /\ SameStack(x)
  /\ \A x \in Thread \ {o} : SameLock(x)
  /\ th'[o].lock_counter = counter /\ th'[o].semaphore = count

LifeOnly(o) ==
  /\ \A x \in Thread : SameLock(x) /\ SameCancel(x) /\ SameStack(x)
  /\ \A x \in Thread \ {o} : SameLife(x)

CancelOnly(o) ==
  /\ \A x \in Thread : SameLife(x) /\ SameLock(x) /\ SameStack(x)
  /\ \A x \in Thread \ {o} : SameCancel(x)

StackOnly(o, handlers) ==
  /\ \A x \in Thread : SameLife(x) /\ SameLock(x) /\ SameCancel(x)
  /\ \A x \in Thread \ {o} : SameStack(x)
  /\ th'[o].cleanup_stack = handlers

Deletes(o) ==
  /\ \A x \in Thread \ {o} : SameLife(x) /\ SameLock(x) /\ SameCancel(x) /\ SameStack(x)
  /\ th'[o].object = "deleted" /\ th'[o].joinable /\ th'[o].joiner = None
  /\ ~th'[o].running /\ th'[o].lock_counter = 0 /\ th'[o].semaphore = 0

-----------------------------------------------------------------------------
(* What each action changes *)

\* The object's mutex: the counter or the semaphore, and the caller's place.
LEMMA LockEffect ==
  ASSUME Types, NEW t \in Thread, NEW o \in Thread, o = at[t].on, Lock(t)
  PROVE  /\ LockOnly(o, th[o].lock_counter + 1, th[o].semaphore)
         /\ Went(t, IF th[o].lock_counter = 0 THEN "in" ELSE "wait")
<1>1. LockOnly(o, th[o].lock_counter + 1, th[o].semaphore)
  BY DEF Types, Objects, Lock, LockOnly, SameLife, SameLock, SameCancel, SameStack
<1>2. QED
  BY <1>1, GotoPlace DEF Lock

LEMMA WaitEffect ==
  ASSUME Types, NEW t \in Thread, NEW o \in Thread, o = at[t].on, Wait(t)
  PROVE  LockOnly(o, th[o].lock_counter, th[o].semaphore - 1) /\ Went(t, "in")
<1>1. LockOnly(o, th[o].lock_counter, th[o].semaphore - 1)
  BY DEF Types, Objects, Wait, LockOnly, SameLife, SameLock, SameCancel, SameStack
<1>2. QED
  BY <1>1, GotoPlace DEF Wait

LEMMA UnlockEffect ==
  ASSUME Types, NEW t \in Thread, NEW o \in Thread, o = at[t].on, Unlock(t)
  PROVE  /\ LockOnly(o, th[o].lock_counter - 1, th[o].semaphore)
         /\ th[o].lock_counter = 1 /\ at[t].then \in {"run", "exit", "count", "self"}
              => Out(t, at[t].then)
         /\ th[o].lock_counter = 1 /\ at[t].then \notin {"run", "exit", "count", "self"}
              => Went(t, at[t].then)
         /\ th[o].lock_counter # 1 => Went(t, "post")
<1>1. LockOnly(o, th[o].lock_counter - 1, th[o].semaphore)
  BY DEF Types, Objects, Unlock, LockOnly, SameLife, SameLock, SameCancel, SameStack
<1>2. CASE th[o].lock_counter = 1
  BY <1>1, <1>2, ReturnedPlace DEF Unlock
<1>3. CASE th[o].lock_counter # 1
  <2>1. Goto(t, "post")
    BY <1>3 DEF Unlock, Goto
  <2>2. QED
    BY <1>1, <1>3, <2>1, GotoPlace
<1>4. QED
  BY <1>2, <1>3

LEMMA PostEffect ==
  ASSUME Types, NEW t \in Thread, NEW o \in Thread, o = at[t].on, Post(t)
  PROVE  /\ LockOnly(o, th[o].lock_counter, th[o].semaphore + 1)
         /\ at[t].then \in {"run", "exit", "count", "self"} => Out(t, at[t].then)
         /\ at[t].then \notin {"run", "exit", "count", "self"} => Went(t, at[t].then)
<1>1. LockOnly(o, th[o].lock_counter, th[o].semaphore + 1)
  BY DEF Types, Objects, Post, LockOnly, SameLife, SameLock, SameCancel, SameStack
<1>2. QED
  BY <1>1, ReturnedPlace DEF Post

\* The beginning and the end of a thread: the parts of its object that say who
\* is to delete it.
LEMMA BeginEffect ==
  ASSUME Types, NEW t \in Thread, Begin(t)
  PROVE  /\ LifeOnly(t) /\ Left(t, "run")
         /\ th'[t].object = th[t].object
         /\ th'[t].joinable <=> th[t].joinable
         /\ th'[t].running <=> th[t].running
         /\ ~th[t].joinable /\ th[t].joiner = None => th'[t].joiner = t
         /\ th[t].joinable \/ th[t].joiner # None => th'[t].joiner = th[t].joiner
<1>1. LifeOnly(t)
  BY DEF Types, Objects, Begin, LifeOnly, SameLife, SameLock, SameCancel, SameStack
<1>2. Left(t, "run")
  BY LeavePlace DEF Begin
<1>3. th'[t].object = th[t].object
  BY DEF Types, Objects, Begin
<1>4. th'[t].joinable <=> th[t].joinable
  BY DEF Types, Objects, Begin
<1>5. th'[t].running <=> th[t].running
  BY DEF Types, Objects, Begin
<1>6. /\ ~th[t].joinable /\ th[t].joiner = None => th'[t].joiner = t
      /\ th[t].joinable \/ th[t].joiner # None => th'[t].joiner = th[t].joiner
  BY DEF Types, Objects, Begin
<1>7. QED
  BY <1>1, <1>2, <1>3, <1>4, <1>5, <1>6

LEMMA ExitKeepEffect ==
  ASSUME Types, NEW t \in Thread, ExitKeep(t)
  PROVE  /\ LifeOnly(t) /\ Left(t, "count")
         /\ th'[t].object = th[t].object /\ th'[t].joiner = th[t].joiner
         /\ th'[t].joinable <=> th[t].joinable
         /\ ~th'[t].running
<1>1. LifeOnly(t)
  BY DEF Types, Objects, ExitKeep, LifeOnly, SameLife, SameLock, SameCancel, SameStack
<1>2. Left(t, "count")
  BY LeavePlace DEF ExitKeep
<1>3. th'[t].object = th[t].object /\ th'[t].joiner = th[t].joiner
  BY DEF Types, Objects, ExitKeep
<1>4. th'[t].joinable <=> th[t].joinable
  BY DEF Types, Objects, ExitKeep
<1>5. ~th'[t].running
  BY DEF Types, Objects, ExitKeep
<1>6. QED
  BY <1>1, <1>2, <1>3, <1>4, <1>5

\* Whoever deletes an object leaves the others alone.
LEMMA DeletedObject ==
  ASSUME Types, NEW o \in Thread, th' = [th EXCEPT ![o] = Deleted]
  PROVE  Deletes(o)
  BY DEF Types, Deleted, Object, Deletes, SameLife, SameLock, SameCancel, SameStack

\* Create makes the object of the new thread, which is on its way to begin.
LEMMA CreateEffect ==
  ASSUME Types, NEW t \in Thread, NEW u \in Thread, NEW joinable \in BOOLEAN,
         Create(t, u, joinable)
  PROVE  /\ \A x \in Thread \ {u} :
              SameLife(x) /\ SameLock(x) /\ SameCancel(x) /\ SameStack(x)
         /\ th'[u].object = "valid" /\ th'[u].joiner = None
         /\ th'[u].joinable <=> joinable
         /\ th'[u].running
         /\ th'[u].lock_counter = 0 /\ th'[u].semaphore = 0 /\ th'[u].cleanup_stack = 0
         /\ Called(u, "begin", u)
<1>1. \A x \in Thread \ {u} : SameLife(x) /\ SameLock(x) /\ SameCancel(x) /\ SameStack(x)
  BY DEF Types, Create, SameLife, SameLock, SameCancel, SameStack
<1>2. th'[u] = Object(joinable, TRUE)
  BY DEF Types, Create
<1>3. Called(u, "begin", u)
  BY CallPlace DEF Create
<1>4. th'[u].joinable <=> joinable
  BY <1>2 DEF Object
<1>5. QED
  BY <1>1, <1>2, <1>3, <1>4 DEF Object

\* fork leaves the caller, with a mutex that nobody holds when nobody used its
\* object, and deletes every other object.
LEMMA ForkEffect ==
  ASSUME Types, NEW t \in Thread, Fork(t)
  PROVE  /\ \A x \in Thread \ {t} :
              /\ th'[x].object # "valid"
              /\ th'[x].object = "none" <=> th[x].object = "none"
              /\ th[x].object = "valid" =>
                   /\ th'[x].object = "deleted"
                   /\ th'[x].joinable /\ th'[x].joiner = None /\ ~th'[x].running
                   /\ th'[x].lock_counter = 0 /\ th'[x].semaphore = 0
              /\ th[x].object # "valid" => SameLife(x) /\ SameLock(x)
              /\ at'[x].pc = "none" /\ at'[x].fn = None /\ at'[x].on = None
              /\ at'[x].suspends = 0
         /\ SameLife(t) /\ SameCancel(t) /\ SameStack(t) /\ at'[t] = at[t]
         /\ th'[t].semaphore = 0
         /\ ~(\E u \in Thread : at[u].on = t /\ at[u].pc \in {"in", "pop", "unlock"})
              => th'[t].lock_counter = 0
<1>1. ASSUME NEW x \in Thread \ {t}
      PROVE  /\ th'[x] = IF th[x].object = "valid" THEN Deleted ELSE th[x]
             /\ at'[x] = Nowhere
  BY <1>1 DEF Types, Fork
<1>2. ASSUME NEW x \in Thread \ {t}, th[x].object = "valid"
      PROVE  /\ th'[x].object = "deleted"
             /\ th'[x].joinable /\ th'[x].joiner = None /\ ~th'[x].running
             /\ th'[x].lock_counter = 0 /\ th'[x].semaphore = 0
  BY <1>1, <1>2 DEF Deleted, Object
<1>3. ASSUME NEW x \in Thread \ {t}, th[x].object # "valid"
      PROVE  SameLife(x) /\ SameLock(x) /\ th'[x].object = th[x].object
  BY <1>1, <1>3 DEF SameLife, SameLock
<1>4. \A x \in Thread \ {t} :
        /\ at'[x].pc = "none" /\ at'[x].fn = None /\ at'[x].on = None
        /\ at'[x].suspends = 0
  BY <1>1 DEF Nowhere
<1> DEFINE held == \E u \in Thread : at[u].on = t /\ at[u].pc \in {"in", "pop", "unlock"}
<1>5. PICK n \in {0, 1} :
        /\ ~held => n = 0
        /\ th'[t] = [th[t] EXCEPT !.lock_counter = n, !.semaphore = 0, !.cancel_event = FALSE]
  BY DEF Types, Fork
<1>6. at'[t] = at[t]
  BY DEF Types, Fork
<1> HIDE DEF held
<1>7. /\ SameLife(t) /\ SameCancel(t) /\ SameStack(t)
      /\ th'[t].semaphore = 0
      /\ ~held => th'[t].lock_counter = 0
  BY <1>5 DEF Types, Objects, SameLife, SameCancel, SameStack
<1>8. QED
  BY <1>2, <1>3, <1>4, <1>6, <1>7 DEF held

\* Cancellation settings and the event
LEMMA SetBodyEffect ==
  ASSUME Types, NEW t \in Thread, SetBody(t)
  PROVE  CancelOnly(t) /\ Left(t, "run")
<1>1. CancelOnly(t)
  BY DEF Types, Objects, SetBody, CancelOnly, SameLife, SameLock, SameCancel, SameStack
<1>2. QED
  BY <1>1, LeavePlace DEF SetBody

LEMMA SetEventEffect ==
  ASSUME Types, NEW t \in Thread, NEW o \in Thread, o = at[t].on, SetEvent(t)
  PROVE  SameObjects /\ Out(t, "run")
<1>1. SameObjects
  BY DEF Types, Objects, SetEvent, SameObjects, SameLife, SameLock, SameCancel, SameStack
<1>2. QED
  BY <1>1, ReturnedPlace DEF SetEvent

\* Cleanup handlers
LEMMA PushEffect ==
  ASSUME Types, NEW t \in Thread, Push(t)
  PROVE  StackOnly(t, th[t].cleanup_stack + 1) /\ at' = at
  BY DEF Types, Objects, Push, StackOnly, SameLife, SameLock, SameCancel, SameStack

LEMMA PopBodyEffect ==
  ASSUME Types, NEW t \in Thread, PopBody(t)
  PROVE  StackOnly(t, th[t].cleanup_stack - 1) /\ Left(t, at[t].then)
<1>1. StackOnly(t, th[t].cleanup_stack - 1)
  BY DEF Types, Objects, PopBody, StackOnly, SameLife, SameLock, SameCancel, SameStack
<1>2. QED
  BY <1>1, LeavePlace DEF PopBody

\* Join and detach
LEMMA JoinBodyEffect ==
  ASSUME Types, NEW t \in Thread, NEW o \in Thread, o = at[t].on, JoinBody(t), th[o].joinable
  PROVE  /\ LifeOnly(o) /\ Left(t, "joining")
         /\ th'[o].object = th[o].object /\ th'[o].joiner = t
         /\ ~th'[o].joinable
         /\ th'[o].running <=> th[o].running
<1>0. th' = [th EXCEPT ![o].joiner = t, ![o].joinable = FALSE] /\ Leave(t, "joining")
  BY DEF JoinBody
<1>1. LifeOnly(o)
  BY <1>0 DEF Types, Objects, LifeOnly, SameLife, SameLock, SameCancel, SameStack
<1>2. Left(t, "joining")
  BY <1>0, LeavePlace
<1>3. th'[o].object = th[o].object /\ th'[o].joiner = t
  BY <1>0 DEF Types, Objects
<1>4. ~th'[o].joinable
  BY <1>0 DEF Types, Objects
<1>5. th'[o].running <=> th[o].running
  BY <1>0 DEF Types, Objects
<1>6. QED
  BY <1>1, <1>2, <1>3, <1>4, <1>5

LEMMA JoinCanceledEffect ==
  ASSUME Types, NEW t \in Thread, NEW o \in Thread, o = at[t].on, JoinCanceled(t)
  PROVE  /\ LifeOnly(o) /\ Went(t, "rejoin")
         /\ th'[o].object = th[o].object /\ th'[o].joiner = None
         /\ th'[o].joinable <=> th[o].joinable
         /\ th'[o].running <=> th[o].running
<1>0. th' = [th EXCEPT ![o].joiner = None] /\ Goto(t, "rejoin")
  BY DEF JoinCanceled
<1>1. LifeOnly(o)
  BY <1>0 DEF Types, Objects, LifeOnly, SameLife, SameLock, SameCancel, SameStack
<1>2. Went(t, "rejoin")
  BY <1>0, GotoPlace
<1>3. th'[o].object = th[o].object /\ th'[o].joiner = None
  BY <1>0 DEF Types, Objects
<1>4. th'[o].joinable <=> th[o].joinable
  BY <1>0 DEF Types, Objects
<1>5. th'[o].running <=> th[o].running
  BY <1>0 DEF Types, Objects
<1>6. QED
  BY <1>1, <1>2, <1>3, <1>4, <1>5

LEMMA RejoinEffect ==
  ASSUME Types, NEW t \in Thread, NEW o \in Thread, o = at[t].on, Rejoin(t)
  PROVE  /\ LifeOnly(o) /\ Out(t, "exit")
         /\ th'[o].object = th[o].object /\ th'[o].joiner = th[o].joiner
         /\ th'[o].joinable
         /\ th'[o].running <=> th[o].running
<1>0. th' = [th EXCEPT ![o].joinable = TRUE] /\ at' = Exiting(t, "canceled")
  BY DEF Rejoin
<1>1. LifeOnly(o)
  BY <1>0 DEF Types, Objects, LifeOnly, SameLife, SameLock, SameCancel, SameStack
<1>2. Out(t, "exit")
  BY <1>0, ExitingPlace
<1>3. th'[o].object = th[o].object /\ th'[o].joiner = th[o].joiner
  BY <1>0 DEF Types, Objects
<1>4. th'[o].joinable
  BY <1>0 DEF Types, Objects
<1>5. th'[o].running <=> th[o].running
  BY <1>0 DEF Types, Objects
<1>6. QED
  BY <1>1, <1>2, <1>3, <1>4, <1>5

LEMMA DetachBodyEffect ==
  ASSUME Types, NEW t \in Thread, NEW o \in Thread, o = at[t].on, DetachBody(t), th[o].joinable
  PROVE  /\ th[o].running /\ at[o].pc # "ended" =>
              /\ LifeOnly(o) /\ Left(t, "run")
              /\ th'[o].object = th[o].object /\ th'[o].joiner = o
              /\ ~th'[o].joinable
              /\ th'[o].running
         /\ ~(th[o].running /\ at[o].pc # "ended") => SameObjects /\ Left(t, "delete")
<1>1. ASSUME th[o].running, at[o].pc # "ended"
      PROVE  /\ LifeOnly(o) /\ Left(t, "run")
             /\ th'[o].object = th[o].object /\ th'[o].joiner = o
             /\ ~th'[o].joinable
             /\ th'[o].running
  <2>0. th' = [th EXCEPT ![o].joiner = o, ![o].joinable = FALSE] /\ Leave(t, "run")
    BY <1>1 DEF DetachBody
  <2>1. LifeOnly(o)
    BY <2>0 DEF Types, Objects, LifeOnly, SameLife, SameLock, SameCancel, SameStack
  <2>2. Left(t, "run")
    BY <2>0, LeavePlace
  <2>3. th'[o].object = th[o].object /\ th'[o].joiner = o
    BY <2>0 DEF Types, Objects
  <2>4. ~th'[o].joinable
    BY <2>0 DEF Types, Objects
  <2>5. th'[o].running
    BY <1>1, <2>0 DEF Types, Objects
  <2>6. QED
    BY <2>1, <2>2, <2>3, <2>4, <2>5
<1>2. ASSUME ~(th[o].running /\ at[o].pc # "ended")
      PROVE  SameObjects /\ Left(t, "delete")
  <2>1. Leave(t, "delete") /\ th' = th
    BY <1>2 DEF DetachBody
  <2>2. QED
    BY <2>1, LeavePlace, Unchanged
<1>3. QED
  BY <1>1, <1>2

\* Asynchronous cancellation moves another thread, too.
LEMMA CancelAsyncEffect ==
  ASSUME Types, NEW t \in Thread, NEW u \in Thread, u = at[t].on, CancelAsync(t)
  PROVE  /\ SameObjects
         /\ \A x \in Thread \ {t, u} : at'[x] = at[x]
         /\ at'[t].pc = "unlock" /\ at'[t].fn = at[t].fn /\ at'[t].on = u
         /\ at'[t].then = "resume" /\ at'[t].suspends = at[t].suspends
         /\ at'[u].pc = "suspended" /\ at'[u].fn = None /\ at'[u].on = None
         /\ at'[u].suspends = at[u].suspends + 1
<1>1. SameObjects
  BY Unchanged DEF CancelAsync
<1>2. /\ u # t
      /\ at' = [at EXCEPT ![u] = [Nowhere EXCEPT !.pc = "suspended", !.val = "canceled",
                                                 !.suspends = at[u].suspends + 1],
                         ![t] = [@ EXCEPT !.pc = "unlock", !.then = "resume"]]
  BY DEF CancelAsync
<1>3. at \in [Thread -> Places]
  BY DEF Types
<1>4. PICK v : v = [Nowhere EXCEPT !.pc = "suspended", !.val = "canceled",
                                   !.suspends = at[u].suspends + 1]
  OBVIOUS
<1>5. v.pc = "suspended" /\ v.fn = None /\ v.on = None /\ v.suspends = at[u].suspends + 1
  BY <1>4 DEF Nowhere
<1>6. PICK r : r = [at[t] EXCEPT !.pc = "unlock", !.then = "resume"]
  OBVIOUS
<1>7. /\ r.pc = "unlock" /\ r.fn = at[t].fn /\ r.on = at[t].on
      /\ r.then = "resume" /\ r.suspends = at[t].suspends
  BY <1>3, <1>6 DEF Places
<1>8. at' = [at EXCEPT ![u] = v, ![t] = r]
  BY <1>2, <1>4, <1>6
<1>9. at'[u] = v /\ at'[t] = r /\ \A x \in Thread \ {t, u} : at'[x] = at[x]
  BY <1>2, <1>3, <1>8
<1>10. QED
  BY <1>1, <1>5, <1>7, <1>9

LEMMA ResumeEffect ==
  ASSUME Types, NEW t \in Thread, NEW u \in Thread, u = at[t].on, Resume(t), t # u
  PROVE  /\ SameObjects
         /\ \A x \in Thread \ {t, u} : at'[x] = at[x]
         /\ at'[t].pc = "run" /\ at'[t].fn = None /\ at'[t].on = None
         /\ at'[t].then = "run" /\ at'[t].suspends = 0
         /\ at'[u].pc = (IF at[u].suspends = 1 THEN "exit" ELSE at[u].pc)
         /\ at'[u].fn = at[u].fn /\ at'[u].on = at[u].on /\ at'[u].then = at[u].then
         /\ at'[u].suspends = at[u].suspends - 1
<1>1. SameObjects
  BY Unchanged DEF Resume
<1>2. PICK r \in [Thread -> Places] :
        /\ r = [at EXCEPT ![t] = [Nowhere EXCEPT !.pc = "run", !.val = at[t].val]]
        /\ at' = [r EXCEPT ![u].suspends = @ - 1,
                           ![u].pc = IF at[u].suspends = 1 THEN "exit" ELSE @]
  <2>1. Returned(t, "run") = [at EXCEPT ![t] = [Nowhere EXCEPT !.pc = "run", !.val = at[t].val]]
    BY DEF Returned
  <2>2. Returned(t, "run") \in [Thread -> Places]
    <3>1. PICK v \in {None, "value", "canceled"} : v = at[t].val
      BY DEF Types, Places
    <3>2. [Nowhere EXCEPT !.pc = "run", !.val = v] \in Places
      BY <3>1 DEF Places, Steps, Nowhere
    <3>3. [Nowhere EXCEPT !.pc = "run", !.val = at[t].val] \in Places
      BY <3>1, <3>2
    <3>4. QED
      BY <2>1, <3>3 DEF Types
  <2>3. QED
    BY <2>1, <2>2 DEF Resume
<1>3. r[u] = at[u] /\ \A x \in Thread \ {t} : r[x] = at[x]
  BY <1>2 DEF Types
<1>4. /\ r[t].pc = "run" /\ r[t].fn = None /\ r[t].on = None /\ r[t].then = "run"
      /\ r[t].suspends = 0
  BY <1>2 DEF Types, Nowhere
<1>5. at'[t] = r[t] /\ \A x \in Thread \ {t, u} : at'[x] = at[x]
  BY <1>2, <1>3
<1>6. /\ at'[u].pc = (IF at[u].suspends = 1 THEN "exit" ELSE at[u].pc)
      /\ at'[u].fn = at[u].fn /\ at'[u].on = at[u].on /\ at'[u].then = at[u].then
      /\ at'[u].suspends = at[u].suspends - 1
  BY <1>2, <1>3 DEF Types, Places
<1>7. QED
  BY <1>1, <1>4, <1>5, <1>6

-----------------------------------------------------------------------------
(* The invariant *)

\* Objects: a thread that lives has one, nobody is in a call on one that is
\* deleted, and one that is not there is nobody's.
Housed ==
  /\ \A t \in Thread : at[t].pc \notin {"none", "count", "ended"} => Valid(t)
  /\ \A t \in Thread : at[t].pc \notin OffSteps => Valid(at[t].on)
  /\ \A t \in Thread :
       th[t].object = "none" => at[t].pc = "none" /\ pushed[t] = 0 /\ ran[t] = 0
  /\ \A t \in Thread : Valid(t) => at[t].pc # "none"
  /\ \A t \in Thread : ~Valid(t) => th[t].lock_counter = 0 /\ th[t].semaphore = 0

\* The mutex of an object: at most one party may enter next (the token), a thread
\* inside, one on its way to release the semaphore, or the semaphore's count.  While
\* the counter is not 0 there is one, unless a cancelled thread has eaten it.
Token(v, o) == at[v].on = o /\ at[v].pc \in {"in", "pop", "unlock", "post"}
Posting(v, o) == at[v].on = o /\ at[v].pc = "post"

TokenUnique == \A o, v, w \in Thread : Token(v, o) /\ Token(w, o) => v = w
SemaphoreFree == \A o, v \in Thread : Token(v, o) => th[o].semaphore = 0
TokenExists ==
  \A o \in Thread :
    th[o].lock_counter > 0 /\ o \notin eaten =>
      th[o].semaphore > 0 \/ \E v \in Thread : Token(v, o)
TokenWanted ==
  \A o \in Thread :
    th[o].semaphore > 0 \/ (\E v \in Thread : Posting(v, o)) => th[o].lock_counter > 0

Mutex == TokenUnique /\ SemaphoreFree /\ TokenExists /\ TokenWanted

\* The counter is at least the number of threads that have incremented it; those
\* that were torn out of the wait are counted for good.
Counts(v, o) == at[v].on = o /\ at[v].pc \in {"wait", "in", "pop", "unlock"}
Inside(o) == {v \in Thread : Counts(v, o)}
CounterCovers == \A o \in Thread : Cardinality(Inside(o)) <= th[o].lock_counter

\* What the program does with ids: a join or detach has the id for itself.
UseAlone ==
  \A v, w \in Thread :
    /\ at[v].fn \in {"join", "detach"} /\ at[w].fn \in OtherCalls
    /\ at[w].on = at[v].on
    => v = w
UseKnown ==
  \A v \in Thread :
    /\ at[v].fn \in {"join", "cancel"} => at[v].on \in known
    /\ at[v].fn = "detach" => at[v].on \notin known /\ at[v].on # Main
    /\ at[v].fn \in OtherCalls => ~Async(v)
    /\ at[v].fn = "join" => at[v].on # v /\ at[at[v].on].fn # "begin"

Uses == UseAlone /\ UseKnown

\* How far a join or a detach is, and a thread
CallEarly(v) == at[v].fn \in {"join", "detach"} /\ at[v].pc \in Early
JoinPast(v) == at[v].fn = "join" /\ at[v].pc \in Leaving \cup {"joining", "rejoin"}
DetachPast(v) ==
  /\ at[v].fn = "detach"
  /\ at[v].pc = "delete" \/ (at[v].pc \in Leaving /\ at[v].then = "delete")
Beginning(t) == at[t].fn = "begin" /\ at[t].pc \in Early
Finished(t) == at[t].pc \in {"count", "ended"}
Gone(t) == Finished(t) \/ (at[t].fn = "exit" /\ at[t].pc \in Leaving)

\* Who deletes an object: its joiner, a late detach, or the thread itself.
CallFindsJoinable == \A v \in Thread : CallEarly(v) => th[at[v].on].joinable
JoinRecorded ==
  \A v \in Thread : JoinPast(v) =>
    /\ ~th[at[v].on].joinable
    /\ th[at[v].on].joiner = IF at[v].pc = "rejoin" THEN None ELSE v
DetachLate ==
  \A v \in Thread : DetachPast(v) => th[at[v].on].joinable /\ Finished(at[v].on)
JoinableFree == \A o \in Thread : th[o].joinable => th[o].joiner = None
KnownKept ==
  \A o \in known :
    /\ Valid(o) /\ o # Main
    /\ ~th[o].joinable => \E v \in Thread : JoinPast(v) /\ at[v].on = o
DetachComing ==
  \A o \in Thread \ {Main} : Valid(o) /\ o \notin known /\ th[o].joinable =>
    \E v \in Thread : at[v].on = o /\ at[v].fn = "detach" /\ (CallEarly(v) \/ DetachPast(v))
DetachedLives ==
  \A o \in Thread : Valid(o) /\ o \notin known /\ ~th[o].joinable =>
    /\ ~Gone(o)
    /\ th[o].joiner = o \/ (th[o].joiner = None /\ Beginning(o))
MainStays == th[Main].object # "none" /\ th[Main].joinable /\ ~th[Main].running
RunningExact == \A o \in Thread \ {Main} : Valid(o) => (th[o].running <=> ~Gone(o))

Life ==
  /\ CallFindsJoinable /\ JoinRecorded /\ DetachLate /\ JoinableFree
  /\ KnownKept /\ DetachComing /\ DetachedLives /\ MainStays /\ RunningExact

\* A thread is suspended as often as there are cancellers that will resume it.
Resumer(v, u) ==
  /\ at[v].on = u
  /\ at[v].pc = "resume" \/ (at[v].pc \in Leaving /\ at[v].then = "resume")
Resumers(u) == {v \in Thread : Resumer(v, u)}

Suspends ==
  /\ \A u \in Thread : ~Resumer(u, u)
  /\ \A u \in Thread : at[u].suspends = Cardinality(Resumers(u))
  /\ \A u \in Thread : at[u].suspends > 0 <=> at[u].pc = "suspended"

\* Cleanup handlers, during exit too
HandlersOf(t) ==
  /\ Valid(t) =>
       pushed[t] + (IF at[t].pc = "pop" THEN 1 ELSE 0) = ran[t] + th[t].cleanup_stack
  /\ at[t].fn = "exit" \/ Finished(t) => pushed[t] = ran[t]
  /\ at[t].fn \in {"pop", "drop"} /\ at[t].pc \in Early \cup {"pop"} =>
       th[t].cleanup_stack > 0
Handlers == \A t \in Thread : HandlersOf(t)

\* threadcount is the number of threads that live.
Lives(t) == at[t].pc \notin {"none", "ended"}
Living == {t \in Thread : Lives(t)}
Counted == threadcount = Cardinality(Living) /\ (over <=> threadcount = 0)

IInv ==
  /\ Types /\ Rows /\ Housed /\ Mutex /\ CounterCovers /\ Uses /\ Life
  /\ Suspends /\ Handlers /\ Counted

-----------------------------------------------------------------------------
(* What keeps a part of the invariant *)

Touching == {"wait", "in", "pop", "unlock", "post"}

\* The counters stay, and t stays inside, or outside, of the mutex it is at.
MutexQuiet(t) ==
  /\ \A x \in Thread : SameLock(x)
  /\ Only(t)
  /\ \/ at[t].pc \notin Touching /\ at'[t].pc \notin Touching
     \/ /\ at'[t].on = at[t].on
        /\ at[t].pc \in {"in", "pop", "unlock"} /\ at'[t].pc \in {"in", "pop", "unlock"}

\* Nothing happens to any mutex.
MutexSame ==
  \A o \in Thread :
    /\ SameLock(o)
    /\ \A v \in Thread : /\ Token(v, o)' <=> Token(v, o)
                         /\ Posting(v, o)' <=> Posting(v, o)
                         /\ Counts(v, o)' <=> Counts(v, o)

LEMMA MutexFrame ==
  MutexSame /\ eaten' = eaten /\ Mutex /\ CounterCovers => Mutex' /\ CounterCovers'
<1> SUFFICES ASSUME MutexSame, eaten' = eaten, Mutex, CounterCovers PROVE Mutex' /\ CounterCovers'
  OBVIOUS
<1>1. Mutex'
  BY DEF MutexSame, SameLock, Mutex, TokenUnique, SemaphoreFree, TokenExists, TokenWanted
<1>2. ASSUME NEW o \in Thread PROVE Inside(o)' = Inside(o)
  BY DEF MutexSame, Inside
<1>3. CounterCovers'
  BY <1>2 DEF MutexSame, SameLock, CounterCovers
<1>4. QED
  BY <1>1, <1>3

LEMMA MutexKept ==
  ASSUME Mutex, CounterCovers, NEW t \in Thread, MutexQuiet(t), eaten' = eaten
  PROVE  Mutex' /\ CounterCovers'
<1>1. ASSUME NEW o \in Thread, NEW v \in Thread
      PROVE  /\ Token(v, o)' <=> Token(v, o)
             /\ Posting(v, o)' <=> Posting(v, o)
             /\ Counts(v, o)' <=> Counts(v, o)
  <2>1. CASE v = t
    BY <2>1 DEF MutexQuiet, Touching, Token, Posting, Counts
  <2>2. CASE v # t
    BY <2>2 DEF MutexQuiet, Only, Token, Posting, Counts
  <2>3. QED
    BY <2>1, <2>2
<1>2. MutexSame
  BY <1>1 DEF MutexSame, MutexQuiet
<1>3. QED
  BY <1>2, MutexFrame

\* join, detach and cancel are on an object.
LEMMA CallOn ==
  ASSUME Rows, NEW v \in Thread, at[v].fn \in OtherCalls
  PROVE  at[v].on \in Thread /\ at[v].pc \notin OffSteps
  BY NoneAssumption DEF Rows, Row, OtherCalls

\* A thread is no further with a join or a detach, and no nearer to its end.
CallSame(v) ==
  /\ Gone(v)' <=> Gone(v)
  /\ Finished(v) => Finished(v)'
  /\ Beginning(v) /\ v \notin known => Beginning(v)'
  /\ at'[v].fn = "begin" => at[v].fn = "begin"
  /\ \/ /\ at'[v].fn = at[v].fn /\ at'[v].on = at[v].on
        /\ CallEarly(v)' <=> CallEarly(v)
        /\ JoinPast(v)' <=> JoinPast(v)
        /\ at'[v].pc = "rejoin" <=> at[v].pc = "rejoin"
        /\ DetachPast(v)' <=> DetachPast(v)
        /\ at[v].fn \in OtherCalls => SameCancel(v)
     \/ /\ at'[v].fn \notin OtherCalls
        /\ ~CallEarly(v) /\ ~JoinPast(v) /\ ~DetachPast(v)

LifeSame ==
  /\ known' = known
  /\ \A x \in Thread : SameLife(x) /\ CallSame(x)

LEMMA LifeFrame ==
  ASSUME Types, Rows, Uses, Life, LifeSame PROVE Uses' /\ Life'
<1>1. UseAlone'
  BY DEF LifeSame, CallSame, Uses, UseAlone, OtherCalls
<1>2. UseKnown'
  <2> SUFFICES ASSUME NEW v \in Thread, at'[v].fn \in OtherCalls
               PROVE  /\ at'[v].fn \in {"join", "cancel"} => at'[v].on \in known'
                      /\ at'[v].fn = "detach" => at'[v].on \notin known' /\ at'[v].on # Main
                      /\ ~Async(v)'
                      /\ at'[v].fn = "join" => at'[v].on # v /\ at'[at'[v].on].fn # "begin"
    BY DEF UseKnown, OtherCalls
  <2>1. /\ at'[v].fn = at[v].fn /\ at'[v].on = at[v].on
        /\ SameCancel(v) /\ known' = known
    BY DEF LifeSame, CallSame
  <2>2. at[v].on \in Thread
    BY <2>1, CallOn
  <2>3. at'[at[v].on].fn = "begin" => at[at[v].on].fn = "begin"
    BY <2>2 DEF LifeSame, CallSame
  <2>4. QED
    BY <2>1, <2>3 DEF SameCancel, Uses, UseKnown, Async
<1>3. CallFindsJoinable'
  <2> SUFFICES ASSUME NEW v \in Thread, CallEarly(v)' PROVE th'[at'[v].on].joinable
    BY DEF CallFindsJoinable
  <2>1. at'[v].on = at[v].on /\ CallEarly(v) /\ at[v].on \in Thread
    BY CallOn DEF LifeSame, CallSame, CallEarly, OtherCalls
  <2>2. QED
    BY <2>1 DEF LifeSame, SameLife, Life, CallFindsJoinable
<1>4. JoinRecorded'
  <2> SUFFICES ASSUME NEW v \in Thread, JoinPast(v)'
               PROVE  /\ ~th'[at'[v].on].joinable
                      /\ th'[at'[v].on].joiner = IF at'[v].pc = "rejoin" THEN None ELSE v
    BY DEF JoinRecorded
  <2>1. /\ at'[v].on = at[v].on /\ JoinPast(v) /\ at[v].on \in Thread
        /\ at'[v].pc = "rejoin" <=> at[v].pc = "rejoin"
    BY CallOn DEF LifeSame, CallSame, JoinPast, OtherCalls
  <2>2. QED
    BY <2>1 DEF LifeSame, SameLife, Life, JoinRecorded
<1>5. DetachLate'
  <2> SUFFICES ASSUME NEW v \in Thread, DetachPast(v)'
               PROVE  th'[at'[v].on].joinable /\ Finished(at[v].on)'
    BY DEF DetachLate
  <2>1. at'[v].on = at[v].on /\ DetachPast(v) /\ at[v].on \in Thread
    BY CallOn DEF LifeSame, CallSame, DetachPast, OtherCalls
  <2>2. QED
    BY <2>1 DEF LifeSame, SameLife, CallSame, Life, DetachLate, Finished
<1>6. JoinableFree'
  BY DEF LifeSame, SameLife, Life, JoinableFree
<1>7. KnownKept'
  <2> SUFFICES ASSUME NEW o \in known, o \in Thread
               PROVE  /\ Valid(o)' /\ o # Main
                      /\ ~th'[o].joinable => \E v \in Thread : JoinPast(v)' /\ at'[v].on = o
    BY DEF KnownKept, LifeSame, Types
  <2>1. Valid(o)' /\ o # Main /\ (th'[o].joinable <=> th[o].joinable)
    BY DEF LifeSame, SameLife, Valid, Life, KnownKept
  <2>2. ASSUME ~th[o].joinable PROVE \E v \in Thread : JoinPast(v)' /\ at'[v].on = o
    BY <2>2 DEF Life, KnownKept, LifeSame, CallSame
  <2>3. QED
    BY <2>1, <2>2
<1>8. DetachComing'
  <2> SUFFICES ASSUME NEW o \in Thread \ {Main}, Valid(o), o \notin known, th[o].joinable
               PROVE  \E v \in Thread : at'[v].on = o /\ at'[v].fn = "detach"
                                          /\ (CallEarly(v)' \/ DetachPast(v)')
    BY DEF DetachComing, LifeSame, SameLife, Valid
  <2>1. PICK v \in Thread : /\ at[v].on = o /\ at[v].fn = "detach"
                            /\ CallEarly(v) \/ DetachPast(v)
    BY DEF Life, DetachComing
  <2>2. QED
    BY <2>1 DEF LifeSame, CallSame
<1>9. DetachedLives'
  <2> SUFFICES ASSUME NEW o \in Thread, Valid(o), o \notin known, ~th[o].joinable
               PROVE  /\ ~Gone(o)'
                      /\ th'[o].joiner = o \/ (th'[o].joiner = None /\ Beginning(o)')
    BY DEF DetachedLives, LifeSame, SameLife, Valid
  <2>1. QED
    BY DEF Life, DetachedLives, LifeSame, CallSame, SameLife
<1>10. MainStays'
  BY ThreadAssumption DEF Life, MainStays, LifeSame, SameLife
<1>11. RunningExact'
  <2> SUFFICES ASSUME NEW o \in Thread \ {Main}, Valid(o) PROVE th'[o].running <=> ~Gone(o)'
    BY DEF RunningExact, LifeSame, SameLife, Valid
  <2>1. QED
    BY DEF Life, RunningExact, LifeSame, CallSame, SameLife
<1>12. QED
  BY <1>1, <1>2, <1>3, <1>4, <1>5, <1>6, <1>7, <1>8, <1>9, <1>10, <1>11 DEF Uses, Life

LEMMA LifeKept ==
  ASSUME Types, Rows, Uses, Life, NEW t \in Thread, Only(t), known' = known,
         \A x \in Thread : SameLife(x), \A x \in Thread \ {t} : SameCancel(x), CallSame(t)
  PROVE  Uses' /\ Life'
<1>1. ASSUME NEW x \in Thread \ {t} PROVE CallSame(x)
  BY DEF Only, CallSame, Gone, Finished, Beginning, CallEarly, JoinPast, DetachPast
<1>2. LifeSame
  BY <1>1 DEF LifeSame
<1>3. QED
  BY <1>2, LifeFrame

\* A step of t that is no step of a canceller leaves everybody as suspended as
\* before.
SuspendsQuiet(t) ==
  /\ Only(t)
  /\ at[t].pc # "suspended" /\ at'[t].pc # "suspended"
  /\ at'[t].suspends \in {0, at[t].suspends}
  /\ \A u \in Thread : Resumer(t, u)' <=> Resumer(t, u)

LEMMA SuspendsKept ==
  ASSUME Types, Suspends, NEW t \in Thread, SuspendsQuiet(t) PROVE Suspends'
<1>1. ASSUME NEW u \in Thread, NEW v \in Thread PROVE Resumer(v, u)' <=> Resumer(v, u)
  BY DEF SuspendsQuiet, Only, Resumer
<1>2. ASSUME NEW u \in Thread PROVE Resumers(u)' = Resumers(u)
  BY <1>1 DEF Resumers
<1>3. at[t].suspends = 0
  BY DEF Types, Places, Suspends, SuspendsQuiet
<1>4. ASSUME NEW u \in Thread
      PROVE  /\ at'[u].suspends = at[u].suspends
             /\ at'[u].pc = "suspended" <=> at[u].pc = "suspended"
  BY <1>3 DEF SuspendsQuiet, Only
<1>5. QED
  BY <1>1, <1>2, <1>4 DEF Suspends

\* A step that begins and ends no thread leaves their number alone.
LEMMA CountedKept ==
  ASSUME Counted, NEW t \in Thread, Only(t), Lives(t), Lives(t)', UNCHANGED process
  PROVE  Counted'
<1>1. \A x \in Thread : Lives(x)' <=> Lives(x)
  BY DEF Only, Lives
<1>2. Living' = Living
  BY <1>1 DEF Living
<1>3. QED
  BY <1>2 DEF Counted, process

\* A step of t disturbs nobody else's handlers.
LEMMA HandlersKept ==
  ASSUME Handlers, NEW t \in Thread, Only(t), HandlersOf(t)',
         \A x \in Thread \ {t} : /\ th'[x].object = th[x].object /\ SameStack(x)
                                 /\ pushed'[x] = pushed[x] /\ ran'[x] = ran[x]
  PROVE  Handlers'
<1>1. ASSUME NEW x \in Thread \ {t} PROVE HandlersOf(x)'
  BY DEF Only, Handlers, HandlersOf, SameStack, Valid, Finished
<1>2. QED
  BY <1>1 DEF Handlers

\* A step that makes and deletes no object leaves everybody housed.
HousedQuiet(t) ==
  /\ Only(t)
  /\ \A x \in Thread : th'[x].object = th[x].object /\ (~Valid(x) => SameLock(x))
  /\ \A x \in Thread \ {t} : pushed'[x] = pushed[x] /\ ran'[x] = ran[x]
  /\ at[t].pc # "none" /\ at'[t].pc # "none"
  /\ at'[t].pc \notin {"count", "ended"} => Valid(t)
  /\ at'[t].pc \notin OffSteps => Valid(at'[t].on)

LEMMA HousedKept ==
  ASSUME Housed, Rows', NEW t \in Thread, HousedQuiet(t) PROVE Housed'
<1>1. ASSUME NEW x \in Thread PROVE Valid(x)' <=> Valid(x)
  BY DEF HousedQuiet, Valid
<1>2. ASSUME NEW x \in Thread, at'[x].pc \notin OffSteps PROVE Valid(at[x].on)'
  <2>1. at'[x].on \in Thread
    BY <1>2 DEF Rows, Row
  <2>2. Valid(at'[x].on)
    BY <1>2 DEF HousedQuiet, Only, Housed
  <2>3. QED
    BY <1>1, <2>1, <2>2 DEF Valid
<1>3. /\ \A x \in Thread : at'[x].pc \notin {"none", "count", "ended"} => Valid(x)'
      /\ \A x \in Thread : Valid(x)' => at'[x].pc # "none"
  BY <1>1 DEF HousedQuiet, Only, Housed
<1>4. \A x \in Thread : ~Valid(x)' => th'[x].lock_counter = 0 /\ th'[x].semaphore = 0
  BY <1>1 DEF HousedQuiet, SameLock, Housed
<1>5. ASSUME NEW x \in Thread, th'[x].object = "none"
      PROVE  at'[x].pc = "none" /\ pushed'[x] = 0 /\ ran'[x] = 0
  <2>1. th[x].object = "none" /\ at[x].pc = "none"
    BY <1>5 DEF HousedQuiet, Housed
  <2>2. x # t
    BY <2>1 DEF HousedQuiet
  <2>3. QED
    BY <2>1, <2>2 DEF HousedQuiet, Only, Housed
<1>6. QED
  BY <1>2, <1>3, <1>4, <1>5 DEF Housed

LEMMA RowsKept ==
  ASSUME Rows, NEW t \in Thread, Only(t), Row(t)' PROVE Rows'
<1>1. ASSUME NEW x \in Thread \ {t} PROVE Row(x)'
  BY DEF Rows, Row, Then, Only
<1>2. QED
  BY <1>1 DEF Rows

-----------------------------------------------------------------------------
(* The quiet steps *)

USE DEF OffSteps, Early, Leaving, SelfCalls, OtherCalls, CancelSettings


\* t takes a step of its own, in or out of a call, and nothing happens to others.
Quiet(t) ==
  /\ Row(t)'
  /\ HousedQuiet(t)
  /\ SuspendsQuiet(t)
  /\ Lives(t) /\ Lives(t)' /\ UNCHANGED process
  /\ HandlersOf(t)'
  /\ \A x \in Thread \ {t} : SameStack(x)

LEMMA QuietStep ==
  ASSUME IInv, NEW t \in Thread, Quiet(t)
  PROVE  Rows' /\ Housed' /\ Suspends' /\ Handlers' /\ Counted'
<1>1. Rows'
  BY RowsKept DEF IInv, Quiet, HousedQuiet
<1>2. Housed'
  BY <1>1, HousedKept DEF IInv, Quiet
<1>3. Suspends'
  BY SuspendsKept DEF IInv, Quiet
<1>4. Handlers'
  BY HandlersKept DEF IInv, Quiet, HousedQuiet
<1>5. Counted'
  BY CountedKept DEF IInv, Quiet, HousedQuiet
<1>6. QED
  BY <1>1, <1>2, <1>3, <1>4, <1>5

\* A step of t that leaves it where it is in a join, a detach, its beginning or end
LifeQuiet(t) ==
  /\ known' = known
  /\ \A x \in Thread : SameLife(x)
  /\ \A x \in Thread \ {t} : SameCancel(x)
  /\ CallSame(t)

LEMMA LifeStays ==
  ASSUME IInv, NEW t \in Thread, Only(t), LifeQuiet(t) PROVE Uses' /\ Life'
  BY LifeKept DEF IInv, LifeQuiet

\* What is known of a thread that takes a step
LEMMA Here ==
  ASSUME IInv, NEW t \in Thread, at[t].pc \notin OffSteps
  PROVE  /\ at[t].on \in Thread /\ Valid(at[t].on) /\ Valid(t)
         /\ at[t].fn \in SelfCalls \cup OtherCalls
  BY DEF IInv, Rows, Row, Housed, OffSteps

\* The mutex
LEMMA LockQuiet ==
  ASSUME IInv, NEW t \in Thread, Lock(t)
  PROVE  Quiet(t) /\ LifeQuiet(t)
<1>0. PICK o \in Thread : o = at[t].on /\ Valid(o) /\ Valid(t)
  BY Here DEF Lock, In, OffSteps
<1>1. LockOnly(o, th[o].lock_counter + 1, th[o].semaphore)
      /\ Went(t, IF th[o].lock_counter = 0 THEN "in" ELSE "wait")
  BY <1>0, LockEffect DEF IInv
<1>2. Row(t)'
  BY <1>0, <1>1, NoneAssumption DEF LockOnly, SameLife, SameLock, SameStack, Went, Only,
     Lock, In, IInv, Rows, Row, Then
<1>3. HousedQuiet(t)
  BY <1>0, <1>1 DEF LockOnly, SameLife, SameLock, SameStack, Went, Only, Lock, In,
     HousedQuiet, hist, IInv, Housed
<1>4. SuspendsQuiet(t)
  BY <1>0, <1>1 DEF LockOnly, SameLife, SameLock, SameStack, Went, Only, Lock, In,
     SuspendsQuiet, Resumer, IInv, Rows, Row, Then
<1>5. HandlersOf(t)'
  BY <1>0, <1>1, BoundAssumption, NoneAssumption, SMTT(20) DEF LockOnly, SameLife, SameLock,
     SameStack, Went, Only, Lock, In, hist, IInv, Types, Objects, Handlers, HandlersOf,
     Valid, Finished, Rows, Row, Then
<1>7. LifeQuiet(t)
  BY <1>0, <1>1, NoneAssumption DEF LockOnly, SameLife, SameLock, SameStack, Went, Only,
     Lock, In, hist, LifeQuiet, CallSame, Gone, Finished, Beginning, CallEarly, JoinPast,
     DetachPast, SameCancel, IInv, Rows, Row, Then
<1>8. QED
  BY <1>0, <1>1, <1>2, <1>3, <1>4, <1>5, <1>7 DEF LockOnly, SameLife, SameLock, SameStack,
     Went, Only, Lock, In, Quiet, Lives, process, IInv, Rows, Row, Then

LEMMA WaitQuiet ==
  ASSUME IInv, NEW t \in Thread, Wait(t)
  PROVE  Quiet(t) /\ LifeQuiet(t)
<1>0. PICK o \in Thread : o = at[t].on /\ Valid(o) /\ Valid(t)
  BY Here DEF Wait, In, OffSteps
<1>1. LockOnly(o, th[o].lock_counter, th[o].semaphore - 1) /\ Went(t, "in")
  BY <1>0, WaitEffect DEF IInv
<1>2. Row(t)'
  BY <1>0, <1>1, NoneAssumption DEF LockOnly, SameLife, SameLock, SameStack, Went, Only,
     Wait, In, IInv, Rows, Row, Then
<1>3. HousedQuiet(t)
  BY <1>0, <1>1 DEF LockOnly, SameLife, SameLock, SameStack, Went, Only, Wait, In,
     HousedQuiet, hist, IInv, Housed
<1>4. SuspendsQuiet(t)
  BY <1>0, <1>1 DEF LockOnly, SameLife, SameLock, SameStack, Went, Only, Wait, In,
     SuspendsQuiet, Resumer, IInv, Rows, Row, Then
<1>5. HandlersOf(t)'
  BY <1>0, <1>1, BoundAssumption, NoneAssumption DEF LockOnly, SameLife, SameLock,
     SameStack, Went, Only, Wait, In, hist, IInv, Types, Objects, Handlers, HandlersOf,
     Valid, Finished, Rows, Row, Then
<1>7. LifeQuiet(t)
  BY <1>0, <1>1, NoneAssumption DEF LockOnly, SameLife, SameLock, SameStack, Went, Only,
     Wait, In, hist, LifeQuiet, CallSame, Gone, Finished, Beginning, CallEarly, JoinPast,
     DetachPast, SameCancel, IInv, Rows, Row, Then
<1>8. QED
  BY <1>0, <1>1, <1>2, <1>3, <1>4, <1>5, <1>7 DEF LockOnly, SameLife, SameLock, SameStack,
     Went, Only, Wait, In, Quiet, Lives, process, IInv, Rows, Row, Then

LEMMA UnlockQuiet ==
  ASSUME IInv, NEW t \in Thread, Unlock(t)
  PROVE  Quiet(t) /\ LifeQuiet(t)
<1>0. PICK o \in Thread : o = at[t].on /\ Valid(o) /\ Valid(t)
  BY Here DEF Unlock, In, OffSteps
<1>1. /\ LockOnly(o, th[o].lock_counter - 1, th[o].semaphore)
      /\ \/ Went(t, "post")
         \/ Out(t, at[t].then) /\ at[t].then \in {"run", "exit", "count", "self"}
         \/ Went(t, at[t].then) /\ at[t].then \notin {"run", "exit", "count", "self"}
  BY <1>0, UnlockEffect DEF IInv
<1>2. /\ at[t].pc = "unlock" /\ Then(t)
      /\ at[t].fn \in SelfCalls \cup OtherCalls /\ at[t].on \in Thread
  BY DEF Unlock, IInv, Rows, Row, Leaving, OffSteps
<1>3. Row(t)'
  <2>1. Row(t)
    BY DEF IInv, Rows
  <2>2. CASE Out(t, at[t].then) /\ at[t].then \in {"run", "exit", "count", "self"}
    BY <2>2, NoneAssumption DEF Out, Row, OffSteps, SelfCalls, OtherCalls, CancelSettings,
       Leaving
  <2>3. CASE Went(t, at[t].then) /\ at[t].then \notin {"run", "exit", "count", "self"}
    BY <1>2, <2>1, <2>3 DEF Went, Row, Then, OffSteps, SelfCalls, OtherCalls,
       CancelSettings, Leaving
  <2>4. CASE Went(t, "post")
    BY <1>2, <2>1, <2>4 DEF Went, Row, Then, OffSteps, Leaving
  <2>5. QED
    BY <1>1, <2>2, <2>3, <2>4
<1>4. HousedQuiet(t)
  BY <1>0, <1>1 DEF LockOnly, SameLife, SameLock, SameStack, Went, Out, Only, Unlock, In,
     HousedQuiet, hist, IInv, Housed, Rows, Row, Then
<1>5. SuspendsQuiet(t)
  BY <1>1, <1>2, NoneAssumption DEF Went, Out, Only, SuspendsQuiet, Resumer, Then, Leaving,
     SelfCalls, OtherCalls, CancelSettings
<1>6. HandlersOf(t)'
  <2>1. /\ at[t].then \notin Early \cup {"pop", "ended"}
        /\ at[t].then = "count" => at[t].fn = "exit"
    BY Here DEF Unlock, IInv, Rows, Row, Then
  <2>2. /\ at'[t].pc \notin Early \cup {"pop", "ended"}
        /\ at'[t].pc = "count" \/ at'[t].fn = "exit" => at[t].fn = "exit"
    BY <1>1, <2>1, NoneAssumption DEF Went, Out
  <2>3. HandlersOf(t) /\ at[t].pc = "unlock"
    BY DEF IInv, Handlers, Unlock
  <2>4. /\ Valid(t)' <=> Valid(t)
        /\ SameStack(t) /\ pushed' = pushed /\ ran' = ran
    BY <1>1 DEF LockOnly, SameLife, Valid, Unlock, hist
  <2>5. QED
    BY <2>2, <2>3, <2>4 DEF HandlersOf, SameStack, Finished
<1>7. LifeQuiet(t)
  BY <1>0, <1>1, NoneAssumption, ZenonT(30) DEF LockOnly, SameLife, SameLock, SameStack,
     Went, Out, Only, Unlock, In, hist, LifeQuiet, CallSame, Gone, Finished, Beginning,
     CallEarly, JoinPast, DetachPast, SameCancel, IInv, Rows, Row, Then
<1>8. QED
  <2>1. Lives(t) /\ Lives(t)'
    BY <1>1, <1>2 DEF Went, Out, Lives, Then, SelfCalls, OtherCalls, CancelSettings
  <2>2. UNCHANGED process /\ \A x \in Thread \ {t} : SameStack(x)
    BY <1>1 DEF Unlock, LockOnly
  <2>3. QED
    BY <1>3, <1>4, <1>5, <1>6, <1>7, <2>1, <2>2 DEF Quiet

LEMMA PostQuiet ==
  ASSUME IInv, NEW t \in Thread, Post(t)
  PROVE  Quiet(t) /\ LifeQuiet(t)
<1>0. PICK o \in Thread : o = at[t].on /\ Valid(o) /\ Valid(t)
  BY Here DEF Post, In, OffSteps
<1>1. /\ LockOnly(o, th[o].lock_counter, th[o].semaphore + 1)
      /\ \/ Out(t, at[t].then) /\ at[t].then \in {"run", "exit", "count", "self"}
         \/ Went(t, at[t].then) /\ at[t].then \notin {"run", "exit", "count", "self"}
  BY <1>0, PostEffect DEF IInv
<1>2. /\ at[t].pc = "post" /\ Then(t)
      /\ at[t].fn \in SelfCalls \cup OtherCalls /\ at[t].on \in Thread
  BY DEF Post, IInv, Rows, Row, Leaving, OffSteps
<1>3. Row(t)'
  <2>1. Row(t)
    BY DEF IInv, Rows
  <2>2. CASE Out(t, at[t].then) /\ at[t].then \in {"run", "exit", "count", "self"}
    BY <2>2, NoneAssumption DEF Out, Row, OffSteps, SelfCalls, OtherCalls, CancelSettings,
       Leaving
  <2>3. CASE Went(t, at[t].then) /\ at[t].then \notin {"run", "exit", "count", "self"}
    BY <1>2, <2>1, <2>3 DEF Went, Row, Then, OffSteps, SelfCalls, OtherCalls,
       CancelSettings, Leaving
  <2>4. QED
    BY <1>1, <2>2, <2>3
<1>4. HousedQuiet(t)
  BY <1>0, <1>1 DEF LockOnly, SameLife, SameLock, SameStack, Went, Out, Only, Post, In,
     HousedQuiet, hist, IInv, Housed, Rows, Row, Then
<1>5. SuspendsQuiet(t)
  BY <1>1, <1>2, NoneAssumption DEF Went, Out, Only, SuspendsQuiet, Resumer, Then, Leaving,
     SelfCalls, OtherCalls, CancelSettings
<1>6. HandlersOf(t)'
  <2>1. /\ at[t].then \notin Early \cup {"pop", "ended"}
        /\ at[t].then = "count" => at[t].fn = "exit"
    BY Here DEF Post, IInv, Rows, Row, Then
  <2>2. /\ at'[t].pc \notin Early \cup {"pop", "ended"}
        /\ at'[t].pc = "count" \/ at'[t].fn = "exit" => at[t].fn = "exit"
    BY <1>1, <2>1, NoneAssumption DEF Went, Out
  <2>3. HandlersOf(t) /\ at[t].pc = "post"
    BY DEF IInv, Handlers, Post
  <2>4. /\ Valid(t)' <=> Valid(t)
        /\ SameStack(t) /\ pushed' = pushed /\ ran' = ran
    BY <1>1 DEF LockOnly, SameLife, Valid, Post, hist
  <2>5. QED
    BY <2>2, <2>3, <2>4 DEF HandlersOf, SameStack, Finished
<1>7. LifeQuiet(t)
  BY <1>0, <1>1, NoneAssumption, ZenonT(30) DEF LockOnly, SameLife, SameLock, SameStack,
     Went, Out, Only, Post, In, hist, LifeQuiet, CallSame, Gone, Finished, Beginning,
     CallEarly, JoinPast, DetachPast, SameCancel, IInv, Rows, Row, Then
<1>8. QED
  <2>1. Lives(t) /\ Lives(t)'
    BY <1>1, <1>2 DEF Went, Out, Lives, Then, SelfCalls, OtherCalls, CancelSettings
  <2>2. UNCHANGED process /\ \A x \in Thread \ {t} : SameStack(x)
    BY <1>1 DEF Post, LockOnly
  <2>3. QED
    BY <1>3, <1>4, <1>5, <1>6, <1>7, <2>1, <2>2 DEF Quiet

\* The beginning and the end
LEMMA BeginQuiet ==
  ASSUME IInv, NEW t \in Thread, Begin(t)
  PROVE  Quiet(t) /\ MutexQuiet(t)
<1>0. PICK o \in Thread : o = at[t].on /\ Valid(o) /\ Valid(t)
  BY Here DEF Begin, In, OffSteps
<1>1. LifeOnly(t) /\ Left(t, "run") /\ th'[t].object = th[t].object
  BY <1>0, BeginEffect DEF IInv
<1>2. Row(t)'
  BY <1>0, <1>1, NoneAssumption DEF LifeOnly, SameLife, SameLock, SameStack, Left, Only,
     Begin, In, IInv, Rows, Row, Then
<1>3. HousedQuiet(t)
  BY <1>0, <1>1 DEF LifeOnly, SameLife, SameLock, SameStack, Left, Only, Begin, In,
     HousedQuiet, hist, IInv, Housed
<1>4. SuspendsQuiet(t)
  BY <1>0, <1>1 DEF LifeOnly, SameLife, SameLock, SameStack, Left, Only, Begin, In,
     SuspendsQuiet, Resumer, IInv, Rows, Row, Then
<1>5. HandlersOf(t)'
  BY <1>0, <1>1, BoundAssumption, NoneAssumption DEF LifeOnly, SameLife, SameLock,
     SameStack, Left, Only, Begin, In, hist, IInv, Types, Objects, Handlers, HandlersOf,
     Valid, Finished, Rows, Row, Then
<1>6. MutexQuiet(t)
  BY <1>0, <1>1 DEF LifeOnly, SameLife, SameLock, SameStack, Left, Only, Begin, In,
     MutexQuiet, Touching
<1>8. QED
  BY <1>0, <1>1, <1>2, <1>3, <1>4, <1>5, <1>6 DEF LifeOnly, SameLife, SameLock, SameStack,
     Left, Only, Begin, In, Quiet, Lives, process, IInv, Rows, Row, Then

LEMMA ExitQuiet ==
  ASSUME IInv, NEW t \in Thread, Exit(t)
  PROVE  Quiet(t) /\ MutexQuiet(t) /\ LifeQuiet(t)
<1>0. Valid(t)
  BY DEF Exit, In, IInv, Housed, MayEnd
<1>1. SameObjects /\ Out(t, "exit")
  BY Unchanged, ExitingPlace DEF Exit, IInv
<1>2. Row(t)'
  BY <1>0, <1>1, NoneAssumption DEF SameObjects, SameLife, SameLock, SameStack, Out, Only,
     Exit, In, IInv, Rows, Row, Then
<1>3. HousedQuiet(t)
  BY <1>0, <1>1 DEF SameObjects, SameLife, SameLock, SameStack, Out, Only, Exit, In,
     HousedQuiet, hist, IInv, Housed
<1>4. SuspendsQuiet(t)
  BY <1>0, <1>1 DEF SameObjects, SameLife, SameLock, SameStack, Out, Only, Exit, In,
     SuspendsQuiet, Resumer, IInv, Rows, Row, Then
<1>5. HandlersOf(t)'
  BY <1>0, <1>1, BoundAssumption, NoneAssumption DEF SameObjects, SameLife, SameLock,
     SameStack, Out, Only, Exit, In, hist, IInv, Types, Objects, Handlers, HandlersOf,
     Valid, Finished, Rows, Row, Then
<1>6. MutexQuiet(t)
  BY <1>0, <1>1 DEF SameObjects, SameLife, SameLock, SameStack, Out, Only, Exit, In,
     MutexQuiet, Touching
<1>7. LifeQuiet(t)
  BY <1>0, <1>1, NoneAssumption DEF SameObjects, SameLife, SameLock, SameStack, Out, Only,
     Exit, In, hist, LifeQuiet, CallSame, Gone, Finished, Beginning, CallEarly, JoinPast,
     DetachPast, SameCancel, IInv, Rows, Row, Then
<1>8. QED
  BY <1>0, <1>1, <1>2, <1>3, <1>4, <1>5, <1>6, <1>7 DEF SameObjects, SameLife, SameLock,
     SameStack, Out, Only, Exit, In, Quiet, Lives, process, IInv, Rows, Row, Then

LEMMA TestcancelQuiet ==
  ASSUME IInv, NEW t \in Thread, Testcancel(t)
  PROVE  Quiet(t) /\ MutexQuiet(t) /\ LifeQuiet(t)
<1>0. Valid(t)
  BY DEF Testcancel, In, IInv, Housed, MayEnd
<1>1. SameObjects /\ Out(t, "exit")
  BY Unchanged, ExitingPlace DEF Testcancel, IInv
<1>2. Row(t)'
  BY <1>0, <1>1, NoneAssumption DEF SameObjects, SameLife, SameLock, SameStack, Out, Only,
     Testcancel, In, IInv, Rows, Row, Then
<1>3. HousedQuiet(t)
  BY <1>0, <1>1 DEF SameObjects, SameLife, SameLock, SameStack, Out, Only, Testcancel, In,
     HousedQuiet, hist, IInv, Housed
<1>4. SuspendsQuiet(t)
  BY <1>0, <1>1 DEF SameObjects, SameLife, SameLock, SameStack, Out, Only, Testcancel, In,
     SuspendsQuiet, Resumer, IInv, Rows, Row, Then
<1>5. HandlersOf(t)'
  BY <1>0, <1>1, BoundAssumption, NoneAssumption DEF SameObjects, SameLife, SameLock,
     SameStack, Out, Only, Testcancel, In, hist, IInv, Types, Objects, Handlers,
     HandlersOf, Valid, Finished, Rows, Row, Then
<1>6. MutexQuiet(t)
  BY <1>0, <1>1 DEF SameObjects, SameLife, SameLock, SameStack, Out, Only, Testcancel, In,
     MutexQuiet, Touching
<1>7. LifeQuiet(t)
  BY <1>0, <1>1, NoneAssumption DEF SameObjects, SameLife, SameLock, SameStack, Out, Only,
     Testcancel, In, hist, LifeQuiet, CallSame, Gone, Finished, Beginning, CallEarly,
     JoinPast, DetachPast, SameCancel, IInv, Rows, Row, Then
<1>8. QED
  BY <1>0, <1>1, <1>2, <1>3, <1>4, <1>5, <1>6, <1>7 DEF SameObjects, SameLife, SameLock,
     SameStack, Out, Only, Testcancel, In, Quiet, Lives, process, IInv, Rows, Row, Then

LEMMA ExitLockQuiet ==
  ASSUME IInv, NEW t \in Thread, ExitLock(t)
  PROVE  Quiet(t) /\ MutexQuiet(t) /\ LifeQuiet(t)
<1>0. Valid(t)
  BY DEF ExitLock, In, IInv, Housed, MayEnd
<1>1. SameObjects /\ Called(t, IF th[t].cleanup_stack > 0 THEN "pop" ELSE "exit", t)
  BY Unchanged, CallPlace DEF ExitLock, IInv
<1>2. Row(t)'
  BY <1>0, <1>1, NoneAssumption DEF SameObjects, SameLife, SameLock, SameStack, Called,
     Only, ExitLock, In, IInv, Rows, Row, Then
<1>3. HousedQuiet(t)
  BY <1>0, <1>1 DEF SameObjects, SameLife, SameLock, SameStack, Called, Only, ExitLock,
     In, HousedQuiet, hist, IInv, Housed
<1>4. SuspendsQuiet(t)
  BY <1>0, <1>1 DEF SameObjects, SameLife, SameLock, SameStack, Called, Only, ExitLock,
     In, SuspendsQuiet, Resumer, IInv, Rows, Row, Then
<1>5. HandlersOf(t)'
  BY <1>0, <1>1, BoundAssumption, NoneAssumption DEF SameObjects, SameLife, SameLock,
     SameStack, Called, Only, ExitLock, In, hist, IInv, Types, Objects, Handlers,
     HandlersOf, Valid, Finished, Rows, Row, Then
<1>6. MutexQuiet(t)
  BY <1>0, <1>1 DEF SameObjects, SameLife, SameLock, SameStack, Called, Only, ExitLock,
     In, MutexQuiet, Touching
<1>7. LifeQuiet(t)
  BY <1>0, <1>1, NoneAssumption DEF SameObjects, SameLife, SameLock, SameStack, Called,
     Only, ExitLock, In, hist, LifeQuiet, CallSame, Gone, Finished, Beginning, CallEarly,
     JoinPast, DetachPast, SameCancel, IInv, Rows, Row, Then
<1>8. QED
  BY <1>0, <1>1, <1>2, <1>3, <1>4, <1>5, <1>6, <1>7 DEF SameObjects, SameLife, SameLock,
     SameStack, Called, Only, ExitLock, In, Quiet, Lives, process, IInv, Rows, Row, Then

LEMMA ExitKeepQuiet ==
  ASSUME IInv, NEW t \in Thread, ExitKeep(t)
  PROVE  Quiet(t) /\ MutexQuiet(t)
<1>0. PICK o \in Thread : o = at[t].on /\ Valid(o) /\ Valid(t)
  BY Here DEF ExitKeep, In, OffSteps
<1>1. LifeOnly(t) /\ Left(t, "count") /\ th'[t].object = th[t].object
  BY <1>0, ExitKeepEffect DEF IInv
<1>2. Row(t)'
  BY <1>0, <1>1, NoneAssumption DEF LifeOnly, SameLife, SameLock, SameStack, Left, Only,
     ExitKeep, In, IInv, Rows, Row, Then
<1>3. HousedQuiet(t)
  BY <1>0, <1>1 DEF LifeOnly, SameLife, SameLock, SameStack, Left, Only, ExitKeep, In,
     HousedQuiet, hist, IInv, Housed
<1>4. SuspendsQuiet(t)
  BY <1>0, <1>1 DEF LifeOnly, SameLife, SameLock, SameStack, Left, Only, ExitKeep, In,
     SuspendsQuiet, Resumer, IInv, Rows, Row, Then
<1>5. HandlersOf(t)'
  BY <1>0, <1>1, BoundAssumption, NoneAssumption DEF LifeOnly, SameLife, SameLock,
     SameStack, Left, Only, ExitKeep, In, hist, IInv, Types, Objects, Handlers,
     HandlersOf, Valid, Finished, Rows, Row, Then
<1>6. MutexQuiet(t)
  BY <1>0, <1>1 DEF LifeOnly, SameLife, SameLock, SameStack, Left, Only, ExitKeep, In,
     MutexQuiet, Touching
<1>8. QED
  BY <1>0, <1>1, <1>2, <1>3, <1>4, <1>5, <1>6 DEF LifeOnly, SameLife, SameLock, SameStack,
     Left, Only, ExitKeep, In, Quiet, Lives, process, IInv, Rows, Row, Then

\* Cancellation
LEMMA SetQuiet ==
  ASSUME IInv, NEW t \in Thread, NEW new \in CancelSettings, Set(t, new)
  PROVE  Quiet(t) /\ MutexQuiet(t) /\ LifeQuiet(t)
<1>0. Valid(t)
  BY DEF Set, In, IInv, Housed, MayEnd
<1>1. SameObjects /\ Called(t, new, t)
  BY Unchanged, CallPlace DEF Set, IInv
<1>2. Row(t)'
  BY <1>0, <1>1, NoneAssumption DEF SameObjects, SameLife, SameLock, SameStack, Called,
     Only, Set, In, IInv, Rows, Row, Then
<1>3. HousedQuiet(t)
  BY <1>0, <1>1 DEF SameObjects, SameLife, SameLock, SameStack, Called, Only, Set, In,
     HousedQuiet, hist, IInv, Housed
<1>4. SuspendsQuiet(t)
  BY <1>0, <1>1 DEF SameObjects, SameLife, SameLock, SameStack, Called, Only, Set, In,
     SuspendsQuiet, Resumer, IInv, Rows, Row, Then
<1>5. HandlersOf(t)'
  BY <1>0, <1>1, BoundAssumption, NoneAssumption DEF SameObjects, SameLife, SameLock,
     SameStack, Called, Only, Set, In, hist, IInv, Types, Objects, Handlers, HandlersOf,
     Valid, Finished, Rows, Row, Then
<1>6. MutexQuiet(t)
  BY <1>0, <1>1 DEF SameObjects, SameLife, SameLock, SameStack, Called, Only, Set, In,
     MutexQuiet, Touching
<1>7. LifeQuiet(t)
  BY <1>0, <1>1, NoneAssumption DEF SameObjects, SameLife, SameLock, SameStack, Called,
     Only, Set, In, hist, LifeQuiet, CallSame, Gone, Finished, Beginning, CallEarly,
     JoinPast, DetachPast, SameCancel, IInv, Rows, Row, Then
<1>8. QED
  BY <1>0, <1>1, <1>2, <1>3, <1>4, <1>5, <1>6, <1>7 DEF SameObjects, SameLife, SameLock,
     SameStack, Called, Only, Set, In, Quiet, Lives, process, IInv, Rows, Row, Then

LEMMA SetBodyQuiet ==
  ASSUME IInv, NEW t \in Thread, SetBody(t)
  PROVE  Quiet(t) /\ MutexQuiet(t) /\ LifeQuiet(t)
<1>0. PICK o \in Thread : o = at[t].on /\ Valid(o) /\ Valid(t)
  BY Here DEF SetBody, In, OffSteps
<1>1. CancelOnly(t) /\ Left(t, "run")
  BY <1>0, SetBodyEffect DEF IInv
<1>2. Row(t)'
  BY <1>0, <1>1, NoneAssumption DEF CancelOnly, SameLife, SameLock, SameStack, Left, Only,
     SetBody, In, IInv, Rows, Row, Then
<1>3. HousedQuiet(t)
  BY <1>0, <1>1 DEF CancelOnly, SameLife, SameLock, SameStack, Left, Only, SetBody, In,
     HousedQuiet, hist, IInv, Housed
<1>4. SuspendsQuiet(t)
  BY <1>0, <1>1 DEF CancelOnly, SameLife, SameLock, SameStack, Left, Only, SetBody, In,
     SuspendsQuiet, Resumer, IInv, Rows, Row, Then
<1>5. HandlersOf(t)'
  BY <1>0, <1>1, BoundAssumption, NoneAssumption DEF CancelOnly, SameLife, SameLock,
     SameStack, Left, Only, SetBody, In, hist, IInv, Types, Objects, Handlers, HandlersOf,
     Valid, Finished, Rows, Row, Then
<1>6. MutexQuiet(t)
  BY <1>0, <1>1 DEF CancelOnly, SameLife, SameLock, SameStack, Left, Only, SetBody, In,
     MutexQuiet, Touching
<1>7. LifeQuiet(t)
  BY <1>0, <1>1, NoneAssumption DEF CancelOnly, SameLife, SameLock, SameStack, Left, Only,
     SetBody, In, hist, LifeQuiet, CallSame, Gone, Finished, Beginning, CallEarly,
     JoinPast, DetachPast, SameCancel, IInv, Rows, Row, Then
<1>8. QED
  BY <1>0, <1>1, <1>2, <1>3, <1>4, <1>5, <1>6, <1>7 DEF CancelOnly, SameLife, SameLock,
     SameStack, Left, Only, SetBody, In, Quiet, Lives, process, IInv, Rows, Row, Then

LEMMA CancelQuiet ==
  ASSUME IInv, NEW t \in Thread, NEW u \in Thread, Cancel(t, u)
  PROVE  Quiet(t) /\ MutexQuiet(t)
<1>0. Valid(t) /\ Valid(u)
  BY DEF Cancel, MayEnd, IInv, Housed, Life, KnownKept
<1>1. SameObjects /\ Called(t, "cancel", u)
  BY Unchanged, CallPlace DEF Cancel, IInv
<1>2. Row(t)'
  BY <1>0, <1>1, NoneAssumption DEF SameObjects, SameLife, SameLock, SameStack, Called,
     Only, Cancel, In, IInv, Rows, Row, Then
<1>3. HousedQuiet(t)
  BY <1>0, <1>1 DEF SameObjects, SameLife, SameLock, SameStack, Called, Only, Cancel, In,
     HousedQuiet, hist, IInv, Housed
<1>4. SuspendsQuiet(t)
  BY <1>0, <1>1 DEF SameObjects, SameLife, SameLock, SameStack, Called, Only, Cancel, In,
     SuspendsQuiet, Resumer, IInv, Rows, Row, Then
<1>5. HandlersOf(t)'
  BY <1>0, <1>1, BoundAssumption, NoneAssumption DEF SameObjects, SameLife, SameLock,
     SameStack, Called, Only, Cancel, In, hist, IInv, Types, Objects, Handlers,
     HandlersOf, Valid, Finished, Rows, Row, Then
<1>6. MutexQuiet(t)
  BY <1>0, <1>1 DEF SameObjects, SameLife, SameLock, SameStack, Called, Only, Cancel, In,
     MutexQuiet, Touching
<1>8. QED
  BY <1>0, <1>1, <1>2, <1>3, <1>4, <1>5, <1>6 DEF SameObjects, SameLife, SameLock,
     SameStack, Called, Only, Cancel, In, Quiet, Lives, process, IInv, Rows, Row, Then

LEMMA CancelBodyQuiet ==
  ASSUME IInv, NEW t \in Thread, CancelBody(t)
  PROVE  Quiet(t) /\ MutexQuiet(t) /\ LifeQuiet(t)
<1>0. Valid(t) /\ Valid(at[t].on)
  BY Here DEF CancelBody, In, OffSteps
<1>1. PICK then \in {"run", "setevent", "self"} : SameObjects /\ Left(t, then)
  BY Unchanged, LeavePlace DEF CancelBody, IInv
<1>2. Row(t)'
  BY <1>0, <1>1, NoneAssumption DEF SameObjects, SameLife, SameLock, SameStack, Left,
     Only, CancelBody, In, IInv, Rows, Row, Then
<1>3. HousedQuiet(t)
  BY <1>0, <1>1 DEF SameObjects, SameLife, SameLock, SameStack, Left, Only, CancelBody,
     In, HousedQuiet, hist, IInv, Housed
<1>4. SuspendsQuiet(t)
  BY <1>0, <1>1 DEF SameObjects, SameLife, SameLock, SameStack, Left, Only, CancelBody,
     In, SuspendsQuiet, Resumer, IInv, Rows, Row, Then
<1>5. HandlersOf(t)'
  BY <1>0, <1>1, BoundAssumption, NoneAssumption DEF SameObjects, SameLife, SameLock,
     SameStack, Left, Only, CancelBody, In, hist, IInv, Types, Objects, Handlers,
     HandlersOf, Valid, Finished, Rows, Row, Then
<1>6. MutexQuiet(t)
  BY <1>0, <1>1 DEF SameObjects, SameLife, SameLock, SameStack, Left, Only, CancelBody,
     In, MutexQuiet, Touching
<1>7. LifeQuiet(t)
  BY <1>0, <1>1, NoneAssumption DEF SameObjects, SameLife, SameLock, SameStack, Left,
     Only, CancelBody, In, hist, LifeQuiet, CallSame, Gone, Finished, Beginning,
     CallEarly, JoinPast, DetachPast, SameCancel, IInv, Rows, Row, Then
<1>8. QED
  BY <1>0, <1>1, <1>2, <1>3, <1>4, <1>5, <1>6, <1>7 DEF SameObjects, SameLife, SameLock,
     SameStack, Left, Only, CancelBody, In, Quiet, Lives, process, IInv, Rows, Row, Then

LEMMA SetEventQuiet ==
  ASSUME IInv, NEW t \in Thread, SetEvent(t)
  PROVE  Quiet(t) /\ MutexQuiet(t) /\ LifeQuiet(t)
<1>0. PICK o \in Thread : o = at[t].on /\ Valid(o) /\ Valid(t)
  BY Here DEF SetEvent, In, OffSteps
<1>1. SameObjects /\ Out(t, "run")
  BY <1>0, SetEventEffect DEF IInv
<1>2. Row(t)'
  BY <1>0, <1>1, NoneAssumption DEF SameObjects, SameLife, SameLock, SameStack, Out, Only,
     SetEvent, In, IInv, Rows, Row, Then
<1>3. HousedQuiet(t)
  BY <1>0, <1>1 DEF SameObjects, SameLife, SameLock, SameStack, Out, Only, SetEvent, In,
     HousedQuiet, hist, IInv, Housed
<1>4. SuspendsQuiet(t)
  BY <1>0, <1>1 DEF SameObjects, SameLife, SameLock, SameStack, Out, Only, SetEvent, In,
     SuspendsQuiet, Resumer, IInv, Rows, Row, Then
<1>5. HandlersOf(t)'
  BY <1>0, <1>1, BoundAssumption, NoneAssumption DEF SameObjects, SameLife, SameLock,
     SameStack, Out, Only, SetEvent, In, hist, IInv, Types, Objects, Handlers, HandlersOf,
     Valid, Finished, Rows, Row, Then
<1>6. MutexQuiet(t)
  BY <1>0, <1>1 DEF SameObjects, SameLife, SameLock, SameStack, Out, Only, SetEvent, In,
     MutexQuiet, Touching
<1>7. LifeQuiet(t)
  BY <1>0, <1>1, NoneAssumption DEF SameObjects, SameLife, SameLock, SameStack, Out, Only,
     SetEvent, In, hist, LifeQuiet, CallSame, Gone, Finished, Beginning, CallEarly,
     JoinPast, DetachPast, SameCancel, IInv, Rows, Row, Then
<1>8. QED
  BY <1>0, <1>1, <1>2, <1>3, <1>4, <1>5, <1>6, <1>7 DEF SameObjects, SameLife, SameLock,
     SameStack, Out, Only, SetEvent, In, Quiet, Lives, process, IInv, Rows, Row, Then

LEMMA CancelSelfQuiet ==
  ASSUME IInv, NEW t \in Thread, CancelSelf(t)
  PROVE  Quiet(t) /\ MutexQuiet(t) /\ LifeQuiet(t)
<1>0. Valid(t)
  BY DEF CancelSelf, In, IInv, Housed, MayEnd
<1>1. SameObjects /\ Out(t, "exit")
  BY Unchanged, ExitingPlace DEF CancelSelf, IInv
<1>2. Row(t)'
  BY <1>0, <1>1, NoneAssumption DEF SameObjects, SameLife, SameLock, SameStack, Out, Only,
     CancelSelf, In, IInv, Rows, Row, Then
<1>3. HousedQuiet(t)
  BY <1>0, <1>1 DEF SameObjects, SameLife, SameLock, SameStack, Out, Only, CancelSelf, In,
     HousedQuiet, hist, IInv, Housed
<1>4. SuspendsQuiet(t)
  BY <1>0, <1>1 DEF SameObjects, SameLife, SameLock, SameStack, Out, Only, CancelSelf, In,
     SuspendsQuiet, Resumer, IInv, Rows, Row, Then
<1>5. HandlersOf(t)'
  BY <1>0, <1>1, BoundAssumption, NoneAssumption DEF SameObjects, SameLife, SameLock,
     SameStack, Out, Only, CancelSelf, In, hist, IInv, Types, Objects, Handlers,
     HandlersOf, Valid, Finished, Rows, Row, Then
<1>6. MutexQuiet(t)
  BY <1>0, <1>1 DEF SameObjects, SameLife, SameLock, SameStack, Out, Only, CancelSelf, In,
     MutexQuiet, Touching
<1>7. LifeQuiet(t)
  BY <1>0, <1>1, NoneAssumption DEF SameObjects, SameLife, SameLock, SameStack, Out, Only,
     CancelSelf, In, hist, LifeQuiet, CallSame, Gone, Finished, Beginning, CallEarly,
     JoinPast, DetachPast, SameCancel, IInv, Rows, Row, Then
<1>8. QED
  BY <1>0, <1>1, <1>2, <1>3, <1>4, <1>5, <1>6, <1>7 DEF SameObjects, SameLife, SameLock,
     SameStack, Out, Only, CancelSelf, In, Quiet, Lives, process, IInv, Rows, Row, Then

\* Cleanup handlers
LEMMA PushQuiet ==
  ASSUME IInv, NEW t \in Thread, Push(t)
  PROVE  Quiet(t) /\ MutexQuiet(t) /\ LifeQuiet(t)
<1>0. Valid(t)
  BY DEF Push, In, IInv, Housed, MayEnd
<1>1. StackOnly(t, th[t].cleanup_stack + 1) /\ at' = at
  BY PushEffect DEF Push, IInv
<1>2. Row(t)'
  BY <1>0, <1>1, NoneAssumption DEF StackOnly, SameLife, SameLock, SameStack, Only, Push,
     In, IInv, Rows, Row, Then
<1>3. HousedQuiet(t)
  BY <1>0, <1>1 DEF StackOnly, SameLife, SameLock, SameStack, Only, Push, In, HousedQuiet,
     hist, IInv, Housed
<1>4. SuspendsQuiet(t)
  BY <1>0, <1>1 DEF StackOnly, SameLife, SameLock, SameStack, Only, Push, In,
     SuspendsQuiet, Resumer, IInv, Rows, Row, Then
<1>5. HandlersOf(t)'
  BY <1>0, <1>1, BoundAssumption, NoneAssumption DEF StackOnly, SameLife, SameLock,
     SameStack, Only, Push, In, hist, IInv, Types, Objects, Handlers, HandlersOf, Valid,
     Finished, Rows, Row, Then
<1>6. MutexQuiet(t)
  BY <1>0, <1>1 DEF StackOnly, SameLife, SameLock, SameStack, Only, Push, In, MutexQuiet,
     Touching
<1>7. LifeQuiet(t)
  BY <1>0, <1>1, NoneAssumption DEF StackOnly, SameLife, SameLock, SameStack, Only, Push,
     In, hist, LifeQuiet, CallSame, Gone, Finished, Beginning, CallEarly, JoinPast,
     DetachPast, SameCancel, IInv, Rows, Row, Then
<1>8. QED
  BY <1>0, <1>1, <1>2, <1>3, <1>4, <1>5, <1>6, <1>7 DEF StackOnly, SameLife, SameLock,
     SameStack, Only, Push, In, Quiet, Lives, process, IInv, Rows, Row, Then

LEMMA PopQuiet ==
  ASSUME IInv, NEW t \in Thread, NEW f \in {"pop", "drop"}, Pop(t, f)
  PROVE  Quiet(t) /\ MutexQuiet(t) /\ LifeQuiet(t)
<1>0. Valid(t)
  BY DEF Pop, In, IInv, Housed, MayEnd
<1>1. SameObjects /\ Called(t, f, t)
  BY Unchanged, CallPlace DEF Pop, IInv
<1>2. Row(t)'
  BY <1>0, <1>1, NoneAssumption DEF SameObjects, SameLife, SameLock, SameStack, Called,
     Only, Pop, In, IInv, Rows, Row, Then
<1>3. HousedQuiet(t)
  BY <1>0, <1>1 DEF SameObjects, SameLife, SameLock, SameStack, Called, Only, Pop, In,
     HousedQuiet, hist, IInv, Housed
<1>4. SuspendsQuiet(t)
  BY <1>0, <1>1 DEF SameObjects, SameLife, SameLock, SameStack, Called, Only, Pop, In,
     SuspendsQuiet, Resumer, IInv, Rows, Row, Then
<1>5. HandlersOf(t)'
  BY <1>0, <1>1, BoundAssumption, NoneAssumption DEF SameObjects, SameLife, SameLock,
     SameStack, Called, Only, Pop, In, hist, IInv, Types, Objects, Handlers, HandlersOf,
     Valid, Finished, Rows, Row, Then
<1>6. MutexQuiet(t)
  BY <1>0, <1>1 DEF SameObjects, SameLife, SameLock, SameStack, Called, Only, Pop, In,
     MutexQuiet, Touching
<1>7. LifeQuiet(t)
  BY <1>0, <1>1, NoneAssumption DEF SameObjects, SameLife, SameLock, SameStack, Called,
     Only, Pop, In, hist, LifeQuiet, CallSame, Gone, Finished, Beginning, CallEarly,
     JoinPast, DetachPast, SameCancel, IInv, Rows, Row, Then
<1>8. QED
  BY <1>0, <1>1, <1>2, <1>3, <1>4, <1>5, <1>6, <1>7 DEF SameObjects, SameLife, SameLock,
     SameStack, Called, Only, Pop, In, Quiet, Lives, process, IInv, Rows, Row, Then

LEMMA RunHandlerQuiet ==
  ASSUME IInv, NEW t \in Thread, RunHandler(t)
  PROVE  Quiet(t) /\ MutexQuiet(t) /\ LifeQuiet(t)
<1>0. Valid(t) /\ Valid(at[t].on)
  BY Here DEF RunHandler, In, OffSteps
<1>1. SameObjects /\ Went(t, "pop")
  BY Unchanged, GotoPlace DEF RunHandler, IInv
<1>2. Row(t)'
  BY <1>0, <1>1, NoneAssumption DEF SameObjects, SameLife, SameLock, SameStack, Went,
     Only, RunHandler, In, IInv, Rows, Row, Then
<1>3. HousedQuiet(t)
  BY <1>0, <1>1 DEF SameObjects, SameLife, SameLock, SameStack, Went, Only, RunHandler,
     In, HousedQuiet, hist, IInv, Housed
<1>4. SuspendsQuiet(t)
  BY <1>0, <1>1 DEF SameObjects, SameLife, SameLock, SameStack, Went, Only, RunHandler,
     In, SuspendsQuiet, Resumer, IInv, Rows, Row, Then
<1>5. HandlersOf(t)'
  <2>1. HandlersOf(t) /\ at[t].pc = "in" /\ at[t].fn = "pop"
    BY DEF RunHandler, In, IInv, Handlers
  <2>2. /\ Valid(t)' <=> Valid(t)
        /\ th'[t].cleanup_stack = th[t].cleanup_stack /\ pushed' = pushed
        /\ ran'[t] = ran[t] + 1 /\ at'[t].pc = "pop" /\ at'[t].fn = "pop"
    BY <1>1, <2>1
       DEF SameObjects, SameLife, SameStack, Went, RunHandler, Valid, IInv, Types
  <2>3. pushed[t] \in Nat /\ ran[t] \in Nat /\ th[t].cleanup_stack \in Nat
    BY BoundAssumption DEF IInv, Types, Objects
  <2>4. QED
    BY <2>1, <2>2, <2>3 DEF HandlersOf, Finished
<1>6. MutexQuiet(t)
  BY <1>0, <1>1 DEF SameObjects, SameLife, SameLock, SameStack, Went, Only, RunHandler,
     In, MutexQuiet, Touching
<1>7. LifeQuiet(t)
  BY <1>0, <1>1, NoneAssumption DEF SameObjects, SameLife, SameLock, SameStack, Went,
     Only, RunHandler, In, hist, LifeQuiet, CallSame, Gone, Finished, Beginning,
     CallEarly, JoinPast, DetachPast, SameCancel, IInv, Rows, Row, Then
<1>8. QED
  BY <1>0, <1>1, <1>2, <1>3, <1>4, <1>5, <1>6, <1>7 DEF SameObjects, SameLife, SameLock,
     SameStack, Went, Only, RunHandler, In, Quiet, Lives, process, IInv, Rows, Row, Then

LEMMA PopBodyQuiet ==
  ASSUME IInv, NEW t \in Thread, PopBody(t)
  PROVE  Quiet(t) /\ MutexQuiet(t) /\ LifeQuiet(t)
<1>0. PICK o \in Thread : o = at[t].on /\ Valid(o) /\ Valid(t)
  BY Here DEF PopBody, In, OffSteps
<1>1. StackOnly(t, th[t].cleanup_stack - 1) /\ Left(t, at[t].then)
  BY <1>0, PopBodyEffect DEF IInv
<1>2. Row(t)'
  BY <1>0, <1>1, NoneAssumption DEF StackOnly, SameLife, SameLock, SameStack, Left, Only,
     PopBody, In, IInv, Rows, Row, Then
<1>3. HousedQuiet(t)
  BY <1>0, <1>1 DEF StackOnly, SameLife, SameLock, SameStack, Left, Only, PopBody, In,
     HousedQuiet, hist, IInv, Housed
<1>4. SuspendsQuiet(t)
  BY <1>0, <1>1 DEF StackOnly, SameLife, SameLock, SameStack, Left, Only, PopBody, In,
     SuspendsQuiet, Resumer, IInv, Rows, Row, Then
<1>5. HandlersOf(t)'
  BY <1>0, <1>1, BoundAssumption, NoneAssumption DEF StackOnly, SameLife, SameLock,
     SameStack, Left, Only, PopBody, In, hist, IInv, Types, Objects, Handlers, HandlersOf,
     Valid, Finished, Rows, Row, Then
<1>6. MutexQuiet(t)
  BY <1>0, <1>1 DEF StackOnly, SameLife, SameLock, SameStack, Left, Only, PopBody, In,
     MutexQuiet, Touching
<1>7. LifeQuiet(t)
  BY <1>0, <1>1, NoneAssumption DEF StackOnly, SameLife, SameLock, SameStack, Left, Only,
     PopBody, In, hist, LifeQuiet, CallSame, Gone, Finished, Beginning, CallEarly,
     JoinPast, DetachPast, SameCancel, IInv, Rows, Row, Then
<1>8. QED
  BY <1>0, <1>1, <1>2, <1>3, <1>4, <1>5, <1>6, <1>7 DEF StackOnly, SameLife, SameLock,
     SameStack, Left, Only, PopBody, In, Quiet, Lives, process, IInv, Rows, Row, Then

\* Join and detach
LEMMA JoinQuiet ==
  ASSUME IInv, NEW t \in Thread, NEW u \in Thread, Join(t, u)
  PROVE  Quiet(t) /\ MutexQuiet(t)
<1>0. Valid(t) /\ Valid(u)
  BY DEF Join, MayEnd, IInv, Housed, Life, KnownKept
<1>1. SameObjects /\ Called(t, "join", u)
  BY Unchanged, CallPlace DEF Join, IInv
<1>2. Row(t)'
  BY <1>0, <1>1, NoneAssumption DEF SameObjects, SameLife, SameLock, SameStack, Called,
     Only, MayEnd, Join, In, IInv, Rows, Row, Then
<1>3. HousedQuiet(t)
  BY <1>0, <1>1 DEF SameObjects, SameLife, SameLock, SameStack, Called, Only, MayEnd,
     Join, In, HousedQuiet, hist, IInv, Housed
<1>4. SuspendsQuiet(t)
  BY <1>0, <1>1 DEF SameObjects, SameLife, SameLock, SameStack, Called, Only, MayEnd,
     Join, In, SuspendsQuiet, Resumer, IInv, Rows, Row, Then
<1>5. HandlersOf(t)'
  BY <1>0, <1>1, BoundAssumption, NoneAssumption DEF SameObjects, SameLife, SameLock,
     SameStack, Called, Only, MayEnd, Join, In, hist, IInv, Types, Objects, Handlers,
     HandlersOf, Valid, Finished, Rows, Row, Then
<1>6. MutexQuiet(t)
  BY <1>0, <1>1 DEF SameObjects, SameLife, SameLock, SameStack, Called, Only, MayEnd,
     Join, In, MutexQuiet, Touching
<1>8. QED
  BY <1>0, <1>1, <1>2, <1>3, <1>4, <1>5, <1>6 DEF SameObjects, SameLife, SameLock,
     SameStack, Called, Only, MayEnd, Join, In, Quiet, Lives, process, IInv, Rows, Row,
     Then

LEMMA JoinBodyQuiet ==
  ASSUME IInv, NEW t \in Thread, JoinBody(t)
  PROVE  Quiet(t) /\ MutexQuiet(t)
<1>0. PICK o \in Thread : o = at[t].on /\ Valid(o) /\ Valid(t) /\ th[o].joinable
  BY Here DEF JoinBody, In, OffSteps, IInv, Life, CallFindsJoinable, CallEarly, Early
<1>1. LifeOnly(o) /\ Left(t, "joining") /\ th'[o].object = th[o].object
  BY <1>0, JoinBodyEffect DEF IInv
<1>2. Row(t)'
  BY <1>0, <1>1, NoneAssumption DEF LifeOnly, SameLife, SameLock, SameStack, Left, Only,
     JoinBody, In, IInv, Rows, Row, Then
<1>3. HousedQuiet(t)
  BY <1>0, <1>1 DEF LifeOnly, SameLife, SameLock, SameStack, Left, Only, JoinBody, In,
     HousedQuiet, hist, IInv, Housed
<1>4. SuspendsQuiet(t)
  BY <1>0, <1>1 DEF LifeOnly, SameLife, SameLock, SameStack, Left, Only, JoinBody, In,
     SuspendsQuiet, Resumer, IInv, Rows, Row, Then
<1>5. HandlersOf(t)'
  BY <1>0, <1>1, BoundAssumption, NoneAssumption DEF LifeOnly, SameLife, SameLock,
     SameStack, Left, Only, JoinBody, In, hist, IInv, Types, Objects, Handlers,
     HandlersOf, Valid, Finished, Rows, Row, Then
<1>6. MutexQuiet(t)
  BY <1>0, <1>1 DEF LifeOnly, SameLife, SameLock, SameStack, Left, Only, JoinBody, In,
     MutexQuiet, Touching
<1>8. QED
  BY <1>0, <1>1, <1>2, <1>3, <1>4, <1>5, <1>6 DEF LifeOnly, SameLife, SameLock, SameStack,
     Left, Only, JoinBody, In, Quiet, Lives, process, IInv, Rows, Row, Then

LEMMA JoinCanceledQuiet ==
  ASSUME IInv, NEW t \in Thread, JoinCanceled(t)
  PROVE  Quiet(t) /\ MutexQuiet(t)
<1>0. PICK o \in Thread : o = at[t].on /\ Valid(o) /\ Valid(t)
  BY Here DEF JoinCanceled, In, OffSteps
<1>1. LifeOnly(o) /\ Went(t, "rejoin") /\ th'[o].object = th[o].object
  BY <1>0, JoinCanceledEffect DEF IInv
<1>2. Row(t)'
  BY <1>0, <1>1, NoneAssumption DEF LifeOnly, SameLife, SameLock, SameStack, Went, Only,
     JoinCanceled, In, IInv, Rows, Row, Then
<1>3. HousedQuiet(t)
  BY <1>0, <1>1 DEF LifeOnly, SameLife, SameLock, SameStack, Went, Only, JoinCanceled, In,
     HousedQuiet, hist, IInv, Housed
<1>4. SuspendsQuiet(t)
  BY <1>0, <1>1 DEF LifeOnly, SameLife, SameLock, SameStack, Went, Only, JoinCanceled, In,
     SuspendsQuiet, Resumer, IInv, Rows, Row, Then
<1>5. HandlersOf(t)'
  BY <1>0, <1>1, BoundAssumption, NoneAssumption DEF LifeOnly, SameLife, SameLock,
     SameStack, Went, Only, JoinCanceled, In, hist, IInv, Types, Objects, Handlers,
     HandlersOf, Valid, Finished, Rows, Row, Then
<1>6. MutexQuiet(t)
  BY <1>0, <1>1 DEF LifeOnly, SameLife, SameLock, SameStack, Went, Only, JoinCanceled, In,
     MutexQuiet, Touching
<1>8. QED
  BY <1>0, <1>1, <1>2, <1>3, <1>4, <1>5, <1>6 DEF LifeOnly, SameLife, SameLock, SameStack,
     Went, Only, JoinCanceled, In, Quiet, Lives, process, IInv, Rows, Row, Then

LEMMA RejoinQuiet ==
  ASSUME IInv, NEW t \in Thread, Rejoin(t)
  PROVE  Quiet(t) /\ MutexQuiet(t)
<1>0. PICK o \in Thread : o = at[t].on /\ Valid(o) /\ Valid(t)
  BY Here DEF Rejoin, In, OffSteps
<1>1. LifeOnly(o) /\ Out(t, "exit") /\ th'[o].object = th[o].object
  BY <1>0, RejoinEffect DEF IInv
<1>2. Row(t)'
  BY <1>0, <1>1, NoneAssumption DEF LifeOnly, SameLife, SameLock, SameStack, Out, Only,
     Rejoin, In, IInv, Rows, Row, Then
<1>3. HousedQuiet(t)
  BY <1>0, <1>1 DEF LifeOnly, SameLife, SameLock, SameStack, Out, Only, Rejoin, In,
     HousedQuiet, hist, IInv, Housed
<1>4. SuspendsQuiet(t)
  BY <1>0, <1>1 DEF LifeOnly, SameLife, SameLock, SameStack, Out, Only, Rejoin, In,
     SuspendsQuiet, Resumer, IInv, Rows, Row, Then
<1>5. HandlersOf(t)'
  BY <1>0, <1>1, BoundAssumption, NoneAssumption DEF LifeOnly, SameLife, SameLock,
     SameStack, Out, Only, Rejoin, In, hist, IInv, Types, Objects, Handlers, HandlersOf,
     Valid, Finished, Rows, Row, Then
<1>6. MutexQuiet(t)
  BY <1>0, <1>1 DEF LifeOnly, SameLife, SameLock, SameStack, Out, Only, Rejoin, In,
     MutexQuiet, Touching
<1>8. QED
  BY <1>0, <1>1, <1>2, <1>3, <1>4, <1>5, <1>6 DEF LifeOnly, SameLife, SameLock, SameStack,
     Out, Only, Rejoin, In, Quiet, Lives, process, IInv, Rows, Row, Then

LEMMA DetachQuiet ==
  ASSUME IInv, NEW t \in Thread, NEW u \in Thread, Detach(t, u)
  PROVE  Quiet(t) /\ MutexQuiet(t)
<1>0. Valid(t) /\ Valid(u)
  BY DEF Detach, MayEnd, IInv, Housed, Life, KnownKept
<1>1. SameObjects /\ Called(t, "detach", u)
  BY Unchanged, CallPlace DEF Detach, IInv
<1>2. Row(t)'
  BY <1>0, <1>1, NoneAssumption DEF SameObjects, SameLife, SameLock, SameStack, Called,
     Only, MayEnd, Detach, In, IInv, Rows, Row, Then
<1>3. HousedQuiet(t)
  BY <1>0, <1>1 DEF SameObjects, SameLife, SameLock, SameStack, Called, Only, MayEnd,
     Detach, In, HousedQuiet, hist, IInv, Housed
<1>4. SuspendsQuiet(t)
  BY <1>0, <1>1 DEF SameObjects, SameLife, SameLock, SameStack, Called, Only, MayEnd,
     Detach, In, SuspendsQuiet, Resumer, IInv, Rows, Row, Then
<1>5. HandlersOf(t)'
  BY <1>0, <1>1, BoundAssumption, NoneAssumption DEF SameObjects, SameLife, SameLock,
     SameStack, Called, Only, MayEnd, Detach, In, hist, IInv, Types, Objects, Handlers,
     HandlersOf, Valid, Finished, Rows, Row, Then
<1>6. MutexQuiet(t)
  BY <1>0, <1>1 DEF SameObjects, SameLife, SameLock, SameStack, Called, Only, MayEnd,
     Detach, In, MutexQuiet, Touching
<1>8. QED
  BY <1>0, <1>1, <1>2, <1>3, <1>4, <1>5, <1>6 DEF SameObjects, SameLife, SameLock,
     SameStack, Called, Only, MayEnd, Detach, In, Quiet, Lives, process, IInv, Rows, Row,
     Then

LEMMA DetachBodyQuiet ==
  ASSUME IInv, NEW t \in Thread, DetachBody(t)
  PROVE  Quiet(t) /\ MutexQuiet(t)
<1>0. PICK o \in Thread : o = at[t].on /\ Valid(o) /\ Valid(t) /\ th[o].joinable
  BY Here DEF DetachBody, In, OffSteps, IInv, Life, CallFindsJoinable, CallEarly, Early
<1>1. PICK then \in {"run", "delete"} :
        LifeOnly(o) /\ Left(t, then) /\ th'[o].object = th[o].object
  BY <1>0, DetachBodyEffect DEF IInv, SameObjects, LifeOnly, SameLife
<1>2. Row(t)'
  BY <1>0, <1>1, NoneAssumption DEF LifeOnly, SameLife, SameLock, SameStack, Left, Only,
     DetachBody, In, IInv, Rows, Row, Then
<1>3. HousedQuiet(t)
  BY <1>0, <1>1 DEF LifeOnly, SameLife, SameLock, SameStack, Left, Only, DetachBody, In,
     HousedQuiet, hist, IInv, Housed
<1>4. SuspendsQuiet(t)
  BY <1>0, <1>1 DEF LifeOnly, SameLife, SameLock, SameStack, Left, Only, DetachBody, In,
     SuspendsQuiet, Resumer, IInv, Rows, Row, Then
<1>5. HandlersOf(t)'
  BY <1>0, <1>1, BoundAssumption, NoneAssumption DEF LifeOnly, SameLife, SameLock,
     SameStack, Left, Only, DetachBody, In, hist, IInv, Types, Objects, Handlers,
     HandlersOf, Valid, Finished, Rows, Row, Then
<1>6. MutexQuiet(t)
  BY <1>0, <1>1 DEF LifeOnly, SameLife, SameLock, SameStack, Left, Only, DetachBody, In,
     MutexQuiet, Touching
<1>8. QED
  BY <1>0, <1>1, <1>2, <1>3, <1>4, <1>5, <1>6 DEF LifeOnly, SameLife, SameLock, SameStack,
     Left, Only, DetachBody, In, Quiet, Lives, process, IInv, Rows, Row, Then

-----------------------------------------------------------------------------
(* The mutex of an object *)

\* Mutex and CounterCovers, of one object
MutexAt(o) ==
  /\ \A v, w \in Thread : Token(v, o) /\ Token(w, o) => v = w
  /\ \A v \in Thread : Token(v, o) => th[o].semaphore = 0
  /\ th[o].lock_counter > 0 /\ o \notin eaten =>
       th[o].semaphore > 0 \/ \E v \in Thread : Token(v, o)
  /\ th[o].semaphore > 0 \/ (\E v \in Thread : Posting(v, o)) => th[o].lock_counter > 0
  /\ Cardinality(Inside(o)) <= th[o].lock_counter

\* Nothing happens at the mutex of any other object.
MutexElse(o) ==
  \A x \in Thread \ {o} :
    /\ SameLock(x)
    /\ \A v \in Thread : /\ Token(v, x)' <=> Token(v, x)
                         /\ Posting(v, x)' <=> Posting(v, x)
                         /\ Counts(v, x)' <=> Counts(v, x)

\* A step of t at the object o
MutexStep(t, o) ==
  /\ Only(t)
  /\ at[t].on = o \/ at[t].pc \notin Touching
  /\ at'[t].on = o \/ at'[t].pc \notin Touching
  /\ \A x \in Thread \ {o} : SameLock(x)

LEMMA MutexElsewhere ==
  ASSUME Mutex, CounterCovers, NEW o \in Thread, MutexElse(o), eaten \subseteq eaten',
         MutexAt(o)'
  PROVE  Mutex' /\ CounterCovers'
<1>1. ASSUME NEW x \in Thread \ {o} PROVE MutexAt(x)'
  <2>1. Inside(x)' = Inside(x)
    BY DEF MutexElse, Inside
  <2>2. MutexAt(x)
    BY DEF MutexAt, Mutex, TokenUnique, SemaphoreFree, TokenExists, TokenWanted, CounterCovers
  <2>3. QED
    BY <2>1, <2>2 DEF MutexElse, MutexAt, SameLock
<1>2. \A x \in Thread : MutexAt(x)'
  BY <1>1
<1>3. QED
  BY <1>2 DEF MutexAt, Mutex, TokenUnique, SemaphoreFree, TokenExists, TokenWanted,
     CounterCovers

LEMMA MutexOne ==
  ASSUME Mutex, CounterCovers, NEW t \in Thread, NEW o \in Thread, MutexStep(t, o),
         eaten' = eaten, MutexAt(o)'
  PROVE  Mutex' /\ CounterCovers'
<1>1. ASSUME NEW x \in Thread \ {o}, NEW v \in Thread
      PROVE  /\ Token(v, x)' <=> Token(v, x)
             /\ Posting(v, x)' <=> Posting(v, x)
             /\ Counts(v, x)' <=> Counts(v, x)
  BY DEF MutexStep, Only, Token, Posting, Counts, Touching
<1>2. MutexElse(o)
  BY <1>1 DEF MutexStep, MutexElse
<1>3. QED
  BY <1>2, MutexElsewhere

LEMMA MutexHere == Mutex /\ CounterCovers => \A o \in Thread : MutexAt(o)
  BY DEF MutexAt, Mutex, TokenUnique, SemaphoreFree, TokenExists, TokenWanted, CounterCovers

\* The threads inside are finitely many, ...
LEMMA InsideFinite ==
  ASSUME NEW o \in Thread
  PROVE  IsFiniteSet(Inside(o)) /\ Cardinality(Inside(o)) \in Nat
  BY ThreadAssumption, FS_Subset, FS_CardinalityType DEF Inside

\* ... one more when t comes in and one less when it goes out.
LEMMA InsideComes ==
  ASSUME NEW t \in Thread, NEW o \in Thread, Only(t), ~Counts(t, o), Counts(t, o)'
  PROVE  Cardinality(Inside(o))' = Cardinality(Inside(o)) + 1
<1>1. \A v \in Thread \ {t} : Counts(v, o)' <=> Counts(v, o)
  BY DEF Only, Counts
<1>2. Inside(o)' = Inside(o) \cup {t} /\ t \notin Inside(o)
  BY <1>1 DEF Inside
<1>3. QED
  BY <1>2, InsideFinite, FS_AddElement

LEMMA InsideGoes ==
  ASSUME NEW t \in Thread, NEW o \in Thread, Only(t), Counts(t, o), ~Counts(t, o)'
  PROVE  Cardinality(Inside(o))' = Cardinality(Inside(o)) - 1
<1>1. \A v \in Thread \ {t} : Counts(v, o)' <=> Counts(v, o)
  BY DEF Only, Counts
<1>2. Inside(o)' = Inside(o) \ {t} /\ t \in Inside(o)
  BY <1>1 DEF Inside
<1>3. QED
  BY <1>2, InsideFinite, FS_RemoveElement

LEMMA InsideStays ==
  ASSUME NEW t \in Thread, NEW o \in Thread, Only(t), Counts(t, o) <=> Counts(t, o)'
  PROVE  Cardinality(Inside(o))' = Cardinality(Inside(o))
<1>1. \A v \in Thread : Counts(v, o)' <=> Counts(v, o)
  BY DEF Only, Counts
<1>2. Inside(o)' = Inside(o)
  BY <1>1 DEF Inside
<1>3. QED
  BY <1>2

\* Whoever has the token has the counter above 0.
LEMMA TokenCounted ==
  ASSUME IInv, NEW v \in Thread, NEW o \in Thread, Token(v, o) PROVE th[o].lock_counter > 0
<1>1. th[o].lock_counter \in Nat
  BY DEF IInv, Types, Objects
<1>2. CASE Posting(v, o)
  BY <1>2 DEF IInv, Mutex, TokenWanted
<1>3. CASE ~Posting(v, o)
  <2>1. v \in Inside(o)
    BY <1>3 DEF Inside, Counts, Token, Posting
  <2>2. Cardinality(Inside(o)) # 0
    BY <2>1, InsideFinite, FS_EmptySet
  <2>3. QED
    BY <1>1, <2>2, InsideFinite DEF IInv, CounterCovers
<1>4. QED
  BY <1>2, <1>3

LEMMA LockMutex ==
  ASSUME IInv, NEW t \in Thread, Lock(t) PROVE Mutex' /\ CounterCovers'
<1>0. PICK o \in Thread : o = at[t].on
  BY Here DEF Lock
<1>1. /\ LockOnly(o, th[o].lock_counter + 1, th[o].semaphore)
      /\ Went(t, IF th[o].lock_counter = 0 THEN "in" ELSE "wait")
  BY <1>0, LockEffect DEF IInv
<1>2. MutexStep(t, o) /\ eaten' = eaten
  BY <1>0, <1>1 DEF LockOnly, Went, MutexStep, Lock, process
<1>3. th[o].lock_counter \in Nat /\ th[o].semaphore \in {0, 1} /\ MutexAt(o)
  BY MutexHere DEF IInv, Types, Objects
<1>4. Cardinality(Inside(o))' = Cardinality(Inside(o)) + 1
  BY <1>0, <1>1, InsideComes DEF Counts, Lock, Went
<1>5. MutexAt(o)'
  <2>1. \A v \in Thread \ {t} : /\ Token(v, o)' <=> Token(v, o)
                                /\ Posting(v, o)' <=> Posting(v, o)
    BY <1>1 DEF Went, Only, Token, Posting
  <2>2. ~Token(t, o) /\ ~Posting(t, o) /\ ~Posting(t, o)'
    BY <1>1 DEF Lock, Went, Token, Posting
  <2>3. th'[o].lock_counter = th[o].lock_counter + 1 /\ th'[o].semaphore = th[o].semaphore
    BY <1>1 DEF LockOnly
  <2>4. CASE th[o].lock_counter = 0
    <3>1. Token(t, o)'
      BY <1>0, <1>1, <2>4 DEF Went, Token
    <3>2. \A v \in Thread : ~Token(v, o)
      BY <1>3, <2>4, TokenCounted
    <3>3. QED
      BY <1>2, <1>3, <1>4, <2>1, <2>2, <2>3, <2>4, <3>1, <3>2, InsideFinite DEF MutexAt
  <2>5. CASE th[o].lock_counter # 0
    <3>1. ~Token(t, o)'
      BY <1>1, <2>5 DEF Went, Token
    <3>2. QED
      BY <1>2, <1>3, <1>4, <2>1, <2>2, <2>3, <2>5, <3>1, InsideFinite DEF MutexAt
  <2>6. QED
    BY <2>4, <2>5
<1>6. QED
  BY <1>2, <1>5, MutexOne DEF IInv

LEMMA WaitMutex ==
  ASSUME IInv, NEW t \in Thread, Wait(t) PROVE Mutex' /\ CounterCovers'
<1>0. PICK o \in Thread : o = at[t].on
  BY Here DEF Wait
<1>1. LockOnly(o, th[o].lock_counter, th[o].semaphore - 1) /\ Went(t, "in")
  BY <1>0, WaitEffect DEF IInv
<1>2. MutexStep(t, o) /\ eaten' = eaten
  BY <1>0, <1>1 DEF LockOnly, Went, MutexStep, Wait, process
<1>3. th[o].lock_counter \in Nat /\ th[o].semaphore = 1 /\ MutexAt(o)
  BY <1>0, MutexHere DEF IInv, Types, Objects, Wait
<1>4. Cardinality(Inside(o))' = Cardinality(Inside(o))
  BY <1>0, <1>1, InsideStays DEF Counts, Wait, Went
<1>5. MutexAt(o)'
  <2>1. \A v \in Thread \ {t} : /\ Token(v, o)' <=> Token(v, o)
                                /\ Posting(v, o)' <=> Posting(v, o)
    BY <1>1 DEF Went, Only, Token, Posting
  <2>2. Token(t, o)' /\ ~Posting(t, o)'
    BY <1>0, <1>1 DEF Wait, Went, Token, Posting
  <2>3. th'[o].lock_counter = th[o].lock_counter /\ th'[o].semaphore = 0
    BY <1>1, <1>3 DEF LockOnly
  <2>4. \A v \in Thread : ~Token(v, o) /\ ~Posting(v, o)
    BY <1>3 DEF MutexAt, Token, Posting
  <2>5. QED
    BY <1>2, <1>3, <1>4, <2>1, <2>2, <2>3, <2>4, InsideFinite DEF MutexAt
<1>6. QED
  BY <1>2, <1>5, MutexOne DEF IInv

\* What follows an unlock is not at the mutex.
LEMMA ThenOut ==
  ASSUME Rows, NEW t \in Thread, at[t].pc \in Leaving
  PROVE  at[t].then \notin Touching \cup {"none", "ended", "suspended", "lock"}
  BY DEF Rows, Row, Then, Touching

LEMMA UnlockMutex ==
  ASSUME IInv, NEW t \in Thread, Unlock(t) PROVE Mutex' /\ CounterCovers'
<1>0. PICK o \in Thread : o = at[t].on
  BY Here DEF Unlock
<1>1. /\ LockOnly(o, th[o].lock_counter - 1, th[o].semaphore)
      /\ Only(t)
      /\ th[o].lock_counter = 1 => at'[t].pc \notin Touching
      /\ th[o].lock_counter # 1 => at'[t].pc = "post" /\ at'[t].on = o
  <2>1. at[t].then \notin Touching
    BY ThenOut DEF IInv, Unlock
  <2>2. QED
    BY <1>0, <2>1, UnlockEffect DEF IInv, Went, Out, Touching
<1>2. MutexStep(t, o) /\ eaten' = eaten
  BY <1>0, <1>1 DEF LockOnly, MutexStep, Unlock, process
<1>3. th[o].lock_counter \in Nat /\ th[o].semaphore \in {0, 1} /\ MutexAt(o)
  BY MutexHere DEF IInv, Types, Objects
<1>4. Cardinality(Inside(o))' = Cardinality(Inside(o)) - 1
  <2>1. Counts(t, o) /\ ~Counts(t, o)'
    BY <1>0, <1>1 DEF Counts, Unlock, Touching
  <2>2. QED
    BY <1>1, <2>1, InsideGoes
<1>5. MutexAt(o)'
  <2>1. \A v \in Thread \ {t} : /\ Token(v, o)' <=> Token(v, o)
                                /\ Posting(v, o)' <=> Posting(v, o)
    BY <1>1 DEF Only, Token, Posting
  <2>2. Token(t, o)
    BY <1>0 DEF Unlock, Token
  <2>3. th'[o].lock_counter = th[o].lock_counter - 1 /\ th'[o].semaphore = 0
    BY <1>1, <1>3, <2>2 DEF LockOnly, MutexAt
  <2>4. th[o].lock_counter > 0
    BY <2>2, TokenCounted
  <2>5. \A v \in Thread \ {t} : ~Token(v, o)' /\ ~Posting(v, o)'
    BY <1>3, <2>1, <2>2 DEF MutexAt, Token, Posting
  <2>6. CASE th[o].lock_counter = 1
    <3>1. ~Token(t, o)' /\ ~Posting(t, o)'
      BY <1>1, <2>6 DEF Token, Posting, Touching
    <3>2. QED
      BY <1>2, <1>3, <1>4, <2>3, <2>5, <2>6, <3>1, InsideFinite DEF MutexAt
  <2>7. CASE th[o].lock_counter # 1
    <3>1. Token(t, o)'
      BY <1>1, <2>7 DEF Token
    <3>2. QED
      BY <1>2, <1>3, <1>4, <2>3, <2>4, <2>5, <2>7, <3>1, InsideFinite DEF MutexAt
  <2>8. QED
    BY <2>6, <2>7
<1>6. QED
  BY <1>2, <1>5, MutexOne DEF IInv

LEMMA PostMutex ==
  ASSUME IInv, NEW t \in Thread, Post(t) PROVE Mutex' /\ CounterCovers'
<1>0. PICK o \in Thread : o = at[t].on
  BY Here DEF Post
<1>1. /\ LockOnly(o, th[o].lock_counter, th[o].semaphore + 1)
      /\ Only(t) /\ at'[t].pc \notin Touching
  <2>1. at[t].then \notin Touching
    BY ThenOut DEF IInv, Post
  <2>2. QED
    BY <1>0, <2>1, PostEffect DEF IInv, Went, Out, Touching
<1>2. MutexStep(t, o) /\ eaten' = eaten
  BY <1>0, <1>1 DEF LockOnly, MutexStep, Post, process
<1>3. th[o].lock_counter \in Nat /\ th[o].semaphore \in {0, 1} /\ MutexAt(o)
  BY MutexHere DEF IInv, Types, Objects
<1>4. Cardinality(Inside(o))' = Cardinality(Inside(o))
  BY <1>1, InsideStays DEF Counts, Post, Touching
<1>5. MutexAt(o)'
  <2>1. \A v \in Thread \ {t} : /\ Token(v, o)' <=> Token(v, o)
                                /\ Posting(v, o)' <=> Posting(v, o)
    BY <1>1 DEF Only, Token, Posting
  <2>2. Token(t, o) /\ Posting(t, o)
    BY <1>0 DEF Post, Token, Posting
  <2>3. th'[o].lock_counter = th[o].lock_counter /\ th'[o].semaphore = 1
    BY <1>1, <1>3, <2>2 DEF LockOnly, MutexAt
  <2>4. \A v \in Thread : ~Token(v, o)' /\ ~Posting(v, o)'
    BY <1>1, <1>3, <2>1, <2>2 DEF MutexAt, Token, Posting, Touching
  <2>5. QED
    BY <1>2, <1>3, <1>4, <2>2, <2>3, <2>4, InsideFinite DEF MutexAt
<1>6. QED
  BY <1>2, <1>5, MutexOne DEF IInv

-----------------------------------------------------------------------------
(* Who deletes an object *)

\* Life, of the calls on one object and of the object
LifeCalls(v) ==
  /\ CallEarly(v) => th[at[v].on].joinable
  /\ JoinPast(v) =>
       /\ ~th[at[v].on].joinable
       /\ th[at[v].on].joiner = IF at[v].pc = "rejoin" THEN None ELSE v
  /\ DetachPast(v) => th[at[v].on].joinable /\ Finished(at[v].on)

LifeObject(o) ==
  /\ th[o].joinable => th[o].joiner = None
  /\ o \in known =>
       /\ Valid(o) /\ o # Main
       /\ ~th[o].joinable => \E v \in Thread : JoinPast(v) /\ at[v].on = o
  /\ o # Main /\ Valid(o) /\ o \notin known /\ th[o].joinable =>
       \E v \in Thread : at[v].on = o /\ at[v].fn = "detach" /\ (CallEarly(v) \/ DetachPast(v))
  /\ Valid(o) /\ o \notin known /\ ~th[o].joinable =>
       /\ ~Gone(o)
       /\ th[o].joiner = o \/ (th[o].joiner = None /\ Beginning(o))
  /\ o = Main => th[o].object # "none" /\ th[o].joinable /\ ~th[o].running
  /\ o # Main /\ Valid(o) => (th[o].running <=> ~Gone(o))

LifeParts == (\A v \in Thread : LifeCalls(v)) /\ (\A o \in Thread : LifeObject(o))

LEMMA LifeIsParts == Types => (Life <=> LifeParts)
<1> SUFFICES ASSUME Types PROVE Life <=> LifeParts
  OBVIOUS
<1>1. ASSUME Life, NEW v \in Thread PROVE LifeCalls(v)
  BY <1>1 DEF Life, LifeCalls, CallFindsJoinable, JoinRecorded, DetachLate
<1>2. ASSUME Life, NEW o \in Thread PROVE LifeObject(o)
  BY <1>2 DEF Life, LifeObject, JoinableFree, KnownKept, DetachComing, DetachedLives, MainStays,
              RunningExact
<1>3. ASSUME LifeParts PROVE CallFindsJoinable /\ JoinRecorded /\ DetachLate
  BY <1>3 DEF LifeParts, LifeCalls, CallFindsJoinable, JoinRecorded, DetachLate
<1>4. ASSUME LifeParts PROVE JoinableFree /\ DetachComing /\ DetachedLives /\ RunningExact
  BY <1>4 DEF LifeParts, LifeObject, JoinableFree, DetachComing, DetachedLives, RunningExact
<1>5. ASSUME LifeParts PROVE KnownKept /\ MainStays
  BY <1>5, ThreadAssumption DEF LifeParts, LifeObject, KnownKept, MainStays, Types
<1>6. QED
  BY <1>1, <1>2, <1>3, <1>4, <1>5 DEF LifeParts, Life

\* A step of t at the object o
LifeStep(t, o) ==
  /\ Only(t)
  /\ at[t].fn \in {"join", "detach"} => at[t].on = o
  /\ at'[t].fn \in {"join", "detach"} => at'[t].on = o
  /\ \A x \in Thread \ {o} :
       /\ SameLife(x)
       /\ x \in known' <=> x \in known
       /\ Gone(x)' <=> Gone(x)
       /\ Finished(x) => Finished(x)'
       /\ Beginning(x) => Beginning(x)'

LifeAt(o) == LifeObject(o) /\ \A v \in Thread : at[v].on = o => LifeCalls(v)

\* A call past its body, or a join or detach, is on an object.
LEMMA LifeOn ==
  ASSUME Rows, NEW v \in Thread, CallEarly(v) \/ JoinPast(v) \/ DetachPast(v)
  PROVE  at[v].on \in Thread /\ at[v].fn \in {"join", "detach"}
  BY CallOn DEF CallEarly, JoinPast, DetachPast

\* What such a step does at o is all it does.
LEMMA LifeOne ==
  ASSUME Types, Types', Rows, Rows', Life, NEW t \in Thread, NEW o \in Thread,
         LifeStep(t, o), LifeAt(o)'
  PROVE  Life'
<1>1. ASSUME NEW v \in Thread \ {t} PROVE at'[v] = at[v]
  BY DEF LifeStep, Only
<1>2. ASSUME NEW v \in Thread PROVE LifeCalls(v)'
  <2>1. CASE ~(CallEarly(v)' \/ JoinPast(v)' \/ DetachPast(v)')
    BY <2>1 DEF LifeCalls
  <2>2. CASE at'[v].on = o
    BY <2>2 DEF LifeAt
  <2>3. CASE (CallEarly(v)' \/ JoinPast(v)' \/ DetachPast(v)') /\ at'[v].on # o
    <3>1. at'[v].on \in Thread /\ at'[v].fn \in {"join", "detach"}
      BY <2>3, NoneAssumption DEF Rows, Row, CallEarly, JoinPast, DetachPast
    <3>2. v # t
      BY <2>3, <3>1 DEF LifeStep
    <3>3. /\ at'[v] = at[v] /\ at[v].on \in Thread \ {o}
          /\ LifeCalls(v)
      BY <1>1, <2>3, <3>1, <3>2, LifeIsParts DEF LifeParts
    <3>4. SameLife(at[v].on) /\ (Finished(at[v].on) => Finished(at[v].on)')
      BY <3>3 DEF LifeStep
    <3>5. /\ CallEarly(v)' <=> CallEarly(v)
          /\ JoinPast(v)' <=> JoinPast(v)
          /\ DetachPast(v)' <=> DetachPast(v)
      BY <3>3 DEF CallEarly, JoinPast, DetachPast
    <3>6. QED
      BY <3>3, <3>4, <3>5 DEF LifeCalls, SameLife, Finished
  <2>4. QED
    BY <2>1, <2>2, <2>3
<1>3. ASSUME NEW x \in Thread \ {o} PROVE LifeObject(x)'
  <2>1. LifeObject(x)
    BY LifeIsParts DEF LifeParts
  <2>2. ASSUME NEW v \in Thread, at[v].on = x, at[v].fn \in {"join", "detach"}
        PROVE  at'[v] = at[v]
    BY <1>1, <2>2 DEF LifeStep
  <2>3. /\ SameLife(x)
        /\ x \in known' <=> x \in known
        /\ Gone(x)' <=> Gone(x)
        /\ Beginning(x) => Beginning(x)'
    BY DEF LifeStep
  <2>4. (\E v \in Thread : JoinPast(v) /\ at[v].on = x)
          => \E v \in Thread : JoinPast(v)' /\ at'[v].on = x
    BY <2>2 DEF JoinPast
  <2>5. (\E v \in Thread : at[v].on = x /\ at[v].fn = "detach" /\ (CallEarly(v) \/ DetachPast(v)))
          => \E v \in Thread : at'[v].on = x /\ at'[v].fn = "detach"
                                 /\ (CallEarly(v)' \/ DetachPast(v)')
    BY <2>2 DEF CallEarly, DetachPast
  <2>6. Valid(x)' <=> Valid(x)
    BY <2>3 DEF SameLife, Valid
  <2>7. QED
    BY <2>1, <2>3, <2>4, <2>5, <2>6 DEF LifeObject, SameLife
<1>4. \A x \in Thread : LifeObject(x)'
  BY <1>3 DEF LifeAt
<1>5. (Types => (Life <=> LifeParts))'
  BY LifeIsParts, PTL
<1>6. QED
  BY <1>2, <1>4, <1>5 DEF LifeParts

\* A step that makes no new call on an id
UsesQuiet(t) ==
  /\ Only(t) /\ known' = known
  /\ \A x \in Thread \ {t} : SameCancel(x)
  /\ \/ at'[t].fn = at[t].fn /\ at'[t].on = at[t].on /\ SameCancel(t)
     \/ at'[t].fn \notin OtherCalls \cup {"begin"}

LEMMA UsesKept ==
  ASSUME Rows, Uses, NEW t \in Thread, UsesQuiet(t) PROVE Uses'
<1>1. ASSUME NEW v \in Thread, at'[v].fn \in OtherCalls
      PROVE  at'[v].fn = at[v].fn /\ at'[v].on = at[v].on /\ SameCancel(v)
  BY <1>1 DEF UsesQuiet, Only
<1>2. UseAlone'
  BY <1>1 DEF Uses, UseAlone
<1>3. ASSUME NEW v \in Thread, at'[v].fn = "begin" PROVE at[v].fn = "begin"
  BY <1>3 DEF UsesQuiet, Only
<1>4. UseKnown'
  <2> SUFFICES ASSUME NEW v \in Thread, at'[v].fn \in OtherCalls
               PROVE  /\ at'[v].fn \in {"join", "cancel"} => at'[v].on \in known'
                      /\ at'[v].fn = "detach" => at'[v].on \notin known' /\ at'[v].on # Main
                      /\ ~Async(v)'
                      /\ at'[v].fn = "join" => at'[v].on # v /\ at'[at'[v].on].fn # "begin"
    BY DEF UseKnown
  <2>1. /\ at'[v].fn = at[v].fn /\ at'[v].on = at[v].on /\ SameCancel(v)
        /\ known' = known /\ at[v].on \in Thread
    BY <1>1, CallOn DEF UsesQuiet
  <2>2. at'[at[v].on].fn = "begin" => at[at[v].on].fn = "begin"
    BY <1>3, <2>1
  <2>3. QED
    BY <2>1, <2>2 DEF SameCancel, Uses, UseKnown, Async
<1>5. QED
  BY <1>2, <1>4 DEF Uses

\* The beginning and the end of a thread
LEMMA BeginLife ==
  ASSUME IInv, Types', Rows', NEW t \in Thread, Begin(t) PROVE Uses' /\ Life'
<1>1. /\ LifeOnly(t) /\ Left(t, "run")
      /\ th'[t].object = th[t].object
      /\ th'[t].joinable <=> th[t].joinable
      /\ th'[t].running <=> th[t].running
      /\ ~th[t].joinable /\ th[t].joiner = None => th'[t].joiner = t
      /\ th[t].joinable \/ th[t].joiner # None => th'[t].joiner = th[t].joiner
  BY BeginEffect DEF IInv
<1>2. at[t].pc = "in" /\ at[t].fn = "begin" /\ at[t].on = t /\ known' = known
  BY DEF Begin, In, hist, IInv, Rows, Row
<1>3. UsesQuiet(t)
  BY <1>1, <1>2 DEF UsesQuiet, LifeOnly, Left
<1>4. LifeStep(t, t)
  BY <1>1, <1>2 DEF LifeStep, LifeOnly, Left, Only, Gone, Finished, Beginning
<1>5. ASSUME NEW v \in Thread, at'[v].on = t PROVE LifeCalls(v)'
  <2>1. CASE v = t
    BY <1>1, <1>2, <2>1 DEF Left, LifeCalls, CallEarly, JoinPast, DetachPast
  <2>2. CASE v # t
    <3>1. at'[v] = at[v] /\ at[v].on = t
      BY <1>1, <1>5, <2>2 DEF Left, Only
    <3>2. LifeCalls(v)
      BY LifeIsParts DEF LifeParts, IInv
    <3>3. ~Finished(t)
      BY <1>2 DEF Finished
    <3>4. at[v].fn # "join"
      BY <1>2, <3>1 DEF IInv, Uses, UseKnown
    <3>5. QED
      BY <1>1, <3>1, <3>2, <3>3, <3>4 DEF LifeCalls, CallEarly, JoinPast, DetachPast
  <2>3. QED
    BY <2>1, <2>2
<1>6. LifeObject(t)'
  <2>1. LifeObject(t)
    BY LifeIsParts DEF LifeParts, IInv
  <2>2. Gone(t)' <=> Gone(t)
    BY <1>1, <1>2 DEF Left, Gone, Finished
  <2>3. ASSUME NEW v \in Thread, at[v].on = t, at[v].fn \in {"join", "detach"}
        PROVE  at'[v] = at[v]
    BY <1>1, <1>2, <2>3 DEF Left, Only
  <2>4. (\E v \in Thread : JoinPast(v) /\ at[v].on = t)
          => \E v \in Thread : JoinPast(v)' /\ at'[v].on = t
    BY <2>3 DEF JoinPast
  <2>5. (\E v \in Thread : at[v].on = t /\ at[v].fn = "detach" /\ (CallEarly(v) \/ DetachPast(v)))
          => \E v \in Thread : at'[v].on = t /\ at'[v].fn = "detach"
                                 /\ (CallEarly(v)' \/ DetachPast(v)')
    BY <2>3 DEF CallEarly, DetachPast
  <2>6. Valid(t)' <=> Valid(t)
    BY <1>1 DEF Valid
  <2>7. QED
    BY <1>1, <1>2, <2>1, <2>2, <2>4, <2>5, <2>6 DEF LifeObject
<1>7. QED
  BY <1>3, <1>4, <1>5, <1>6, UsesKept, LifeOne DEF IInv, LifeAt

LEMMA ExitKeepLife ==
  ASSUME IInv, Types', Rows', NEW t \in Thread, ExitKeep(t) PROVE Uses' /\ Life'
<1>1. /\ LifeOnly(t) /\ Left(t, "count")
      /\ th'[t].object = th[t].object /\ th'[t].joiner = th[t].joiner
      /\ th'[t].joinable <=> th[t].joinable
      /\ ~th'[t].running
  BY ExitKeepEffect DEF IInv
<1>2. /\ at[t].pc = "in" /\ at[t].fn = "exit" /\ at[t].on = t /\ known' = known
      /\ th[t].joiner # t
  BY DEF ExitKeep, In, hist, IInv, Rows, Row
<1>3. UsesQuiet(t)
  BY <1>1, <1>2 DEF UsesQuiet, LifeOnly, Left
<1>4. LifeStep(t, t)
  BY <1>1, <1>2 DEF LifeStep, LifeOnly, Left, Only, Gone, Finished, Beginning
<1>5. ASSUME NEW v \in Thread, at'[v].on = t PROVE LifeCalls(v)'
  <2>1. CASE v = t
    BY <1>1, <1>2, <2>1 DEF Left, LifeCalls, CallEarly, JoinPast, DetachPast
  <2>2. CASE v # t
    <3>1. at'[v] = at[v] /\ at[v].on = t
      BY <1>1, <1>5, <2>2 DEF Left, Only
    <3>2. LifeCalls(v)
      BY LifeIsParts DEF LifeParts, IInv
    <3>3. ~Finished(t)
      BY <1>2 DEF Finished
    <3>4. QED
      BY <1>1, <3>1, <3>2, <3>3 DEF LifeCalls, CallEarly, JoinPast, DetachPast
  <2>3. QED
    BY <2>1, <2>2
<1>6. LifeObject(t)'
  <2>1. LifeObject(t)
    BY LifeIsParts DEF LifeParts, IInv
  <2>2. Gone(t)'
    BY <1>1, <1>2 DEF Left, Gone
  <2>3. ASSUME NEW v \in Thread, at[v].on = t, at[v].fn \in {"join", "detach"}
        PROVE  at'[v] = at[v]
    BY <1>1, <1>2, <2>3 DEF Left, Only
  <2>4. (\E v \in Thread : JoinPast(v) /\ at[v].on = t)
          => \E v \in Thread : JoinPast(v)' /\ at'[v].on = t
    BY <2>3 DEF JoinPast
  <2>5. (\E v \in Thread : at[v].on = t /\ at[v].fn = "detach" /\ (CallEarly(v) \/ DetachPast(v)))
          => \E v \in Thread : at'[v].on = t /\ at'[v].fn = "detach"
                                 /\ (CallEarly(v)' \/ DetachPast(v)')
    BY <2>3 DEF CallEarly, DetachPast
  <2>6. Valid(t)' <=> Valid(t)
    BY <1>1 DEF Valid
  <2>7. ~Beginning(t)
    BY <1>2 DEF Beginning
  <2>8. QED
    BY <1>1, <1>2, <2>1, <2>2, <2>4, <2>5, <2>6, <2>7 DEF LifeObject
<1>7. QED
  BY <1>3, <1>4, <1>5, <1>6, UsesKept, LifeOne DEF IInv, LifeAt

\* A new call on the object u
UsesMore(t, f, u) ==
  /\ Called(t, f, u) /\ SameObjects
  /\ f \in OtherCalls /\ ~Async(t)
  /\ \A v \in Thread \ {t} :
       at[v].on = u =>
         /\ at[v].fn \notin {"join", "detach"}
         /\ f \in {"join", "detach"} => at[v].fn # "cancel"
  /\ f \in {"join", "cancel"} => u \in known /\ known' = known
  /\ f = "detach" => u # Main /\ known' = known \ {u}
  /\ f = "join" => u # t /\ at[u].fn # "begin"

LEMMA UsesCalled ==
  ASSUME Rows, Uses, NEW t \in Thread, NEW f, NEW u \in Thread, at[t].pc = "run",
         UsesMore(t, f, u)
  PROVE  Uses'
<1>1. /\ at'[t].fn = f /\ at'[t].on = u
      /\ \A v \in Thread \ {t} : at'[v] = at[v]
  BY DEF UsesMore, Called, Only
<1>2. at[t].fn = None
  BY DEF Rows, Row
<1>3. UseAlone'
  <2> SUFFICES ASSUME NEW v \in Thread, NEW w \in Thread, v # w,
                      at'[v].fn \in {"join", "detach"}, at'[w].fn \in OtherCalls,
                      at'[w].on = at'[v].on
               PROVE  FALSE
    BY DEF UseAlone
  <2>1. CASE v = t
    BY <1>1, <2>1 DEF UsesMore
  <2>2. CASE w = t
    BY <1>1, <2>2 DEF UsesMore
  <2>3. CASE v # t /\ w # t
    BY <1>1, <2>3 DEF Uses, UseAlone
  <2>4. QED
    BY <2>1, <2>2, <2>3
<1>4. \A v \in Thread : Async(v)' <=> Async(v)
  BY DEF UsesMore, SameObjects, SameCancel, Async
<1>5. \A x \in Thread : at'[x].fn = "begin" => at[x].fn = "begin"
  BY <1>1 DEF UsesMore
<1>6. UseKnown'
  <2> SUFFICES ASSUME NEW v \in Thread, at'[v].fn \in OtherCalls
               PROVE  /\ at'[v].fn \in {"join", "cancel"} => at'[v].on \in known'
                      /\ at'[v].fn = "detach" => at'[v].on \notin known' /\ at'[v].on # Main
                      /\ ~Async(v)'
                      /\ at'[v].fn = "join" => at'[v].on # v /\ at'[at'[v].on].fn # "begin"
    BY DEF UseKnown
  <2>1. CASE v = t
    BY <1>1, <1>4, <1>5, <2>1 DEF UsesMore
  <2>2. CASE v # t
    <3>1. at'[v] = at[v] /\ at[v].on \in Thread
      BY <1>1, <2>2, CallOn
    <3>2. /\ at[v].fn \in {"join", "cancel"} => at[v].on \in known
          /\ at[v].fn = "detach" => at[v].on \notin known /\ at[v].on # Main
          /\ ~Async(v)
          /\ at[v].fn = "join" => at[v].on # v /\ at[at[v].on].fn # "begin"
      BY <3>1 DEF Uses, UseKnown
    <3>3. known' \subseteq known /\ (at[v].fn \in {"join", "cancel"} => at[v].on \in known')
      BY <2>2, <3>2 DEF UsesMore
    <3>4. QED
      BY <1>4, <1>5, <3>1, <3>2, <3>3
  <2>3. QED
    BY <2>1, <2>2
<1>7. QED
  BY <1>3, <1>6 DEF Uses

\* A call of pthread_cancel joins and detaches nobody.
LEMMA CancelLife ==
  ASSUME IInv, Careful, Types', Rows', NEW t \in Thread, NEW u \in Thread, Cancel(t, u)
  PROVE  Uses' /\ Life'
<1>1. SameObjects /\ Called(t, "cancel", u)
  BY Unchanged, CallPlace DEF Cancel, IInv
<1>2. at[t].pc = "run" /\ at[t].fn = None /\ known' = known /\ u \in known /\ ~Async(t)
  BY DEF Cancel, Careful, IInv, Rows, Row
<1>3. UsesMore(t, "cancel", u)
  <2>1. ASSUME NEW v \in Thread, at[v].on = u PROVE at[v].fn \notin {"join", "detach"}
    BY <2>1 DEF Cancel, Users
  <2>2. QED
    BY <1>1, <1>2, <2>1 DEF UsesMore
<1>4. ASSUME NEW v \in Thread
      PROVE  /\ CallEarly(v)' <=> CallEarly(v)
             /\ JoinPast(v)' <=> JoinPast(v)
             /\ DetachPast(v)' <=> DetachPast(v)
             /\ Gone(v)' <=> Gone(v)
             /\ Finished(v)' <=> Finished(v)
             /\ Beginning(v)' <=> Beginning(v)
             /\ at[v].fn \in {"join", "detach"} => at'[v] = at[v]
  <2>1. CASE v = t
    BY <1>1, <1>2, <2>1, NoneAssumption
       DEF Called, CallEarly, JoinPast, DetachPast, Gone, Finished, Beginning
  <2>2. CASE v # t
    BY <1>1, <2>2 DEF Called, Only, CallEarly, JoinPast, DetachPast, Gone, Finished, Beginning
  <2>3. QED
    BY <2>1, <2>2
<1>5. \A x \in Thread : SameLife(x) /\ (x \in known' <=> x \in known)
  BY <1>1, <1>2 DEF SameObjects
<1>6. Life'
  <2>1. ASSUME NEW v \in Thread PROVE LifeCalls(v)'
    <3>1. LifeCalls(v)
      BY LifeIsParts DEF LifeParts, IInv
    <3>2. CASE CallEarly(v) \/ JoinPast(v) \/ DetachPast(v)
      <4>1. at'[v] = at[v] /\ at[v].on \in Thread
        BY <1>4, <3>2, LifeOn DEF IInv
      <4>2. QED
        BY <1>4, <1>5, <3>1, <4>1 DEF LifeCalls, SameLife, Finished
    <3>3. CASE ~(CallEarly(v) \/ JoinPast(v) \/ DetachPast(v))
      BY <1>4, <3>3 DEF LifeCalls
    <3>4. QED
      BY <3>2, <3>3
  <2>2. ASSUME NEW o \in Thread PROVE LifeObject(o)'
    <3>1. LifeObject(o)
      BY LifeIsParts DEF LifeParts, IInv
    <3>2. (\E v \in Thread : JoinPast(v) /\ at[v].on = o)
            => \E v \in Thread : JoinPast(v)' /\ at'[v].on = o
      BY <1>4 DEF JoinPast
    <3>3. (\E v \in Thread : at[v].on = o /\ at[v].fn = "detach" /\ (CallEarly(v) \/ DetachPast(v)))
            => \E v \in Thread : at'[v].on = o /\ at'[v].fn = "detach"
                                   /\ (CallEarly(v)' \/ DetachPast(v)')
      BY <1>4 DEF CallEarly, DetachPast
    <3>4. Valid(o)' <=> Valid(o)
      BY <1>5 DEF SameLife, Valid
    <3>5. QED
      BY <1>4, <1>5, <3>1, <3>2, <3>3, <3>4 DEF LifeObject, SameLife
  <2>3. (Types => (Life <=> LifeParts))'
    BY LifeIsParts, PTL
  <2>4. QED
    BY <2>1, <2>2, <2>3 DEF LifeParts
<1>7. QED
  BY <1>2, <1>3, <1>6, UsesCalled DEF IInv

\* Join and detach find a joinable object, ...
LEMMA EndFinds ==
  ASSUME IInv, NEW t \in Thread, NEW u \in Thread, MayEnd(t, u)
  PROVE  /\ th[u].joinable /\ Valid(u) /\ u # Main
         /\ \A v \in Thread : at[v].on = u => at[v].fn \notin OtherCalls
<1>1. \A v \in Thread : at[v].on = u => at[v].fn \notin OtherCalls
  BY DEF MayEnd, Users
<1>2. QED
  BY <1>1 DEF MayEnd, IInv, Life, KnownKept, JoinPast

\* ... and until the call is in, nothing else happens to it.
LEMMA JoinLife ==
  ASSUME IInv, Careful, Types', Rows', NEW t \in Thread, NEW u \in Thread, Join(t, u)
  PROVE  Uses' /\ Life'
<1>1. SameObjects /\ Called(t, "join", u)
  BY Unchanged, CallPlace DEF Join, IInv
<1>2. /\ at[t].pc = "run" /\ at[t].fn = None /\ at[t].on = None
      /\ known' = known /\ u \in known /\ ~Async(t) /\ u # t
  BY DEF Join, MayEnd, IInv, Rows, Row, hist
<1>3. /\ th[u].joinable /\ Valid(u) /\ u # Main
      /\ \A v \in Thread : at[v].on = u => at[v].fn \notin OtherCalls
  BY EndFinds DEF Join
<1>4. at[u].fn # "begin"
  <2> SUFFICES ASSUME at[u].fn = "begin" PROVE FALSE
    OBVIOUS
  <2>1. at[u].pc \in {"lock", "wait", "in", "unlock", "post"}
    BY NoneAssumption DEF IInv, Types, Places, Steps, Rows, Row
  <2>2. QED
    BY <2>1 DEF Join, Careful
<1>5. UsesMore(t, "join", u)
  BY <1>1, <1>2, <1>3, <1>4 DEF UsesMore
<1>6. LifeStep(t, u)
  BY <1>1, <1>2, NoneAssumption
     DEF LifeStep, Called, Only, SameObjects, Gone, Finished, Beginning
<1>7. ASSUME NEW v \in Thread, at'[v].on = u PROVE LifeCalls(v)'
  <2>1. th'[u].joinable
    BY <1>1, <1>3 DEF SameObjects, SameLife
  <2>2. ~JoinPast(v)' /\ ~DetachPast(v)'
    BY <1>1, <1>3, <1>7 DEF Called, Only, JoinPast, DetachPast
  <2>3. QED
    BY <1>7, <2>1, <2>2 DEF LifeCalls
<1>8. LifeObject(u)'
  <2>1. LifeObject(u)
    BY LifeIsParts DEF LifeParts, IInv
  <2>2. SameLife(u) /\ at'[u] = at[u] /\ th[u].joinable /\ u \in known /\ u \in known' /\ u # Main
    BY <1>1, <1>2, <1>3 DEF SameObjects, Called, Only
  <2>3. QED
    BY <2>1, <2>2 DEF LifeObject, SameLife, Valid, Gone, Finished
<1>9. QED
  BY <1>2, <1>5, <1>6, <1>7, <1>8, UsesCalled, LifeOne DEF IInv, LifeAt

LEMMA DetachLife ==
  ASSUME IInv, Types', Rows', NEW t \in Thread, NEW u \in Thread, Detach(t, u)
  PROVE  Uses' /\ Life'
<1>1. SameObjects /\ Called(t, "detach", u)
  BY Unchanged, CallPlace DEF Detach, IInv
<1>2. /\ at[t].pc = "run" /\ at[t].fn = None /\ at[t].on = None
      /\ known' = known \ {u} /\ ~Async(t)
  BY DEF Detach, MayEnd, IInv, Rows, Row
<1>3. /\ th[u].joinable /\ Valid(u) /\ u # Main
      /\ \A v \in Thread : at[v].on = u => at[v].fn \notin OtherCalls
  BY EndFinds DEF Detach
<1>5. UsesMore(t, "detach", u)
  BY <1>1, <1>2, <1>3 DEF UsesMore
<1>6. LifeStep(t, u)
  <2>1. \A x \in Thread : /\ Gone(x)' <=> Gone(x)
                          /\ Finished(x) => Finished(x)'
                          /\ Beginning(x) => Beginning(x)'
    BY <1>1, <1>2, NoneAssumption DEF Called, Only, Gone, Finished, Beginning
  <2>2. QED
    BY <1>1, <1>2, <2>1, NoneAssumption DEF LifeStep, Called, SameObjects
<1>7. ASSUME NEW v \in Thread, at'[v].on = u PROVE LifeCalls(v)'
  <2>1. th'[u].joinable
    BY <1>1, <1>3 DEF SameObjects, SameLife
  <2>2. ~JoinPast(v)' /\ ~DetachPast(v)'
    BY <1>1, <1>3, <1>7 DEF Called, Only, JoinPast, DetachPast
  <2>3. QED
    BY <1>7, <2>1, <2>2 DEF LifeCalls
<1>8. LifeObject(u)'
  <2>1. LifeObject(u)
    BY LifeIsParts DEF LifeParts, IInv
  <2>2. SameLife(u) /\ th[u].joinable /\ u \notin known' /\ u # Main
    BY <1>1, <1>2, <1>3 DEF SameObjects
  <2>3. Gone(u)' <=> Gone(u)
    BY <1>1, <1>2, NoneAssumption DEF Called, Only, Gone, Finished
  <2>4. at'[t].on = u /\ at'[t].fn = "detach" /\ CallEarly(t)'
    BY <1>1 DEF Called, CallEarly
  <2>5. QED
    BY <2>1, <2>2, <2>3, <2>4 DEF LifeObject, SameLife, Valid
<1>9. QED
  BY <1>2, <1>5, <1>6, <1>7, <1>8, UsesCalled, LifeOne DEF IInv, LifeAt

\* A thread that joins or detaches an object is alone at it.
LEMMA Alone ==
  ASSUME IInv, NEW t \in Thread, at[t].fn \in {"join", "detach"}
  PROVE  /\ \A v \in Thread \ {t} : at[v].on = at[t].on => at[v].fn \notin OtherCalls
         /\ at[t].fn = "join" => at[t].on # t /\ at[t].on \in known
         /\ at[t].fn = "detach" => at[t].on # Main /\ at[t].on \notin known
  BY DEF IInv, Uses, UseAlone, UseKnown

LEMMA JoinBodyLife ==
  ASSUME IInv, Types', Rows', NEW t \in Thread, JoinBody(t) PROVE Uses' /\ Life'
<1>0. PICK o \in Thread : o = at[t].on /\ Valid(o) /\ th[o].joinable
  BY Here DEF JoinBody, In, IInv, Life, CallFindsJoinable, CallEarly
<1>1. /\ LifeOnly(o) /\ Left(t, "joining")
      /\ th'[o].object = th[o].object /\ th'[o].joiner = t
      /\ ~th'[o].joinable
      /\ th'[o].running <=> th[o].running
  BY <1>0, JoinBodyEffect DEF IInv
<1>2. at[t].pc = "in" /\ at[t].fn = "join" /\ known' = known
  BY DEF JoinBody, In, hist
<1>3. /\ \A v \in Thread \ {t} : at[v].on = o => at[v].fn \notin OtherCalls
      /\ o # t /\ o \in known
  BY <1>0, <1>2, Alone
<1>4. UsesQuiet(t)
  BY <1>1, <1>2 DEF UsesQuiet, LifeOnly, Left
<1>5. LifeStep(t, o)
  BY <1>0, <1>1, <1>2 DEF LifeStep, LifeOnly, Left, Only, Gone, Finished, Beginning
<1>6. ASSUME NEW v \in Thread, at'[v].on = o PROVE LifeCalls(v)'
  <2>1. CASE v = t
    BY <1>0, <1>1, <1>2, <2>1 DEF Left, LifeCalls, CallEarly, JoinPast, DetachPast
  <2>2. CASE v # t
    BY <1>1, <1>3, <1>6, <2>2 DEF Left, Only, LifeCalls, CallEarly, JoinPast, DetachPast
  <2>3. QED
    BY <2>1, <2>2
<1>7. LifeObject(o)'
  <2>1. LifeObject(o)
    BY LifeIsParts DEF LifeParts, IInv
  <2>2. at'[o] = at[o] /\ (Valid(o)' <=> Valid(o))
    BY <1>1, <1>3 DEF Left, Only, Valid
  <2>3. JoinPast(t)' /\ at'[t].on = o
    BY <1>0, <1>1, <1>2 DEF Left, JoinPast
  <2>4. QED
    BY <1>1, <1>2, <1>3, <2>1, <2>2, <2>3 DEF LifeObject, Gone, Finished
<1>8. QED
  BY <1>4, <1>5, <1>6, <1>7, UsesKept, LifeOne DEF IInv, LifeAt

LEMMA JoinCanceledLife ==
  ASSUME IInv, Types', Rows', NEW t \in Thread, JoinCanceled(t) PROVE Uses' /\ Life'
<1>0. PICK o \in Thread : o = at[t].on /\ Valid(o)
  BY Here DEF JoinCanceled
<1>1. /\ LifeOnly(o) /\ Went(t, "rejoin")
      /\ th'[o].object = th[o].object /\ th'[o].joiner = None
      /\ th'[o].joinable <=> th[o].joinable
      /\ th'[o].running <=> th[o].running
  BY <1>0, JoinCanceledEffect DEF IInv
<1>2. at[t].pc = "joining" /\ at[t].fn = "join" /\ known' = known
  BY DEF JoinCanceled, IInv, Rows, Row, hist
<1>3. /\ \A v \in Thread \ {t} : at[v].on = o => at[v].fn \notin OtherCalls
      /\ o # t /\ o \in known
  BY <1>0, <1>2, Alone
<1>4. UsesQuiet(t)
  BY <1>1, <1>2 DEF UsesQuiet, LifeOnly, Went
<1>5. LifeStep(t, o)
  BY <1>0, <1>1, <1>2 DEF LifeStep, LifeOnly, Went, Only, Gone, Finished, Beginning
<1>6. JoinPast(t) /\ ~th[o].joinable
  BY <1>0, <1>2 DEF JoinPast, IInv, Life, JoinRecorded
<1>7. ASSUME NEW v \in Thread, at'[v].on = o PROVE LifeCalls(v)'
  <2>1. CASE v = t
    BY <1>0, <1>1, <1>2, <1>6, <2>1 DEF Went, LifeCalls, CallEarly, JoinPast, DetachPast
  <2>2. CASE v # t
    BY <1>1, <1>3, <1>7, <2>2 DEF Went, Only, LifeCalls, CallEarly, JoinPast, DetachPast
  <2>3. QED
    BY <2>1, <2>2
<1>8. LifeObject(o)'
  <2>1. LifeObject(o)
    BY LifeIsParts DEF LifeParts, IInv
  <2>2. at'[o] = at[o] /\ (Valid(o)' <=> Valid(o))
    BY <1>1, <1>3 DEF Went, Only, Valid
  <2>3. JoinPast(t)' /\ at'[t].on = o
    BY <1>0, <1>1, <1>2 DEF Went, JoinPast
  <2>4. QED
    BY <1>1, <1>2, <1>3, <1>6, <2>1, <2>2, <2>3 DEF LifeObject, Gone, Finished
<1>9. QED
  BY <1>4, <1>5, <1>7, <1>8, UsesKept, LifeOne DEF IInv, LifeAt

LEMMA RejoinLife ==
  ASSUME IInv, Types', Rows', NEW t \in Thread, Rejoin(t) PROVE Uses' /\ Life'
<1>0. PICK o \in Thread : o = at[t].on /\ Valid(o)
  BY Here DEF Rejoin
<1>1. /\ LifeOnly(o) /\ Out(t, "exit")
      /\ th'[o].object = th[o].object /\ th'[o].joiner = th[o].joiner
      /\ th'[o].joinable
      /\ th'[o].running <=> th[o].running
  BY <1>0, RejoinEffect DEF IInv
<1>2. at[t].pc = "rejoin" /\ at[t].fn = "join" /\ known' = known
  BY DEF Rejoin, IInv, Rows, Row, hist
<1>3. /\ \A v \in Thread \ {t} : at[v].on = o => at[v].fn \notin OtherCalls
      /\ o # t /\ o \in known
  BY <1>0, <1>2, Alone
<1>4. UsesQuiet(t)
  BY <1>1, <1>2, NoneAssumption DEF UsesQuiet, LifeOnly, Out
<1>5. LifeStep(t, o)
  BY <1>0, <1>1, <1>2, NoneAssumption
     DEF LifeStep, LifeOnly, Out, Only, Gone, Finished, Beginning
<1>6. JoinPast(t) /\ th[o].joiner = None
  BY <1>0, <1>2 DEF JoinPast, IInv, Life, JoinRecorded
<1>7. ASSUME NEW v \in Thread, at'[v].on = o PROVE LifeCalls(v)'
  <2>1. v # t
    BY <1>1, <1>7, ThreadAssumption DEF Out
  <2>2. QED
    BY <1>1, <1>3, <1>7, <2>1 DEF Out, Only, LifeCalls, CallEarly, JoinPast, DetachPast
<1>8. LifeObject(o)'
  <2>1. LifeObject(o)
    BY LifeIsParts DEF LifeParts, IInv
  <2>2. at'[o] = at[o] /\ (Valid(o)' <=> Valid(o))
    BY <1>1, <1>3 DEF Out, Only, Valid
  <2>3. QED
    BY <1>1, <1>2, <1>3, <1>6, <2>1, <2>2 DEF LifeObject, Gone, Finished
<1>9. QED
  BY <1>4, <1>5, <1>7, <1>8, UsesKept, LifeOne DEF IInv, LifeAt

\* A detach that finds the thread about to end finds it finished: the thread had
\* the mutex until then.
LEMMA DetachBodyLife ==
  ASSUME IInv, Types', Rows', NEW t \in Thread, DetachBody(t) PROVE Uses' /\ Life'
<1>0. PICK o \in Thread : o = at[t].on /\ Valid(o) /\ th[o].joinable
  BY Here DEF DetachBody, In, IInv, Life, CallFindsJoinable, CallEarly
<1>1. at[t].pc = "in" /\ at[t].fn = "detach" /\ known' = known
  BY DEF DetachBody, In, hist
<1>2. /\ \A v \in Thread \ {t} : at[v].on = o => at[v].fn \notin OtherCalls
      /\ o # Main /\ o \notin known
  BY <1>0, <1>1, Alone
<1>3. th[o].running <=> ~Gone(o)
  BY <1>0, <1>2 DEF IInv, Life, RunningExact
<1>4. LifeObject(o)
  BY LifeIsParts DEF LifeParts, IInv
<1>5. ASSUME NEW then, Left(t, then)
      PROVE  \A x \in Thread : /\ Gone(x)' <=> Gone(x)
                               /\ Finished(x)' <=> Finished(x)
                               /\ Beginning(x)' <=> Beginning(x)
  BY <1>1, <1>5 DEF Left, Only, Gone, Finished, Beginning
<1>6. CASE th[o].running /\ at[o].pc # "ended"
  <2>1. /\ LifeOnly(o) /\ Left(t, "run")
        /\ th'[o].object = th[o].object /\ th'[o].joiner = o
        /\ ~th'[o].joinable
        /\ th'[o].running
    BY <1>0, <1>6, DetachBodyEffect DEF IInv
  <2>2. UsesQuiet(t)
    BY <1>1, <2>1 DEF UsesQuiet, LifeOnly, Left
  <2>3. LifeStep(t, o)
    BY <1>0, <1>1, <1>5, <2>1 DEF LifeStep, LifeOnly, Left
  <2>4. ASSUME NEW v \in Thread, at'[v].on = o PROVE LifeCalls(v)'
    <3>1. CASE v = t
      BY <1>1, <2>1, <3>1 DEF Left, LifeCalls, CallEarly, JoinPast, DetachPast
    <3>2. CASE v # t
      BY <1>2, <2>1, <2>4, <3>2 DEF Left, Only, LifeCalls, CallEarly, JoinPast, DetachPast
    <3>3. QED
      BY <3>1, <3>2
  <2>5. LifeObject(o)'
    BY <1>1, <1>2, <1>3, <1>5, <1>6, <2>1 DEF LifeObject
  <2>6. QED
    BY <2>2, <2>3, <2>4, <2>5, UsesKept, LifeOne DEF IInv, LifeAt
<1>7. CASE ~(th[o].running /\ at[o].pc # "ended")
  <2>1. SameObjects /\ Left(t, "delete")
    BY <1>0, <1>7, DetachBodyEffect DEF IInv
  <2>2. Finished(o)
    <3>1. at[o].pc = "ended" \/ Gone(o)
      BY <1>3, <1>7
    <3>2. ASSUME at[o].fn = "exit", at[o].pc \in Leaving PROVE FALSE
      <4>1. at[o].on = o
        BY <3>2 DEF IInv, Rows, Row
      <4>2. Token(o, o) /\ Token(t, o)
        BY <1>0, <1>1, <3>2, <4>1 DEF Token
      <4>3. o = t
        BY <4>2 DEF IInv, Mutex, TokenUnique
      <4>4. QED
        BY <1>1, <3>2, <4>3
    <3>3. QED
      BY <3>1, <3>2 DEF Gone, Finished
  <2>3. UsesQuiet(t)
    BY <1>1, <2>1 DEF UsesQuiet, SameObjects, Left
  <2>4. LifeStep(t, o)
    BY <1>0, <1>1, <1>5, <2>1 DEF LifeStep, SameObjects, Left
  <2>5. ASSUME NEW v \in Thread, at'[v].on = o PROVE LifeCalls(v)'
    <3>1. CASE v = t
      <4>1. th'[o].joinable /\ Finished(o)'
        BY <1>0, <1>5, <2>1, <2>2 DEF SameObjects, SameLife
      <4>2. QED
        BY <1>1, <2>1, <2>5, <3>1, <4>1 DEF Left, LifeCalls, CallEarly, JoinPast,
           DetachPast, Finished
    <3>2. CASE v # t
      BY <1>2, <2>1, <2>5, <3>2 DEF Left, Only, LifeCalls, CallEarly, JoinPast, DetachPast
    <3>3. QED
      BY <3>1, <3>2
  <2>6. LifeObject(o)'
    <3>1. at'[t].on = o /\ at'[t].fn = "detach" /\ DetachPast(t)'
      BY <1>0, <1>1, <2>1 DEF Left, DetachPast
    <3>2. SameLife(o) /\ (Gone(o)' <=> Gone(o))
      BY <1>5, <2>1 DEF SameObjects
    <3>3. QED
      BY <1>0, <1>1, <1>2, <1>4, <3>1, <3>2 DEF LifeObject, SameLife, Valid
  <2>7. QED
    BY <2>3, <2>4, <2>5, <2>6, UsesKept, LifeOne DEF IInv, LifeAt
<1>8. QED
  BY <1>6, <1>7

-----------------------------------------------------------------------------
(* The deletion of an object *)

\* t deletes the object o when nobody else is at it, and its thread, unless t is
\* it, has ended.
DeleteStep(t, o) ==
  /\ Deletes(o)
  /\ Out(t, "run") \/ Out(t, "count")
  /\ at[t].pc \in {"in", "joining", "delete"} /\ at[t].on = o
  /\ at[t].fn \in {"exit", "join", "detach"}
  /\ o = t <=> at[t].fn = "exit"
  /\ o # t => Finished(o) /\ at'[t].pc = "run"
  /\ o = t => at'[t].pc = "count"
  /\ \A v \in Thread \ {t} : at[v].on # o
  /\ o # Main /\ Valid(o)
  /\ known' = known \ {o} /\ pushed' = pushed /\ ran' = ran
  /\ UNCHANGED process

LEMMA DeleteKeeps ==
  ASSUME IInv, Types', NEW t \in Thread, NEW o \in Thread, DeleteStep(t, o)
  PROVE  /\ Rows' /\ Housed' /\ Mutex' /\ CounterCovers' /\ Uses' /\ Life'
         /\ Suspends' /\ Handlers' /\ Counted'
<1>1. /\ Deletes(o) /\ Only(t)
      /\ at'[t].pc \in {"run", "count"} /\ at'[t].fn = None /\ at'[t].on = None
      /\ at'[t].suspends = 0
      /\ \A v \in Thread \ {t} : at'[v] = at[v]
  BY DEF DeleteStep, Out, Only
<1>2. Valid(t) /\ Valid(o)
  BY Here DEF DeleteStep
<1>3. Rows'
  <2>1. Row(t)'
    BY <1>1, NoneAssumption DEF Row
  <2>2. QED
    BY <1>1, <2>1, RowsKept DEF IInv
<1>4. \A x \in Thread \ {o} : Valid(x)' <=> Valid(x)
  BY <1>1 DEF Deletes, SameLife, Valid
<1>5. Housed'
  <2>1. ASSUME NEW x \in Thread, at'[x].pc \notin {"none", "count", "ended"} PROVE Valid(x)'
    <3>1. x # o
      BY <1>1, <2>1 DEF DeleteStep, Finished
    <3>2. Valid(x)
      BY <1>1, <1>2, <2>1 DEF IInv, Housed
    <3>3. QED
      BY <1>4, <3>1, <3>2
  <2>2. ASSUME NEW x \in Thread, at'[x].pc \notin OffSteps
        PROVE  th'[at'[x].on].object = "valid"
    <3>1. x # t /\ at'[x] = at[x] /\ at[x].on # o
      BY <1>1, <2>2 DEF DeleteStep
    <3>2. PICK y \in Thread \ {o} : y = at[x].on /\ Valid(y)
      BY <2>2, <3>1, Here
    <3>3. Valid(y)'
      BY <1>4, <3>2
    <3>4. QED
      BY <3>1, <3>2, <3>3 DEF Valid
  <2>3. ASSUME NEW x \in Thread, th'[x].object = "none"
        PROVE  at'[x].pc = "none" /\ pushed'[x] = 0 /\ ran'[x] = 0
    <3>1. x # o /\ th[x].object = "none"
      BY <1>1, <2>3 DEF Deletes, SameLife
    <3>2. at[x].pc = "none" /\ pushed[x] = 0 /\ ran[x] = 0
      BY <3>1 DEF IInv, Housed
    <3>3. QED
      BY <1>1, <3>2 DEF DeleteStep
  <2>4. ASSUME NEW x \in Thread, Valid(x)' PROVE at'[x].pc # "none"
    <3>1. x # o
      BY <1>1, <2>4 DEF Deletes, Valid
    <3>2. QED
      BY <1>1, <1>4, <2>4, <3>1 DEF IInv, Housed
  <2>5. ASSUME NEW x \in Thread, ~Valid(x)'
        PROVE  th'[x].lock_counter = 0 /\ th'[x].semaphore = 0
    <3>1. CASE x = o
      BY <1>1, <3>1 DEF Deletes
    <3>2. CASE x # o
      <4>1. th[x].lock_counter = 0 /\ th[x].semaphore = 0
        BY <1>4, <2>5, <3>2 DEF IInv, Housed
      <4>2. QED
        BY <1>1, <3>2, <4>1 DEF Deletes, SameLock
    <3>3. QED
      BY <3>1, <3>2
  <2>6. QED
    BY <2>1, <2>2, <2>3, <2>4, <2>5 DEF Housed, Valid
<1>6. \A v \in Thread : at'[v].on # o
  BY <1>1, ThreadAssumption DEF DeleteStep
<1>7. Mutex' /\ CounterCovers'
  <2>1. MutexStep(t, o) /\ eaten' = eaten
    BY <1>1 DEF MutexStep, Deletes, DeleteStep, Touching, process
  <2>2. \A v \in Thread : ~Token(v, o)' /\ ~Posting(v, o)' /\ ~Counts(v, o)'
    BY <1>6 DEF Token, Posting, Counts
  <2>3. Inside(o)' = {}
    BY <2>2 DEF Inside
  <2>4. Cardinality(Inside(o))' = 0
    BY <2>3, FS_EmptySet
  <2>5. MutexAt(o)'
    BY <1>1, <2>2, <2>4 DEF MutexAt, Deletes
  <2>6. QED
    BY <2>1, <2>5, MutexOne DEF IInv
<1>8. Uses'
  <2>1. ASSUME NEW v \in Thread, at'[v].fn \in OtherCalls
        PROVE  v # t /\ at'[v] = at[v] /\ SameCancel(v) /\ at[v].on \in Thread \ {o}
    <3>1. v # t /\ at'[v] = at[v] /\ at[v].on # o
      BY <1>1, <2>1, NoneAssumption DEF DeleteStep
    <3>2. v # o
      <4>1. at[v].pc \notin OffSteps
        BY <2>1, <3>1, CallOn DEF IInv
      <4>2. QED
        BY <3>1, <4>1 DEF DeleteStep, Finished
    <3>3. QED
      BY <1>1, <2>1, <3>1, <3>2, CallOn DEF IInv, Deletes
  <2>2. UseAlone'
    BY <2>1 DEF IInv, Uses, UseAlone
  <2>3. ASSUME NEW x \in Thread, at'[x].fn = "begin" PROVE at[x].fn = "begin"
    BY <1>1, <2>3, NoneAssumption
  <2>4. UseKnown'
    <3> SUFFICES ASSUME NEW v \in Thread, at'[v].fn \in OtherCalls
                 PROVE  /\ at'[v].fn \in {"join", "cancel"} => at'[v].on \in known'
                        /\ at'[v].fn = "detach" => at'[v].on \notin known' /\ at'[v].on # Main
                        /\ ~Async(v)'
                        /\ at'[v].fn = "join" => at'[v].on # v /\ at'[at'[v].on].fn # "begin"
      BY DEF UseKnown
    <3>1. v # t /\ at'[v] = at[v] /\ SameCancel(v) /\ at[v].on \in Thread \ {o}
      BY <2>1
    <3>2. at'[at[v].on].fn = "begin" => at[at[v].on].fn = "begin"
      BY <2>3, <3>1
    <3>3. QED
      BY <3>1, <3>2 DEF SameCancel, IInv, Uses, UseKnown, Async, DeleteStep
  <2>5. QED
    BY <2>2, <2>4 DEF Uses
<1>9. Life'
  <2>1. ASSUME NEW x \in Thread \ {o}
        PROVE  /\ Gone(x)' <=> Gone(x)
               /\ Finished(x) => Finished(x)'
               /\ Beginning(x) => Beginning(x)'
    <3>1. CASE x = t
      BY <1>1, <3>1, NoneAssumption DEF Gone, Finished, Beginning, DeleteStep
    <3>2. CASE x # t
      BY <1>1, <3>2 DEF Gone, Finished, Beginning
    <3>3. QED
      BY <3>1, <3>2
  <2>2. LifeStep(t, o)
    BY <1>1, <2>1, NoneAssumption DEF LifeStep, Deletes, DeleteStep
  <2>3. LifeAt(o)'
    BY <1>1, <1>6 DEF LifeAt, LifeObject, Deletes, DeleteStep, Valid
  <2>4. QED
    BY <1>3, <2>2, <2>3, LifeOne DEF IInv
<1>10. Suspends'
  <2>1. SuspendsQuiet(t)
    BY <1>1, ThreadAssumption DEF SuspendsQuiet, Resumer, DeleteStep
  <2>2. QED
    BY <2>1, SuspendsKept DEF IInv
<1>11. Handlers'
  <2>1. ASSUME NEW x \in Thread PROVE HandlersOf(x)'
    <3>1. HandlersOf(x)
      BY DEF IInv, Handlers
    <3>2. CASE x = o
      <4>1. ~Valid(x)'
        BY <1>1, <3>2 DEF Deletes, Valid
      <4>2. at'[x].fn = None /\ Finished(x)' /\ (at[x].fn = "exit" \/ Finished(x))
        BY <1>1, <3>2 DEF DeleteStep, Finished, IInv, Rows, Row
      <4>3. QED
        BY <3>1, <4>1, <4>2, NoneAssumption DEF HandlersOf, DeleteStep
    <3>3. CASE x # o
      <4>1. (Valid(x)' <=> Valid(x)) /\ SameStack(x)
        BY <1>1, <1>4, <3>3 DEF Deletes
      <4>2. CASE x = t
        BY <1>1, <3>1, <3>3, <4>1, <4>2, NoneAssumption
           DEF HandlersOf, SameStack, DeleteStep, Finished
      <4>3. CASE x # t
        BY <1>1, <3>1, <4>1, <4>3 DEF HandlersOf, SameStack, DeleteStep, Finished
      <4>4. QED
        BY <4>2, <4>3
    <3>4. QED
      BY <3>2, <3>3
  <2>2. QED
    BY <2>1 DEF Handlers
<1>12. Counted'
  <2>1. Lives(t) /\ Lives(t)'
    BY <1>1 DEF Lives, DeleteStep
  <2>2. QED
    BY <1>1, <2>1, CountedKept DEF IInv, DeleteStep
<1>13. QED
  BY <1>3, <1>5, <1>7, <1>8, <1>9, <1>10, <1>11, <1>12

\* A call of join, detach or cancel that is on an object, and where it may be
LEMMA DetachPlaces ==
  ASSUME IInv, NEW v \in Thread, at[v].fn = "detach", ~CallEarly(v), ~DetachPast(v)
  PROVE  at[v].pc \in Leaving
<1>1. at[v].pc \in Steps /\ at[v].pc \notin OffSteps
  BY CallOn DEF IInv, Types, Places
<1>2. QED
  BY <1>1 DEF IInv, Rows, Row, Steps, CallEarly, DetachPast

\* Whoever is its own joiner has its object for itself at the end.
LEMMA ExitAlone ==
  ASSUME IInv, NEW t \in Thread, In(t, "exit"), th[t].joiner = t
  PROVE  /\ \A v \in Thread \ {t} : at[v].on # t
         /\ t # Main /\ t \notin known
<1>1. ~th[t].joinable
  BY ThreadAssumption DEF IInv, Life, JoinableFree
<1>2. t # Main
  BY <1>1 DEF IInv, Life, MainStays
<1>3. at[t].on = t /\ Valid(t)
  BY Here DEF In, IInv, Rows, Row
<1>4. t \notin known
  <2> SUFFICES ASSUME t \in known PROVE FALSE
    OBVIOUS
  <2>1. PICK v \in Thread : JoinPast(v) /\ at[v].on = t
    BY <1>1 DEF IInv, Life, KnownKept
  <2>2. v # t
    BY <2>1 DEF JoinPast, In
  <2>3. QED
    BY <2>1, <2>2, ThreadAssumption DEF IInv, Life, JoinRecorded
<1>5. ASSUME NEW v \in Thread \ {t}, at[v].on = t PROVE FALSE
  <2>1. at[v].fn = "detach"
    <3>1. at[v].pc \notin OffSteps
      BY <1>5, ThreadAssumption DEF IInv, Rows, Row
    <3>2. at[v].fn \in OtherCalls
      BY <1>5, <3>1 DEF IInv, Rows, Row
    <3>3. QED
      BY <1>4, <1>5, <3>2 DEF IInv, Uses, UseKnown
  <2>2. ~CallEarly(v) /\ ~DetachPast(v)
    BY <1>1, <1>5 DEF IInv, Life, CallFindsJoinable, DetachLate
  <2>3. Token(v, t)
    BY <1>5, <2>1, <2>2, DetachPlaces DEF Token
  <2>4. Token(t, t)
    BY <1>3 DEF Token, In
  <2>5. QED
    BY <2>3, <2>4 DEF IInv, Mutex, TokenUnique
<1>6. QED
  BY <1>2, <1>4, <1>5

LEMMA ExitDeleteStep ==
  ASSUME IInv, NEW t \in Thread, ExitDelete(t) PROVE DeleteStep(t, t)
<1>1. Deletes(t) /\ Out(t, "count")
  BY DeletedObject, ReturnedPlace DEF ExitDelete, IInv
<1>2. at[t].on = t /\ Valid(t)
  BY Here DEF ExitDelete, In, IInv, Rows, Row
<1>3. /\ \A v \in Thread \ {t} : at[v].on # t
      /\ t # Main /\ t \notin known
  BY ExitAlone DEF ExitDelete
<1>4. QED
  BY <1>1, <1>2, <1>3 DEF DeleteStep, ExitDelete, In, Out, hist

\* Nobody is at the object of a thread that is finished but those who use its id.
LEMMA FinishedAlone ==
  ASSUME IInv, NEW t \in Thread, at[t].fn \in {"join", "detach"}, Finished(at[t].on)
  PROVE  \A v \in Thread \ {t} : at[v].on # at[t].on
<1> SUFFICES ASSUME NEW v \in Thread \ {t}, at[v].on = at[t].on PROVE FALSE
  OBVIOUS
<1>1. at[t].on \in Thread
  BY CallOn DEF IInv
<1>2. at[v].pc \notin OffSteps
  BY <1>1, ThreadAssumption DEF IInv, Rows, Row
<1>3. at[v].fn \notin OtherCalls
  BY Alone
<1>4. at[v].on = v
  BY <1>2, <1>3 DEF IInv, Rows, Row
<1>5. QED
  BY <1>2, <1>4 DEF Finished

LEMMA JoinedStep ==
  ASSUME IInv, NEW t \in Thread, Joined(t) PROVE DeleteStep(t, at[t].on)
<1>0. PICK o \in Thread : o = at[t].on /\ Valid(o)
  BY Here DEF Joined
<1>1. Deletes(o) /\ Out(t, "run")
  BY <1>0, DeletedObject, ReturnedPlace DEF Joined, IInv
<1>2. at[t].pc = "joining" /\ at[t].fn = "join" /\ Finished(o)
  BY <1>0 DEF Joined, IInv, Rows, Row, Finished
<1>3. \A v \in Thread \ {t} : at[v].on # o
  BY <1>0, <1>2, FinishedAlone
<1>4. o # t /\ o # Main
  <2>1. o # t /\ o \in known
    BY <1>0, <1>2, Alone
  <2>2. QED
    BY <2>1 DEF IInv, Life, KnownKept
<1>5. QED
  BY <1>0, <1>1, <1>2, <1>3, <1>4 DEF DeleteStep, Joined, Out

LEMMA DetachDeleteStep ==
  ASSUME IInv, NEW t \in Thread, DetachDelete(t) PROVE DeleteStep(t, at[t].on)
<1>0. PICK o \in Thread : o = at[t].on /\ Valid(o)
  BY Here DEF DetachDelete
<1>1. Deletes(o) /\ Out(t, "run")
  BY <1>0, DeletedObject, ReturnedPlace DEF DetachDelete, IInv
<1>2. at[t].pc = "delete" /\ at[t].fn = "detach" /\ Finished(o)
  BY <1>0 DEF DetachDelete, IInv, Rows, Row, Life, DetachLate, DetachPast
<1>3. \A v \in Thread \ {t} : at[v].on # o
  BY <1>0, <1>2, FinishedAlone
<1>4. o # t /\ o # Main /\ o \notin known
  BY <1>0, <1>2, Alone DEF Finished
<1>5. QED
  BY <1>0, <1>1, <1>2, <1>3, <1>4 DEF DeleteStep, DetachDelete, Out, hist

-----------------------------------------------------------------------------
(* The number of threads *)

\* A new thread has an object nobody knew of, and begins.
LEMMA CreateKeeps ==
  ASSUME IInv, Types', NEW t \in Thread, NEW u \in Thread, NEW joinable \in BOOLEAN,
         Create(t, u, joinable)
  PROVE  /\ Rows' /\ Housed' /\ Mutex' /\ CounterCovers' /\ Uses' /\ Life'
         /\ Suspends' /\ Handlers' /\ Counted'
<1>1. /\ \A x \in Thread \ {u} :
           SameLife(x) /\ SameLock(x) /\ SameCancel(x) /\ SameStack(x)
      /\ th'[u].object = "valid" /\ th'[u].joiner = None
      /\ th'[u].joinable <=> joinable
      /\ th'[u].running
      /\ th'[u].lock_counter = 0 /\ th'[u].semaphore = 0 /\ th'[u].cleanup_stack = 0
      /\ Called(u, "begin", u)
  BY CreateEffect DEF IInv
<1>2. /\ Only(u) /\ at'[u].pc = "lock" /\ at'[u].fn = "begin" /\ at'[u].on = u
      /\ at'[u].suspends = at[u].suspends
      /\ \A v \in Thread \ {u} : at'[v] = at[v]
  BY <1>1 DEF Called, Only
<1>3. /\ at[t].pc = "run" /\ at[u].pc = "none" /\ th[u].object = "none"
      /\ threadcount' = threadcount + 1 /\ over' = over /\ pushed' = pushed /\ ran' = ran
      /\ at[u].fn = None /\ at[u].on = None
      /\ \A x \in Thread \ {u} : x \in known' <=> x \in known
      /\ u \in known' <=> joinable \/ u \in known
  BY DEF Create, IInv, Rows, Row
<1>4. u # t /\ u # Main /\ u \notin known /\ ~Valid(u)
  BY <1>3 DEF IInv, Life, MainStays, KnownKept, Valid
<1>5. \A v \in Thread : at[v].on # u
  <2> SUFFICES ASSUME NEW v \in Thread, at[v].on = u PROVE FALSE
    OBVIOUS
  <2>1. at[v].pc \notin OffSteps
    BY ThreadAssumption DEF IInv, Rows, Row
  <2>2. QED
    BY <1>4, <2>1, Here
<1>6. Rows'
  <2>1. Row(u)'
    BY <1>1, <1>2, NoneAssumption DEF Row, Called
  <2>2. QED
    BY <1>2, <2>1, RowsKept DEF IInv
<1>7. Housed'
  <2>1. \A x \in Thread : Valid(x)' <=> Valid(x) \/ x = u
    BY <1>1 DEF SameLife, Valid
  <2>2. ASSUME NEW x \in Thread, at'[x].pc \notin OffSteps
        PROVE  th'[at'[x].on].object = "valid"
    <3>1. CASE x = u
      BY <1>1, <1>2, <3>1
    <3>2. CASE x # u
      <4>1. PICK y \in Thread : y = at[x].on /\ Valid(y) /\ at'[x].on = y
        BY <1>2, <2>2, <3>2, Here
      <4>2. Valid(y)'
        BY <2>1, <4>1
      <4>3. QED
        BY <4>1, <4>2 DEF Valid
    <3>3. QED
      BY <3>1, <3>2
  <2>3. ASSUME NEW x \in Thread, th'[x].object = "none"
        PROVE  at'[x].pc = "none" /\ pushed'[x] = 0 /\ ran'[x] = 0
    <3>1. x # u /\ th[x].object = "none"
      BY <1>1, <2>3 DEF SameLife
    <3>2. QED
      BY <1>2, <1>3, <3>1 DEF IInv, Housed
  <2>4. ASSUME NEW x \in Thread, ~Valid(x)'
        PROVE  th'[x].lock_counter = 0 /\ th'[x].semaphore = 0
    BY <1>1, <2>1, <2>4 DEF IInv, Housed, SameLock
  <2>5. \A x \in Thread : /\ at'[x].pc \notin {"none", "count", "ended"} => Valid(x)'
                          /\ Valid(x)' => at'[x].pc # "none"
    BY <1>2, <2>1 DEF IInv, Housed
  <2>6. QED
    BY <2>2, <2>3, <2>4, <2>5 DEF Housed, Valid
<1>8. Mutex' /\ CounterCovers'
  <2>1. MutexStep(u, u) /\ eaten' = eaten
    BY <1>1, <1>2, <1>3 DEF MutexStep, Touching, Create
  <2>2. \A v \in Thread : ~Token(v, u)' /\ ~Posting(v, u)' /\ ~Counts(v, u)'
    BY <1>2, <1>5 DEF Token, Posting, Counts
  <2>3. Inside(u)' = {}
    BY <2>2 DEF Inside
  <2>4. Cardinality(Inside(u))' = 0
    BY <2>3, FS_EmptySet
  <2>5. MutexAt(u)'
    BY <1>1, <2>2, <2>4 DEF MutexAt
  <2>6. QED
    BY <2>1, <2>5, MutexOne DEF IInv
<1>9. Uses'
  <2>1. ASSUME NEW v \in Thread, at'[v].fn \in OtherCalls
        PROVE  at'[v] = at[v] /\ SameCancel(v) /\ at[v].on \in Thread \ {u}
    <3>1. v # u
      BY <1>2, <2>1
    <3>2. QED
      BY <1>1, <1>2, <1>5, <2>1, <3>1, CallOn DEF IInv
  <2>2. UseAlone'
    BY <2>1 DEF IInv, Uses, UseAlone
  <2>3. UseKnown'
    <3> SUFFICES ASSUME NEW v \in Thread, at'[v].fn \in OtherCalls
                 PROVE  /\ at'[v].fn \in {"join", "cancel"} => at'[v].on \in known'
                        /\ at'[v].fn = "detach" => at'[v].on \notin known' /\ at'[v].on # Main
                        /\ ~Async(v)'
                        /\ at'[v].fn = "join" => at'[v].on # v /\ at'[at'[v].on].fn # "begin"
      BY DEF UseKnown
    <3>1. at'[v] = at[v] /\ SameCancel(v) /\ at[v].on \in Thread \ {u}
      BY <2>1
    <3>2. at'[at[v].on] = at[at[v].on]
      BY <1>2, <3>1
    <3>3. at[v].on \in known' <=> at[v].on \in known
      BY <1>3, <3>1
    <3>4. QED
      BY <3>1, <3>2, <3>3 DEF SameCancel, IInv, Uses, UseKnown, Async
  <2>4. QED
    BY <2>2, <2>3 DEF Uses
<1>10. Life'
  <2>1. \A x \in Thread \ {u} : /\ Gone(x)' <=> Gone(x)
                                /\ Finished(x) => Finished(x)'
                                /\ Beginning(x) => Beginning(x)'
    BY <1>2 DEF Gone, Finished, Beginning
  <2>2. LifeStep(u, u)
    BY <1>1, <1>2, <1>3, <2>1, NoneAssumption DEF LifeStep
  <2>3. ASSUME NEW v \in Thread, at'[v].on = u PROVE LifeCalls(v)'
    <3>1. v = u
      BY <1>2, <1>5, <2>3
    <3>2. QED
      BY <1>2, <3>1 DEF LifeCalls, CallEarly, JoinPast, DetachPast
  <2>4. LifeObject(u)'
    <3>1. Valid(u)' /\ ~Gone(u)' /\ Beginning(u)'
      BY <1>1, <1>2 DEF Valid, Gone, Finished, Beginning
    <3>2. QED
      BY <1>1, <1>3, <1>4, <3>1 DEF LifeObject
  <2>5. QED
    BY <1>6, <2>2, <2>3, <2>4, LifeOne DEF IInv, LifeAt
<1>11. Suspends'
  <2>1. SuspendsQuiet(u)
    BY <1>2, <1>3 DEF SuspendsQuiet, Resumer
  <2>2. QED
    BY <2>1, SuspendsKept DEF IInv
<1>12. Handlers'
  <2>1. pushed[u] = 0 /\ ran[u] = 0
    BY <1>3 DEF IInv, Housed
  <2>2. HandlersOf(u)'
    BY <1>1, <1>2, <1>3, <2>1 DEF HandlersOf, Finished
  <2>3. QED
    BY <1>1, <1>2, <1>3, <2>2, HandlersKept DEF IInv, SameLife
<1>13. Counted'
  <2>1. IsFiniteSet(Living)
    BY ThreadAssumption, FS_Subset DEF Living
  <2>2. Living' = Living \cup {u} /\ u \notin Living /\ t \in Living
    BY <1>2, <1>3 DEF Living, Lives
  <2>3. Cardinality(Living)' = Cardinality(Living) + 1
    BY <2>1, <2>2, FS_AddElement
  <2>4. Cardinality(Living) \in Nat /\ Cardinality(Living) # 0
    BY <2>1, <2>2, FS_CardinalityType, FS_EmptySet
  <2>5. QED
    BY <1>3, <2>3, <2>4 DEF IInv, Counted
<1>14. QED
  BY <1>6, <1>7, <1>8, <1>9, <1>10, <1>11, <1>12, <1>13

LEMMA CountKeeps ==
  ASSUME IInv, NEW t \in Thread, Count(t)
  PROVE  /\ Rows' /\ Housed' /\ Mutex' /\ CounterCovers' /\ Uses' /\ Life'
         /\ Suspends' /\ Handlers' /\ Counted'
<1>1. /\ SameObjects /\ Went(t, "ended") /\ at[t].pc = "count"
      /\ at[t].fn = None /\ at[t].on = None
      /\ known' = known /\ pushed' = pushed /\ ran' = ran
  BY Unchanged, GotoPlace DEF Count, IInv, hist, Rows, Row
<1>2. /\ Only(t) /\ at'[t].pc = "ended" /\ at'[t].fn = None /\ at'[t].on = None
      /\ at'[t].suspends = at[t].suspends
  BY <1>1 DEF Went
<1>3. Rows'
  <2>1. Row(t)'
    BY <1>2, NoneAssumption DEF Row
  <2>2. QED
    BY <1>2, <2>1, RowsKept DEF IInv
<1>4. Housed'
  <2>1. HousedQuiet(t)
    BY <1>1, <1>2 DEF HousedQuiet, SameObjects, SameLife
  <2>2. QED
    BY <1>3, <2>1, HousedKept DEF IInv
<1>5. Mutex' /\ CounterCovers'
  <2>1. MutexQuiet(t) /\ eaten' = eaten
    BY <1>1, <1>2 DEF MutexQuiet, SameObjects, Touching, Count
  <2>2. QED
    BY <2>1, MutexKept DEF IInv
<1>6. Uses' /\ Life'
  <2>1. LifeQuiet(t)
    BY <1>1, <1>2, NoneAssumption DEF LifeQuiet, SameObjects, CallSame, Gone, Finished,
       Beginning, CallEarly, JoinPast, DetachPast
  <2>2. QED
    BY <1>2, <2>1, LifeStays
<1>7. Suspends'
  <2>1. SuspendsQuiet(t)
    BY <1>1, <1>2 DEF SuspendsQuiet, Resumer
  <2>2. QED
    BY <2>1, SuspendsKept DEF IInv
<1>8. Handlers'
  <2>1. HandlersOf(t)'
    BY <1>1, <1>2, NoneAssumption
       DEF HandlersOf, SameObjects, SameLife, SameStack, Valid, Finished, IInv, Handlers
  <2>2. QED
    BY <1>1, <1>2, <2>1, HandlersKept DEF IInv, SameObjects, SameLife
<1>9. Counted'
  <2>1. IsFiniteSet(Living)
    BY ThreadAssumption, FS_Subset DEF Living
  <2>2. Living' = Living \ {t} /\ t \in Living
    BY <1>1, <1>2 DEF Living, Lives, Only
  <2>3. Cardinality(Living)' = Cardinality(Living) - 1
    BY <2>1, <2>2, FS_RemoveElement
  <2>4. Cardinality(Living) \in Nat /\ Cardinality(Living) # 0
    BY <2>1, <2>2, FS_CardinalityType, FS_EmptySet
  <2>5. threadcount' = threadcount - 1 /\ (over' <=> threadcount = 1)
    BY DEF Count
  <2>6. QED
    BY <2>3, <2>4, <2>5 DEF IInv, Counted
<1>10. QED
  BY <1>3, <1>4, <1>5, <1>6, <1>7, <1>8, <1>9

-----------------------------------------------------------------------------
(* Steps that move other threads *)

\* A thread that is cancelled asynchronously is in no call on the id of another,
\* and does not have its own mutex: its canceller does.
LEMMA TornOut ==
  ASSUME IInv, NEW t \in Thread, NEW u \in Thread, u = at[t].on, CancelAsync(t)
  PROVE  /\ at[t].pc = "in" /\ at[t].fn = "cancel" /\ u # t /\ Valid(u) /\ Valid(t)
         /\ u \in known /\ u # Main /\ ~Gone(u) /\ at[u].pc # "none"
         /\ at[u].fn \notin OtherCalls /\ at[u].on \in {u, None}
         /\ \A o \in Thread : ~Token(u, o)
<1>1. /\ at[t].pc = "in" /\ at[t].fn = "cancel" /\ u # t /\ Valid(u) /\ Valid(t)
      /\ th[u].running /\ Async(u)
  BY Here DEF CancelAsync, In
<1>2. u \in known /\ u # Main
  BY <1>1 DEF IInv, Uses, UseKnown, Life, KnownKept
<1>3. ~Gone(u) /\ at[u].pc # "none"
  BY <1>1, <1>2 DEF IInv, Life, RunningExact, Housed
<1>4. at[u].fn \notin OtherCalls
  BY <1>1 DEF IInv, Uses, UseKnown
<1>5. at[u].on \in {u, None}
  BY <1>4 DEF IInv, Rows, Row
<1>6. ASSUME NEW o \in Thread, Token(u, o) PROVE FALSE
  <2>1. o = u
    BY <1>5, <1>6, ThreadAssumption DEF Token
  <2>2. Token(t, u)
    BY <1>1 DEF Token
  <2>3. QED
    BY <1>1, <1>6, <2>1, <2>2 DEF IInv, Mutex, TokenUnique
<1>7. QED
  BY <1>1, <1>2, <1>3, <1>4, <1>5, <1>6

LEMMA CancelAsyncKeeps ==
  ASSUME IInv, NEW t \in Thread, CancelAsync(t)
  PROVE  /\ Rows' /\ Housed' /\ Mutex' /\ CounterCovers' /\ Uses' /\ Life'
         /\ Suspends' /\ Handlers' /\ Counted'
<1>0. PICK u \in Thread : u = at[t].on
  BY Here DEF CancelAsync, In
<1>1. /\ SameObjects
      /\ \A x \in Thread \ {t, u} : at'[x] = at[x]
      /\ at'[t].pc = "unlock" /\ at'[t].fn = "cancel" /\ at'[t].on = u
      /\ at'[t].then = "resume" /\ at'[t].suspends = at[t].suspends
      /\ at'[u].pc = "suspended" /\ at'[u].fn = None /\ at'[u].on = None
      /\ at'[u].suspends = at[u].suspends + 1
      /\ known' = known /\ pushed' = pushed /\ ran' = ran
      /\ eaten' = eaten /\ threadcount' = threadcount /\ over' = over
  BY <1>0, CancelAsyncEffect, ZenonT(30) DEF IInv, CancelAsync, hist, In
<1>2. /\ at[t].pc = "in" /\ at[t].fn = "cancel" /\ u # t /\ Valid(u) /\ Valid(t)
      /\ u \in known /\ u # Main /\ ~Gone(u) /\ at[u].pc # "none"
      /\ at[u].fn \notin OtherCalls /\ at[u].on \in {u, None}
      /\ \A o \in Thread : ~Token(u, o)
  BY <1>0, TornOut
<1>3. Rows'
  <2>1. Row(t)' /\ Row(u)'
    BY <1>1, NoneAssumption DEF Row, Then
  <2>2. ASSUME NEW x \in Thread \ {t, u} PROVE Row(x)'
    BY <1>1 DEF IInv, Rows, Row, Then
  <2>3. QED
    BY <2>1, <2>2 DEF Rows
<1>4. \A x \in Thread : Valid(x)' <=> Valid(x)
  BY <1>1 DEF SameObjects, SameLife, Valid
<1>5. Housed'
  <2>1. ASSUME NEW x \in Thread, at'[x].pc \notin OffSteps
        PROVE  th'[at'[x].on].object = "valid"
    <3>1. PICK y \in Thread : y = at'[x].on /\ Valid(y)
      <4>1. CASE x = t
        BY <1>1, <1>2, <4>1
      <4>2. CASE x # t
        BY <1>1, <2>1, <4>2, Here
      <4>3. QED
        BY <4>1, <4>2
    <3>2. Valid(y)'
      BY <1>4, <3>1
    <3>3. QED
      BY <3>1, <3>2 DEF Valid
  <2>2. \A x \in Thread : th'[x].object = "none" => x # t /\ x # u
    BY <1>2, <1>4 DEF Valid
  <2>3. QED
    BY <1>1, <1>2, <1>4, <2>1, <2>2 DEF IInv, Housed, SameObjects, SameLife, SameLock, Valid
<1>6. Mutex' /\ CounterCovers'
  <2>1. ASSUME NEW v \in Thread, NEW o \in Thread
        PROVE  /\ Token(v, o)' <=> Token(v, o)
               /\ Posting(v, o)' <=> Posting(v, o)
               /\ Counts(v, o)' => Counts(v, o)
               /\ o # u => (Counts(v, o)' <=> Counts(v, o))
    <3>1. CASE v = t
      BY <1>0, <1>1, <1>2, <3>1 DEF Token, Posting, Counts
    <3>2. CASE v = u
      BY <1>1, <1>2, <3>2, ThreadAssumption DEF Token, Posting, Counts
    <3>3. CASE v \notin {t, u}
      BY <1>1, <3>3 DEF Token, Posting, Counts
    <3>4. QED
      BY <3>1, <3>2, <3>3
  <2>2. MutexElse(u)
    BY <1>1, <2>1 DEF MutexElse, SameObjects
  <2>3. Inside(u)' \subseteq Inside(u)
    BY <2>1 DEF Inside
  <2>4. Cardinality(Inside(u))' <= Cardinality(Inside(u)) /\ Cardinality(Inside(u))' \in Nat
    BY <2>3, InsideFinite, FS_Subset, FS_CardinalityType
  <2>5. SameLock(u) /\ MutexAt(u)
    BY <1>1, MutexHere DEF IInv, SameObjects
  <2>6. Cardinality(Inside(u))' <= th'[u].lock_counter
    <3>1. Cardinality(Inside(u)) <= th[u].lock_counter /\ th[u].lock_counter \in Nat
      BY <2>5 DEF MutexAt, IInv, Types, Objects
    <3>2. QED
      BY <2>4, <2>5, <3>1, InsideFinite DEF SameLock
  <2>7. MutexAt(u)'
    BY <1>1, <2>1, <2>5, <2>6 DEF MutexAt, SameLock
  <2>8. QED
    BY <1>1, <2>2, <2>7, MutexElsewhere DEF IInv
<1>7. Uses' /\ Life'
  <2>1. CallSame(t)
    BY <1>0, <1>1, <1>2 DEF CallSame, Gone, Finished, Beginning, CallEarly, JoinPast,
       DetachPast, SameObjects
  <2>2. CallSame(u)
    BY <1>1, <1>2, NoneAssumption
       DEF CallSame, Gone, Finished, Beginning, CallEarly, JoinPast, DetachPast
  <2>3. ASSUME NEW x \in Thread \ {t, u} PROVE CallSame(x)
    BY <1>1 DEF CallSame, Gone, Finished, Beginning, CallEarly, JoinPast, DetachPast,
       SameObjects
  <2>4. LifeSame
    BY <1>1, <2>1, <2>2, <2>3 DEF LifeSame, SameObjects
  <2>5. QED
    BY <2>4, LifeFrame DEF IInv
<1>8. Suspends'
  <2>1. \A x \in Thread : Resumer(t, x)' <=> x = u
    BY <1>1 DEF Resumer
  <2>2. \A x \in Thread : ~Resumer(t, x)
    BY <1>2 DEF Resumer
  <2>3. \A x \in Thread : ~Resumer(u, x) /\ ~Resumer(u, x)'
    BY <1>1, <1>2 DEF Resumer, IInv, Rows, Row, Then
  <2>4. \A x \in Thread, v \in Thread \ {t, u} : Resumer(v, x)' <=> Resumer(v, x)
    BY <1>1 DEF Resumer
  <2>5. Resumers(u)' = Resumers(u) \cup {t} /\ t \notin Resumers(u)
    BY <2>1, <2>2, <2>3, <2>4 DEF Resumers
  <2>6. \A x \in Thread \ {u} : Resumers(x)' = Resumers(x)
    BY <2>1, <2>2, <2>3, <2>4 DEF Resumers
  <2>7. IsFiniteSet(Resumers(u))
    BY ThreadAssumption, FS_Subset DEF Resumers
  <2>8. Cardinality(Resumers(u))' = Cardinality(Resumers(u)) + 1
    BY <2>5, <2>7, FS_AddElement
  <2>9. \A x \in Thread : ~Resumer(x, x)'
    BY <1>2, <2>1, <2>3, <2>4 DEF IInv, Suspends
  <2>10. ASSUME NEW x \in Thread
         PROVE  /\ at'[x].suspends = Cardinality(Resumers(x))'
                /\ at'[x].suspends > 0 <=> at'[x].pc = "suspended"
    <3>0. /\ at[x].suspends = Cardinality(Resumers(x)) /\ at[x].suspends \in Nat
          /\ at[x].suspends > 0 <=> at[x].pc = "suspended"
      BY DEF IInv, Suspends, Types, Places
    <3>1. CASE x = u
      BY <1>1, <2>8, <3>0, <3>1
    <3>2. CASE x = t
      BY <1>1, <1>2, <2>6, <3>0, <3>2
    <3>3. CASE x \notin {t, u}
      BY <1>1, <2>6, <3>0, <3>3
    <3>4. QED
      BY <3>1, <3>2, <3>3
  <2>11. QED
    BY <2>9, <2>10 DEF Suspends
<1>9. Handlers'
  <2>1. ASSUME NEW x \in Thread PROVE HandlersOf(x)'
    <3>0. HandlersOf(x) /\ (Valid(x)' <=> Valid(x)) /\ SameStack(x)
      BY <1>1, <1>4 DEF IInv, Handlers, SameObjects
    <3>1. CASE x = u
      <4>1. at[u].pc # "pop"
        BY <1>2 DEF Token, IInv, Rows, Row
      <4>2. QED
        BY <1>1, <3>0, <3>1, <4>1, NoneAssumption DEF HandlersOf, SameStack, Finished
    <3>2. CASE x = t
      BY <1>1, <1>2, <3>0, <3>2 DEF HandlersOf, SameStack, Finished
    <3>3. CASE x \notin {t, u}
      BY <1>1, <3>0, <3>3 DEF HandlersOf, SameStack, Finished
    <3>4. QED
      BY <3>1, <3>2, <3>3
  <2>2. QED
    BY <2>1 DEF Handlers
<1>10. Counted'
  <2>1. \A x \in Thread : Lives(x)' <=> Lives(x)
    BY <1>1, <1>2 DEF Lives, Gone, Finished
  <2>2. Living' = Living
    BY <2>1 DEF Living
  <2>3. QED
    BY <1>1, <2>2 DEF IInv, Counted
<1>11. QED
  BY <1>3, <1>5, <1>6, <1>7, <1>8, <1>9, <1>10

\* A cancelled thread that gets the mutex it still waited for eats the permit.
LEMMA WaitEndsKeeps ==
  ASSUME IInv, NEW t \in Thread, WaitEnds(t)
  PROVE  /\ Rows' /\ Housed' /\ Mutex' /\ CounterCovers' /\ Uses' /\ Life'
         /\ Suspends' /\ Handlers' /\ Counted'
<1>0. PICK o \in Thread : o = torn[t]
  BY DEF WaitEnds, IInv, Types
<1>1. /\ th[o].semaphore = 1
      /\ th' = [th EXCEPT ![o].semaphore = @ - 1]
      /\ eaten' = eaten \cup {o} /\ at' = at
      /\ threadcount' = threadcount /\ over' = over /\ known' = known
      /\ pushed' = pushed /\ ran' = ran
  BY <1>0 DEF WaitEnds, hist, IInv, Types, Objects
<1>2. LockOnly(o, th[o].lock_counter, 0)
  BY <1>1 DEF IInv, Types, Objects, LockOnly, SameLife, SameLock, SameCancel, SameStack
<1>3. Valid(o)
  BY <1>1 DEF IInv, Housed
<1>4. Rows'
  BY <1>1 DEF IInv, Rows, Row, Then
<1>5. \A x \in Thread : Valid(x)' <=> Valid(x)
  BY <1>2 DEF LockOnly, SameLife, Valid
<1>6. Housed'
  <2>1. ASSUME NEW x \in Thread, at'[x].pc \notin OffSteps
        PROVE  th'[at'[x].on].object = "valid"
    <3>1. PICK y \in Thread : y = at'[x].on /\ Valid(y)
      BY <1>1, <2>1, Here
    <3>2. QED
      BY <1>5, <3>1 DEF Valid
  <2>2. \A x \in Thread : th'[x].object = th[x].object
    BY <1>2 DEF LockOnly, SameLife
  <2>3. \A x \in Thread : ~Valid(x) => th'[x].lock_counter = 0 /\ th'[x].semaphore = 0
    BY <1>2, <1>3 DEF LockOnly, SameLock, IInv, Housed
  <2>4. QED
    BY <1>1, <1>5, <2>1, <2>2, <2>3 DEF IInv, Housed, Valid
<1>7. Mutex' /\ CounterCovers'
  <2>1. \A v, x \in Thread : /\ Token(v, x)' <=> Token(v, x)
                             /\ Posting(v, x)' <=> Posting(v, x)
                             /\ Counts(v, x)' <=> Counts(v, x)
    BY <1>1 DEF Token, Posting, Counts
  <2>2. MutexElse(o)
    BY <1>2, <2>1 DEF MutexElse, LockOnly
  <2>3. Inside(o)' = Inside(o)
    BY <2>1 DEF Inside
  <2>4. MutexAt(o) /\ \A v \in Thread : ~Token(v, o) /\ ~Posting(v, o)
    BY <1>1, MutexHere DEF IInv, MutexAt, Token, Posting
  <2>5. MutexAt(o)'
    BY <1>1, <1>2, <2>1, <2>3, <2>4 DEF MutexAt, LockOnly
  <2>6. QED
    BY <1>1, <2>2, <2>5, MutexElsewhere DEF IInv
<1>8. Uses' /\ Life'
  <2>1. \A x \in Thread : SameLife(x) /\ CallSame(x)
    BY <1>1, <1>2 DEF LockOnly, CallSame, Gone, Finished, Beginning, CallEarly, JoinPast,
       DetachPast
  <2>2. QED
    BY <1>1, <2>1, LifeFrame DEF IInv, LifeSame
<1>9. Suspends'
  <2>1. \A u \in Thread : Resumers(u)' = Resumers(u) /\ (Resumer(u, u)' <=> Resumer(u, u))
    BY <1>1 DEF Resumers, Resumer
  <2>2. QED
    BY <1>1, <2>1 DEF IInv, Suspends
<1>10. Handlers'
  <2>1. \A x \in Thread : th'[x].cleanup_stack = th[x].cleanup_stack
    BY <1>2 DEF LockOnly, SameStack
  <2>2. QED
    BY <1>1, <1>5, <2>1 DEF IInv, Handlers, HandlersOf, Finished
<1>11. Counted'
  <2>1. Living' = Living
    BY <1>1 DEF Living, Lives
  <2>2. QED
    BY <1>1, <2>1 DEF IInv, Counted
<1>12. QED
  BY <1>4, <1>6, <1>7, <1>8, <1>9, <1>10, <1>11

\* The resumed thread runs when the last who suspended it has resumed it.
LEMMA ResumeKeeps ==
  ASSUME IInv, NEW t \in Thread, Resume(t)
  PROVE  /\ Rows' /\ Housed' /\ Mutex' /\ CounterCovers' /\ Uses' /\ Life'
         /\ Suspends' /\ Handlers' /\ Counted'
<1>0. PICK u \in Thread : u = at[t].on /\ Valid(u) /\ Valid(t)
  BY Here DEF Resume
<1>1. at[t].pc = "resume" /\ at[t].fn = "cancel" /\ Resumer(t, u) /\ u # t
  BY <1>0 DEF Resume, Resumer, IInv, Rows, Row, Suspends
<1>2. IsFiniteSet(Resumers(u)) /\ t \in Resumers(u)
  BY <1>1, ThreadAssumption, FS_Subset DEF Resumers
<1>3. /\ at[u].suspends = Cardinality(Resumers(u)) /\ at[u].suspends \in Nat \ {0}
      /\ at[u].pc = "suspended" /\ at[u].fn = None /\ at[u].on = None
  <2>1. Cardinality(Resumers(u)) \in Nat \ {0}
    BY <1>2, FS_CardinalityType, FS_EmptySet
  <2>2. QED
    BY <2>1 DEF IInv, Suspends, Rows, Row
<1>4. /\ SameObjects
      /\ \A x \in Thread \ {t, u} : at'[x] = at[x]
      /\ at'[t].pc = "run" /\ at'[t].fn = None /\ at'[t].on = None
      /\ at'[t].suspends = 0
      /\ at'[u].pc = (IF at[u].suspends = 1 THEN "exit" ELSE "suspended")
      /\ at'[u].fn = None /\ at'[u].on = None
      /\ at'[u].suspends = at[u].suspends - 1
      /\ known' = known /\ pushed' = pushed /\ ran' = ran
      /\ UNCHANGED process
  <2>1. /\ known' = known /\ pushed' = pushed /\ ran' = ran
        /\ UNCHANGED process
    BY DEF Resume, hist
  <2>2. Types
    BY DEF IInv
  <2>3. QED
    BY <1>0, <1>1, <1>3, <2>1, <2>2, ResumeEffect
<1>5. at'[u].pc \in {"exit", "suspended"}
  BY <1>4
<1>6. Rows'
  <2>1. Row(t)' /\ Row(u)'
    BY <1>4, <1>5, NoneAssumption DEF Row
  <2>2. ASSUME NEW x \in Thread \ {t, u} PROVE Row(x)'
    BY <1>4 DEF IInv, Rows, Row, Then
  <2>3. QED
    BY <2>1, <2>2 DEF Rows
<1>7. \A x \in Thread : Valid(x)' <=> Valid(x)
  BY <1>4 DEF SameObjects, SameLife, Valid
<1>8. Housed'
  <2>1. ASSUME NEW x \in Thread, at'[x].pc \notin OffSteps
        PROVE  th'[at'[x].on].object = "valid"
    <3>1. PICK y \in Thread : y = at'[x].on /\ Valid(y)
      BY <1>4, <1>5, <2>1, Here
    <3>2. Valid(y)'
      BY <1>7, <3>1
    <3>3. QED
      BY <3>1, <3>2 DEF Valid
  <2>2. \A x \in Thread : th'[x].object = "none" => x # t /\ x # u
    BY <1>0, <1>7 DEF Valid
  <2>3. QED
    BY <1>0, <1>4, <1>5, <1>7, <2>1, <2>2 DEF IInv, Housed, SameObjects, SameLife,
       SameLock, Valid
<1>9. Mutex' /\ CounterCovers'
  <2>1. ASSUME NEW v \in Thread, NEW o \in Thread
        PROVE  /\ Token(v, o)' <=> Token(v, o)
               /\ Posting(v, o)' <=> Posting(v, o)
               /\ Counts(v, o)' <=> Counts(v, o)
    <3>1. CASE v \in {t, u}
      BY <1>1, <1>3, <1>4, <1>5, <3>1 DEF Token, Posting, Counts
    <3>2. CASE v \notin {t, u}
      BY <1>4, <3>2 DEF Token, Posting, Counts
    <3>3. QED
      BY <3>1, <3>2
  <2>2. MutexSame /\ eaten' = eaten
    BY <1>4, <2>1 DEF MutexSame, SameObjects, process
  <2>3. QED
    BY <2>2, MutexFrame DEF IInv
<1>10. Uses' /\ Life'
  <2>1. CallSame(t) /\ CallSame(u)
    BY <1>1, <1>3, <1>4, <1>5, NoneAssumption
       DEF CallSame, Gone, Finished, Beginning, CallEarly, JoinPast, DetachPast
  <2>2. ASSUME NEW x \in Thread \ {t, u} PROVE CallSame(x)
    BY <1>4 DEF CallSame, Gone, Finished, Beginning, CallEarly, JoinPast, DetachPast,
       SameObjects
  <2>3. LifeSame
    BY <1>4, <2>1, <2>2 DEF LifeSame, SameObjects
  <2>4. QED
    BY <2>3, LifeFrame DEF IInv
<1>11. Suspends'
  <2>1. \A x \in Thread : ~Resumer(t, x)' /\ ~Resumer(u, x) /\ ~Resumer(u, x)'
    BY <1>3, <1>4, <1>5 DEF Resumer
  <2>2. \A x \in Thread \ {u} : ~Resumer(t, x)
    BY <1>0 DEF Resumer
  <2>3. \A x \in Thread, v \in Thread \ {t, u} : Resumer(v, x)' <=> Resumer(v, x)
    BY <1>4 DEF Resumer
  <2>4. Resumers(u)' = Resumers(u) \ {t}
    BY <1>1, <2>1, <2>3 DEF Resumers
  <2>5. \A x \in Thread \ {u} : Resumers(x)' = Resumers(x)
    BY <2>1, <2>2, <2>3 DEF Resumers
  <2>6. Cardinality(Resumers(u))' = Cardinality(Resumers(u)) - 1
    BY <1>2, <2>4, FS_RemoveElement
  <2>7. \A x \in Thread : ~Resumer(x, x)'
    BY <2>1, <2>3 DEF IInv, Suspends
  <2>8. ASSUME NEW x \in Thread
        PROVE  /\ at'[x].suspends = Cardinality(Resumers(x))'
               /\ at'[x].suspends > 0 <=> at'[x].pc = "suspended"
    <3>0. /\ at[x].suspends = Cardinality(Resumers(x)) /\ at[x].suspends \in Nat
          /\ at[x].suspends > 0 <=> at[x].pc = "suspended"
      BY DEF IInv, Suspends, Types, Places
    <3>1. CASE x = u
      BY <1>3, <1>4, <2>6, <3>0, <3>1
    <3>2. CASE x = t
      BY <1>1, <1>4, <2>5, <3>0, <3>2
    <3>3. CASE x \notin {t, u}
      BY <1>4, <2>5, <3>0, <3>3
    <3>4. QED
      BY <3>1, <3>2, <3>3
  <2>9. QED
    BY <2>7, <2>8 DEF Suspends
<1>12. Handlers'
  <2>1. ASSUME NEW x \in Thread PROVE HandlersOf(x)'
    <3>0. HandlersOf(x) /\ (Valid(x)' <=> Valid(x)) /\ SameStack(x)
      BY <1>4, <1>7 DEF IInv, Handlers, SameObjects
    <3>1. CASE x \in {t, u}
      <4>1. at[x].pc \in {"resume", "suspended"} /\ at'[x].pc \in {"run", "exit", "suspended"}
        BY <1>1, <1>3, <1>4, <1>5, <3>1
      <4>2. at'[x].fn = None
        BY <1>4, <3>1
      <4>3. QED
        BY <1>4, <3>0, <4>1, <4>2, NoneAssumption DEF HandlersOf, SameStack, Finished
    <3>2. CASE x \notin {t, u}
      BY <1>4, <3>0, <3>2 DEF HandlersOf, SameStack, Finished
    <3>3. QED
      BY <3>1, <3>2
  <2>2. QED
    BY <2>1 DEF Handlers
<1>13. Counted'
  <2>1. \A x \in Thread : Lives(x)' <=> Lives(x)
    BY <1>1, <1>3, <1>4, <1>5 DEF Lives
  <2>2. Living' = Living
    BY <2>1 DEF Living
  <2>3. QED
    BY <1>4, <2>2 DEF IInv, Counted, process
<1>14. QED
  BY <1>6, <1>8, <1>9, <1>10, <1>11, <1>12, <1>13

\* The child of a fork has one thread, whose object nobody else was at.
LEMMA ForkKeeps ==
  ASSUME IInv, Careful, Types', NEW t \in Thread, Fork(t)
  PROVE  /\ Rows' /\ Housed' /\ Mutex' /\ CounterCovers' /\ Uses' /\ Life'
         /\ Suspends' /\ Handlers' /\ Counted'
<1>1. /\ at[t].pc = "run" /\ at[t].fn = None /\ at[t].on = None /\ Valid(t)
      /\ known' = known \cap {t} /\ threadcount' = 1
      /\ over' = over /\ pushed' = pushed /\ ran' = ran
  BY DEF Fork, IInv, Rows, Row, Housed
<1>2. \A v \in Thread : at[v].on # t \/ at[v].fn \notin OtherCalls
  BY DEF Fork, Careful, Users
<1>3. \A v \in Thread : at[v].on # t
  BY <1>1, <1>2, ThreadAssumption DEF IInv, Rows, Row
<1>4. /\ \A x \in Thread \ {t} :
           /\ th'[x].object # "valid"
           /\ th'[x].object = "none" <=> th[x].object = "none"
           /\ th[x].object = "valid" =>
                /\ th'[x].object = "deleted"
                /\ th'[x].joinable /\ th'[x].joiner = None /\ ~th'[x].running
                /\ th'[x].lock_counter = 0 /\ th'[x].semaphore = 0
           /\ th[x].object # "valid" => SameLife(x) /\ SameLock(x)
           /\ at'[x].pc = "none" /\ at'[x].fn = None /\ at'[x].on = None
           /\ at'[x].suspends = 0
      /\ SameLife(t) /\ SameCancel(t) /\ SameStack(t) /\ at'[t] = at[t]
      /\ th'[t].semaphore = 0 /\ th'[t].lock_counter = 0
  BY <1>3, ForkEffect DEF IInv
<1>5. \A v \in Thread : at'[v].on = None /\ at'[v].fn = None
  BY <1>1, <1>4
<1>6. \A v, o \in Thread : at'[v].on # o
  BY <1>5, ThreadAssumption
<1>7. Rows'
  BY <1>1, <1>4, NoneAssumption DEF Rows, Row
<1>8. \A x \in Thread : Valid(x)' <=> x = t
  BY <1>1, <1>4 DEF SameLife, Valid
<1>9. Housed'
  <2>1. ASSUME NEW x \in Thread, th'[x].object = "none"
        PROVE  at'[x].pc = "none" /\ pushed'[x] = 0 /\ ran'[x] = 0
    <3>1. x # t /\ th[x].object = "none"
      BY <1>1, <1>4, <2>1 DEF SameLife, Valid
    <3>2. QED
      BY <1>1, <1>4, <3>1 DEF IInv, Housed
  <2>2. ASSUME NEW x \in Thread, ~Valid(x)'
        PROVE  th'[x].lock_counter = 0 /\ th'[x].semaphore = 0
    <3>1. x # t
      BY <1>8, <2>2
    <3>2. CASE Valid(x)
      BY <1>4, <3>1, <3>2 DEF Valid
    <3>3. CASE ~Valid(x)
      BY <1>4, <3>1, <3>3 DEF Valid, SameLock, IInv, Housed
    <3>4. QED
      BY <3>2, <3>3
  <2>3. \A x \in Thread : at'[x].pc \in OffSteps
    BY <1>1, <1>4
  <2>4. \A x \in Thread : /\ at'[x].pc \notin {"none", "count", "ended"} => Valid(x)'
                          /\ Valid(x)' => at'[x].pc # "none"
    BY <1>1, <1>4, <1>8
  <2>5. QED
    BY <2>1, <2>2, <2>3, <2>4 DEF Housed
<1>10. Mutex' /\ CounterCovers'
  <2>1. \A v, o \in Thread : ~Token(v, o)' /\ ~Posting(v, o)' /\ ~Counts(v, o)'
    BY <1>6 DEF Token, Posting, Counts
  <2>2. \A o \in Thread : th'[o].lock_counter = 0 /\ th'[o].semaphore = 0
    BY <1>4, <1>8, <1>9 DEF Housed
  <2>3. ASSUME NEW o \in Thread PROVE Cardinality(Inside(o))' = 0
    <3>1. Inside(o)' = {}
      BY <2>1 DEF Inside
    <3>2. QED
      BY <3>1, FS_EmptySet
  <2>4. QED
    BY <2>1, <2>2, <2>3
       DEF Mutex, TokenUnique, SemaphoreFree, TokenExists, TokenWanted, CounterCovers
<1>11. Uses'
  BY <1>5, NoneAssumption DEF Uses, UseAlone, UseKnown
<1>12. Life'
  <2>1. \A v \in Thread : LifeCalls(v)'
    BY <1>5, NoneAssumption DEF LifeCalls, CallEarly, JoinPast, DetachPast
  <2>2. LifeObject(t)'
    <3>1. LifeObject(t)
      BY LifeIsParts DEF LifeParts, IInv
    <3>2. \A v \in Thread : at[v].on # t
      BY <1>3
    <3>3. SameLife(t) /\ at'[t] = at[t] /\ (t \in known' <=> t \in known)
      BY <1>1, <1>4
    <3>4. QED
      BY <3>1, <3>2, <3>3 DEF LifeObject, SameLife, Valid, Gone, Finished, Beginning
  <2>3. ASSUME NEW x \in Thread \ {t} PROVE LifeObject(x)'
    <3>1. ~Valid(x)' /\ x \notin known'
      BY <1>1, <1>8
    <3>2. LifeObject(x)
      BY LifeIsParts DEF LifeParts, IInv
    <3>3. /\ th'[x].joinable => th'[x].joiner = None
          /\ x = Main => th'[x].object # "none" /\ th'[x].joinable /\ ~th'[x].running
      <4>1. CASE Valid(x)
        BY <1>4, <4>1 DEF Valid
      <4>2. CASE ~Valid(x)
        BY <1>4, <3>2, <4>2 DEF Valid, SameLife, LifeObject
      <4>3. QED
        BY <4>1, <4>2
    <3>4. QED
      BY <3>1, <3>3 DEF LifeObject
  <2>4. (Types => (Life <=> LifeParts))'
    BY LifeIsParts, PTL
  <2>5. QED
    BY <2>1, <2>2, <2>3, <2>4 DEF LifeParts
<1>13. Suspends'
  <2>1. at[t].suspends = 0
    BY <1>1 DEF IInv, Types, Places, Suspends
  <2>2. \A v, o \in Thread : ~Resumer(v, o)'
    BY <1>6 DEF Resumer
  <2>3. \A o \in Thread : Resumers(o)' = {}
    BY <2>2 DEF Resumers
  <2>4. \A o \in Thread : Cardinality(Resumers(o))' = 0
    BY <2>3, FS_EmptySet
  <2>5. \A o \in Thread : at'[o].suspends = 0 /\ at'[o].pc # "suspended"
    BY <1>1, <1>4, <2>1
  <2>6. QED
    BY <2>2, <2>4, <2>5 DEF Suspends
<1>14. Handlers'
  <2>1. HandlersOf(t)'
    BY <1>1, <1>4, <1>8 DEF HandlersOf, IInv, Handlers, SameStack, Finished
  <2>2. ASSUME NEW x \in Thread \ {t} PROVE HandlersOf(x)'
    BY <1>4, <1>8, NoneAssumption DEF HandlersOf, Finished
  <2>3. QED
    BY <2>1, <2>2 DEF Handlers
<1>15. Counted'
  <2>1. Living' = {t}
    BY <1>1, <1>4 DEF Living, Lives
  <2>2. Cardinality(Living)' = 1
    BY <2>1, FS_Singleton
  <2>3. IsFiniteSet(Living) /\ t \in Living
    BY <1>1, ThreadAssumption, FS_Subset DEF Living, Lives
  <2>4. Cardinality(Living) # 0
    BY <2>3, FS_EmptySet
  <2>5. ~over
    BY <2>4 DEF IInv, Counted
  <2>6. QED
    BY <1>1, <2>2, <2>5 DEF Counted
<1>16. QED
  BY <1>7, <1>9, <1>10, <1>11, <1>12, <1>13, <1>14, <1>15

-----------------------------------------------------------------------------
(* Types *)

AtTyped == at \in [Thread -> Places]
ThTyped == th \in [Thread -> Objects]
RestTyped ==
  /\ torn \in [Thread -> Thread \cup {None}] /\ eaten \subseteq Thread
  /\ threadcount \in Nat /\ over \in BOOLEAN
  /\ known \subseteq Thread /\ cancels \in 0 .. MaxCancel
  /\ pushed \in [Thread -> 0 .. MaxPush] /\ ran \in [Thread -> 0 .. MaxPush]

\* A place or an object with another part is one, too.
LEMMA PlaceType ==
  ASSUME NEW p \in Places, NEW step \in Steps, NEW f \in SelfCalls \cup OtherCalls \cup {None},
         NEW o \in Thread \cup {None}, NEW then \in Steps
  PROVE  /\ [p EXCEPT !.pc = step, !.then = then] \in Places
         /\ \A n \in Nat : [p EXCEPT !.pc = step, !.suspends = n] \in Places
         /\ [p EXCEPT !.pc = step, !.fn = f, !.on = o, !.then = then] \in Places
<1> HIDE DEF SelfCalls, OtherCalls, CancelSettings
<1>1. QED
  BY DEF Places

LEMMA BooleanType ==
  ASSUME NEW x \in Objects, NEW b \in BOOLEAN, NEW v \in {None, "value", "canceled"}, NEW n \in Nat
  PROVE  /\ [x EXCEPT !.joinable = b] \in Objects
         /\ [x EXCEPT !.cancel_event = b] \in Objects
         /\ [x EXCEPT !.running = b, !.return_ptr = v] \in Objects
         /\ [x EXCEPT !.lock_counter = n, !.semaphore = 0, !.cancel_event = b] \in Objects
  BY DEF Objects

\* Each way to move a thread leaves it in a place.
LEMMA GotoType ==
  ASSUME Types, NEW t \in Thread, NEW step \in Steps, Goto(t, step) PROVE AtTyped'
  BY DEF Types, Places, Goto, AtTyped

LEMMA LeaveType ==
  ASSUME Types, NEW t \in Thread, NEW then \in Steps, Leave(t, then) PROVE AtTyped'
<1>1. [at[t] EXCEPT !.pc = "unlock", !.then = then] \in Places
  <2>1. at[t] \in Places /\ "unlock" \in Steps
    BY DEF Types, Steps
  <2>2. QED
    BY <2>1, PlaceType
<1>2. QED
  BY <1>1 DEF Types, Leave, AtTyped

LEMMA CallType ==
  ASSUME Types, NEW t \in Thread, NEW f \in SelfCalls \cup OtherCalls, NEW o \in Thread,
         Call(t, f, o)
  PROVE  AtTyped'
<1>1. PICK then \in {"run", "exit"} : then = IF at[t].val = None THEN "run" ELSE "exit"
  OBVIOUS
<1>2. [at[t] EXCEPT !.pc = "lock", !.fn = f, !.on = o, !.then = then] \in Places
  <2>1. at[t] \in Places /\ "lock" \in Steps /\ then \in Steps
    BY <1>1 DEF Types, Steps
  <2>2. QED
    BY <2>1, PlaceType
<1>3. at' = [at EXCEPT ![t] = [at[t] EXCEPT !.pc = "lock", !.fn = f, !.on = o, !.then = then]]
  BY <1>1 DEF Call, Types
<1>4. QED
  BY <1>2, <1>3 DEF Types, AtTyped

LEMMA OutType ==
  ASSUME NEW step \in Steps, NEW val \in {None, "value", "canceled"}
  PROVE  [Nowhere EXCEPT !.pc = step, !.val = val] \in Places
  BY DEF Places, Steps, Nowhere

LEMMA ExitingType ==
  ASSUME Types, NEW t \in Thread, NEW val \in {"value", "canceled"}, at' = Exiting(t, val)
  PROVE  AtTyped'
<1>1. [Nowhere EXCEPT !.pc = "exit", !.val = val] \in Places
  BY OutType DEF Steps
<1>2. QED
  BY <1>1 DEF Types, Exiting, AtTyped

LEMMA ReturnedType ==
  ASSUME Types, NEW t \in Thread, NEW step \in Steps
  PROVE  Returned(t, step) \in [Thread -> Places]
<1>1. PICK v \in {None, "value", "canceled"} : v = at[t].val
  BY DEF Types, Places
<1>2. [Nowhere EXCEPT !.pc = step, !.val = at[t].val] \in Places
  BY <1>1, OutType
<1>3. CASE step \in {"run", "exit", "count", "self"}
  BY <1>2, <1>3 DEF Types, Returned
<1>4. CASE step \notin {"run", "exit", "count", "self"}
  BY <1>4 DEF Types, Places, Returned
<1>5. QED
  BY <1>3, <1>4

\* A new object, a deleted one and one with a changed counter are objects.
LEMMA ObjectType ==
  ASSUME NEW joinable \in BOOLEAN, NEW running \in BOOLEAN
  PROVE  Object(joinable, running) \in Objects
  BY BoundAssumption DEF Object, Objects

LEMMA DeletedType == Deleted \in Objects
<1>1. Object(TRUE, FALSE) \in Objects
  BY ObjectType
<1>2. QED
  BY <1>1 DEF Deleted, Objects

LEMMA CounterType ==
  ASSUME Types, NEW o \in Thread, NEW n \in Nat, th' = [th EXCEPT ![o].lock_counter = n]
  PROVE  ThTyped'
  BY DEF Types, Objects, ThTyped

LEMMA SemaphoreType ==
  ASSUME Types, NEW o \in Thread, NEW n \in {0, 1}, th' = [th EXCEPT ![o].semaphore = n]
  PROVE  ThTyped'
  BY DEF Types, Objects, ThTyped

LEMMA StackType ==
  ASSUME Types, NEW o \in Thread, NEW n \in 0 .. MaxPush, th' = [th EXCEPT ![o].cleanup_stack = n]
  PROVE  ThTyped'
  BY DEF Types, Objects, ThTyped

LEMMA SameType == Types /\ th' = th => ThTyped'
  BY DEF Types, ThTyped

LEMMA RestSame == Types /\ UNCHANGED <<process, hist>> => RestTyped'
  BY DEF Types, process, hist, RestTyped

LEMMA TypesParts == AtTyped' /\ ThTyped' /\ RestTyped' => Types'
  BY DEF AtTyped, ThTyped, RestTyped, Types

\* The mutex
LEMMA LockTypes == ASSUME IInv, NEW t \in Thread, Lock(t) PROVE Types'
<1>1. PICK o \in Thread : o = at[t].on
  BY Here DEF Lock
<1>2. PICK n \in Nat : n = th[o].lock_counter + 1
  BY DEF IInv, Types, Objects
<1>3. ThTyped'
  BY <1>1, <1>2, CounterType DEF IInv, Lock
<1>4. AtTyped'
  BY <1>1, GotoType DEF IInv, Lock, Steps
<1>5. QED
  BY <1>3, <1>4, RestSame, TypesParts DEF IInv, Lock

LEMMA WaitTypes == ASSUME IInv, NEW t \in Thread, Wait(t) PROVE Types'
<1>1. PICK o \in Thread : o = at[t].on
  BY Here DEF Wait
<1>2. PICK n \in {0, 1} : n = th[o].semaphore - 1
  BY <1>1 DEF IInv, Types, Objects, Wait
<1>3. ThTyped'
  BY <1>1, <1>2, SemaphoreType DEF IInv, Wait
<1>4. AtTyped'
  BY GotoType DEF IInv, Wait, Steps
<1>5. QED
  BY <1>3, <1>4, RestSame, TypesParts DEF IInv, Wait

LEMMA UnlockTypes == ASSUME IInv, NEW t \in Thread, Unlock(t) PROVE Types'
<1>1. PICK o \in Thread : o = at[t].on /\ Token(t, o)
  BY Here DEF Unlock, Token
<1>2. PICK n \in Nat : n = th[o].lock_counter - 1
  BY <1>1, TokenCounted DEF IInv, Types, Objects
<1>3. ThTyped'
  BY <1>1, <1>2, CounterType DEF IInv, Unlock
<1>4. AtTyped'
  <2>1. at[t].then \in Steps
    BY DEF IInv, Types, Places
  <2>2. CASE th[o].lock_counter = 1
    BY <1>1, <2>1, <2>2, ReturnedType DEF IInv, Unlock, AtTyped
  <2>3. CASE th[o].lock_counter # 1
    BY <1>1, <2>3, GotoType DEF IInv, Unlock, Goto, Steps
  <2>4. QED
    BY <2>2, <2>3
<1>5. QED
  BY <1>3, <1>4, RestSame, TypesParts DEF IInv, Unlock

LEMMA PostTypes == ASSUME IInv, NEW t \in Thread, Post(t) PROVE Types'
<1>1. PICK o \in Thread : o = at[t].on /\ Token(t, o)
  BY Here DEF Post, Token
<1>2. PICK n \in {0, 1} : n = th[o].semaphore + 1
  BY <1>1 DEF IInv, Mutex, SemaphoreFree
<1>3. ThTyped'
  BY <1>1, <1>2, SemaphoreType DEF IInv, Post
<1>4. AtTyped'
  <2>1. at[t].then \in Steps
    BY DEF IInv, Types, Places
  <2>2. QED
    BY <2>1, ReturnedType DEF IInv, Post, AtTyped
<1>5. QED
  BY <1>3, <1>4, RestSame, TypesParts DEF IInv, Post

\* The beginning and the end
LEMMA CreateTypes ==
  ASSUME IInv, NEW t \in Thread, NEW u \in Thread, NEW joinable \in BOOLEAN,
         Create(t, u, joinable)
  PROVE  Types'
<1>1. ThTyped'
  BY ObjectType DEF IInv, Types, Create, ThTyped
<1>2. AtTyped'
  BY CallType DEF IInv, Create
<1>3. RestTyped'
  BY DEF IInv, Types, Create, RestTyped
<1>4. QED
  BY <1>1, <1>2, <1>3, TypesParts

LEMMA BeginTypes == ASSUME IInv, NEW t \in Thread, Begin(t) PROVE Types'
<1>1. PICK j \in Thread \cup {None} :
        j = IF ~th[t].joinable /\ th[t].joiner = None THEN t ELSE th[t].joiner
  BY DEF IInv, Types, Objects
<1>2. th' = [th EXCEPT ![t].joiner = j]
  BY <1>1 DEF Begin
<1>3. ThTyped'
  BY <1>2 DEF IInv, Types, Objects, ThTyped
<1>4. AtTyped'
  BY LeaveType DEF IInv, Begin, Steps
<1>5. QED
  BY <1>3, <1>4, RestSame, TypesParts DEF IInv, Begin

LEMMA ExitTypes == ASSUME IInv, NEW t \in Thread, Exit(t) \/ Testcancel(t) PROVE Types'
<1>1. AtTyped'
  BY ExitingType DEF IInv, Exit, Testcancel
<1>2. th' = th /\ UNCHANGED <<process, hist>>
  BY DEF Exit, Testcancel
<1>3. QED
  BY <1>1, <1>2, SameType, RestSame, TypesParts DEF IInv

LEMMA ExitLockTypes == ASSUME IInv, NEW t \in Thread, ExitLock(t) PROVE Types'
<1>1. PICK f \in {"pop", "exit"} : Call(t, f, t)
  BY DEF ExitLock
<1>2. AtTyped'
  BY <1>1, CallType DEF IInv
<1>3. QED
  BY <1>2, SameType, RestSame, TypesParts DEF IInv, ExitLock

LEMMA ExitDeleteTypes == ASSUME IInv, NEW t \in Thread, ExitDelete(t) PROVE Types'
<1>1. ThTyped'
  BY DeletedType DEF IInv, Types, ExitDelete, ThTyped
<1>2. AtTyped'
  BY ReturnedType DEF IInv, ExitDelete, AtTyped, Steps
<1>3. QED
  BY <1>1, <1>2, RestSame, TypesParts DEF IInv, ExitDelete

LEMMA ExitKeepTypes == ASSUME IInv, NEW t \in Thread, ExitKeep(t) PROVE Types'
<1>1. PICK v \in {None, "value", "canceled"} : v = at[t].val
  BY DEF IInv, Types, Places
<1>2. th' = [th EXCEPT ![t] = [th[t] EXCEPT !.running = FALSE, !.return_ptr = v]]
  BY <1>1 DEF ExitKeep, IInv, Types
<1>3. ThTyped'
  BY <1>2, BooleanType DEF IInv, Types, ThTyped
<1>4. AtTyped'
  BY LeaveType DEF IInv, ExitKeep, Steps
<1>5. QED
  BY <1>3, <1>4, RestSame, TypesParts DEF IInv, ExitKeep

LEMMA CountTypes == ASSUME IInv, NEW t \in Thread, Count(t) PROVE Types'
<1>1. threadcount - 1 \in Nat
  <2>1. IsFiniteSet(Living) /\ t \in Living
    BY ThreadAssumption, FS_Subset DEF Living, Lives, Count
  <2>2. Cardinality(Living) \in Nat /\ Cardinality(Living) # 0
    BY <2>1, FS_CardinalityType, FS_EmptySet
  <2>3. QED
    BY <2>2 DEF IInv, Counted
<1>2. AtTyped'
  BY GotoType DEF IInv, Count, Steps
<1>3. RestTyped'
  BY <1>1 DEF IInv, Types, Count, hist, RestTyped
<1>4. QED
  BY <1>2, <1>3, SameType, TypesParts DEF IInv, Count

LEMMA ForkTypes == ASSUME IInv, NEW t \in Thread, Fork(t) PROVE Types'
<1>1. PICK n \in {0, 1} :
        th' = [u \in Thread |->
                 IF u = t THEN [th[t] EXCEPT !.lock_counter = n, !.semaphore = 0,
                                             !.cancel_event = FALSE]
                 ELSE IF th[u].object = "valid" THEN Deleted ELSE th[u]]
  BY DEF Fork
<1>2. [th[t] EXCEPT !.lock_counter = n, !.semaphore = 0, !.cancel_event = FALSE] \in Objects
  BY BooleanType DEF IInv, Types
<1>3. ThTyped'
  BY <1>1, <1>2, DeletedType DEF IInv, Types, ThTyped
<1>4. Nowhere \in Places
  BY DEF Nowhere, Places, Steps
<1>5. AtTyped'
  BY <1>4 DEF IInv, Types, Fork, AtTyped
<1>6. RestTyped'
  BY DEF IInv, Types, Fork, RestTyped
<1>7. QED
  BY <1>3, <1>5, <1>6, TypesParts

\* Cancellation
LEMMA SetTypes ==
  ASSUME IInv, NEW t \in Thread, NEW new \in CancelSettings, Set(t, new) PROVE Types'
<1>1. AtTyped'
  BY CallType DEF IInv, Set
<1>2. QED
  BY <1>1, SameType, RestSame, TypesParts DEF IInv, Set

LEMMA SetBodyTypes == ASSUME IInv, NEW t \in Thread, SetBody(t) PROVE Types'
<1>1. CASE at[t].fn \in {"enable", "disable"}
  <2>1. PICK s \in {"enable", "disable"} : th' = [th EXCEPT ![t].cancelstate = s]
    BY <1>1 DEF SetBody
  <2>2. ThTyped'
    BY <2>1 DEF IInv, Types, Objects, ThTyped
  <2>3. AtTyped'
    BY LeaveType DEF IInv, SetBody, Steps
  <2>4. QED
    BY <2>2, <2>3, RestSame, TypesParts DEF IInv, SetBody
<1>2. CASE at[t].fn \notin {"enable", "disable"}
  <2>1. PICK s \in {"deferred", "async"} : th' = [th EXCEPT ![t].canceltype = s]
    BY <1>2 DEF SetBody
  <2>2. ThTyped'
    BY <2>1 DEF IInv, Types, Objects, ThTyped
  <2>3. AtTyped'
    BY LeaveType DEF IInv, SetBody, Steps
  <2>4. QED
    BY <2>2, <2>3, RestSame, TypesParts DEF IInv, SetBody
<1>3. QED
  BY <1>1, <1>2

LEMMA CancelTypes ==
  ASSUME IInv, NEW t \in Thread, NEW u \in Thread, Cancel(t, u) PROVE Types'
<1>1. AtTyped'
  BY CallType DEF IInv, Cancel
<1>2. RestTyped'
  BY BoundAssumption DEF IInv, Types, Cancel, process, RestTyped
<1>3. QED
  BY <1>1, <1>2, SameType, TypesParts DEF IInv, Cancel

LEMMA CancelBodyTypes == ASSUME IInv, NEW t \in Thread, CancelBody(t) PROVE Types'
<1>1. PICK then \in {"run", "setevent", "self"} : Leave(t, then)
  BY DEF CancelBody
<1>2. AtTyped'
  BY <1>1, LeaveType DEF IInv, Steps
<1>3. QED
  BY <1>2, SameType, RestSame, TypesParts DEF IInv, CancelBody

LEMMA CancelAsyncTypes == ASSUME IInv, NEW t \in Thread, CancelAsync(t) PROVE Types'
<1>1. PICK u \in Thread : u = at[t].on /\ u # t
  BY Here DEF CancelAsync, In
<1>2. PICK n \in Nat : n = at[u].suspends + 1
  BY DEF IInv, Types, Places
<1>3. [Nowhere EXCEPT !.pc = "suspended", !.val = "canceled", !.suspends = n] \in Places
  BY DEF Nowhere, Places, Steps
<1>4. [at[t] EXCEPT !.pc = "unlock", !.then = "resume"] \in Places
  BY PlaceType DEF IInv, Types, Steps
<1>5. at' = [at EXCEPT ![u] = [Nowhere EXCEPT !.pc = "suspended", !.val = "canceled",
                                              !.suspends = n],
                       ![t] = [at[t] EXCEPT !.pc = "unlock", !.then = "resume"]]
  BY <1>1, <1>2 DEF CancelAsync, IInv, Types
<1>6. AtTyped'
  BY <1>1, <1>3, <1>4, <1>5 DEF IInv, Types, AtTyped
<1>7. torn' \in [Thread -> Thread \cup {None}]
  <2>1. at[u].on \in Thread \cup {None}
    BY DEF IInv, Types, Places
  <2>2. torn' = torn \/ torn' = [torn EXCEPT ![u] = at[u].on]
    BY <1>1 DEF CancelAsync
  <2>3. QED
    BY <2>1, <2>2 DEF IInv, Types
<1>8. RestTyped'
  BY <1>7 DEF IInv, Types, CancelAsync, hist, RestTyped
<1>9. QED
  BY <1>6, <1>8, SameType, TypesParts DEF IInv, CancelAsync

LEMMA WaitEndsTypes == ASSUME IInv, NEW t \in Thread, WaitEnds(t) PROVE Types'
<1>1. PICK o \in Thread : o = torn[t]
  BY DEF WaitEnds, IInv, Types
<1>2. PICK n \in {0, 1} : n = th[o].semaphore - 1
  BY <1>1 DEF WaitEnds, IInv, Types, Objects
<1>3. th' = [th EXCEPT ![o].semaphore = n]
  BY <1>1, <1>2 DEF WaitEnds
<1>4. ThTyped'
  BY <1>3, SemaphoreType DEF IInv
<1>5. AtTyped'
  BY DEF WaitEnds, IInv, Types, AtTyped
<1>6. RestTyped'
  BY <1>1 DEF IInv, Types, WaitEnds, hist, RestTyped
<1>7. QED
  BY <1>4, <1>5, <1>6, TypesParts

LEMMA SetEventTypes == ASSUME IInv, NEW t \in Thread, SetEvent(t) PROVE Types'
<1>1. ThTyped'
  <2>1. PICK o \in Thread : o = at[t].on
    BY Here DEF SetEvent
  <2>2. th' = [th EXCEPT ![o] = [th[o] EXCEPT !.cancel_event = TRUE]]
    BY <2>1 DEF SetEvent, IInv, Types
  <2>3. QED
    BY <2>2, BooleanType DEF IInv, Types, ThTyped
<1>2. AtTyped'
  BY ReturnedType DEF IInv, SetEvent, AtTyped, Steps
<1>3. QED
  BY <1>1, <1>2, RestSame, TypesParts DEF IInv, SetEvent

LEMMA ResumeTypes == ASSUME IInv, NEW t \in Thread, Resume(t) PROVE Types'
<1>1. PICK u \in Thread : u = at[t].on
  BY Here DEF Resume
<1>2. Resumer(t, u) /\ t # u
  BY <1>1 DEF Resume, Resumer, IInv, Suspends
<1>3. at[u].suspends \in Nat \ {0}
  <2>1. IsFiniteSet(Resumers(u)) /\ t \in Resumers(u)
    BY <1>2, ThreadAssumption, FS_Subset DEF Resumers
  <2>2. Cardinality(Resumers(u)) # 0
    BY <2>1, FS_EmptySet
  <2>3. QED
    BY <2>2 DEF IInv, Suspends, Types, Places
<1>4. PICK r \in [Thread -> Places] : r = Returned(t, "run")
  BY ReturnedType DEF IInv, Steps
<1>5. r[u] = at[u]
  BY <1>2, <1>4 DEF Returned, IInv, Types
<1>6. PICK p \in Steps, n \in Nat :
        /\ p = (IF at[u].suspends = 1 THEN "exit" ELSE r[u].pc)
        /\ n = r[u].suspends - 1
  BY <1>3, <1>5 DEF IInv, Types, Places, Steps
<1>7. at' = [r EXCEPT ![u].suspends = n, ![u].pc = p]
  BY <1>1, <1>4, <1>6 DEF Resume
<1>8. AtTyped'
  <2>1. r[u] \in Places /\ u \in Thread
    BY <1>1, Here DEF Resume, OffSteps
  <2>2. [r[u] EXCEPT !.pc = p, !.suspends = n] \in Places
    BY <1>6, <2>1, PlaceType
  <2>3. at' = [r EXCEPT ![u] = [r[u] EXCEPT !.pc = p, !.suspends = n]]
    BY <1>7, <2>1 DEF Places
  <2>4. QED
    BY <2>1, <2>2, <2>3 DEF AtTyped
<1>9. QED
  BY <1>8, SameType, RestSame, TypesParts DEF IInv, Resume

LEMMA CancelSelfTypes == ASSUME IInv, NEW t \in Thread, CancelSelf(t) PROVE Types'
<1>1. AtTyped'
  BY ExitingType DEF IInv, CancelSelf
<1>2. QED
  BY <1>1, SameType, RestSame, TypesParts DEF IInv, CancelSelf

\* Cleanup handlers: what is on the stack was pushed, and what runs is on it.
LEMMA PushTypes == ASSUME IInv, NEW t \in Thread, Push(t) PROVE Types'
<1>1. /\ pushed[t] = ran[t] + th[t].cleanup_stack
      /\ pushed[t] \in 0 .. MaxPush /\ ran[t] \in 0 .. MaxPush
      /\ th[t].cleanup_stack \in 0 .. MaxPush
  BY DEF IInv, Handlers, HandlersOf, Housed, Types, Objects, Push
<1>2. PICK n \in 0 .. MaxPush : n = th[t].cleanup_stack + 1
  BY <1>1, BoundAssumption DEF Push
<1>3. ThTyped'
  BY <1>2, StackType DEF IInv, Push
<1>4. RestTyped'
  BY <1>1, BoundAssumption DEF IInv, Types, Push, process, RestTyped
<1>5. QED
  BY <1>3, <1>4, TypesParts DEF IInv, Types, Push, AtTyped

LEMMA PopTypes ==
  ASSUME IInv, NEW t \in Thread, NEW f \in {"pop", "drop"}, Pop(t, f) PROVE Types'
<1>1. AtTyped'
  BY CallType DEF IInv, Pop
<1>2. QED
  BY <1>1, SameType, RestSame, TypesParts DEF IInv, Pop

LEMMA RunHandlerTypes == ASSUME IInv, NEW t \in Thread, RunHandler(t) PROVE Types'
<1>1. ran[t] + 1 \in 0 .. MaxPush
  <2>1. at[t].pc = "in" /\ at[t].fn = "pop" /\ Valid(t)
    BY Here DEF RunHandler, In
  <2>2. HandlersOf(t)
    BY DEF IInv, Handlers
  <2>3. pushed[t] = ran[t] + th[t].cleanup_stack /\ th[t].cleanup_stack > 0
    <3>1. pushed[t] \in Nat
      BY BoundAssumption DEF IInv, Types
    <3>2. QED
      BY <2>1, <2>2, <3>1 DEF HandlersOf
  <2>4. /\ pushed[t] \in 0 .. MaxPush /\ ran[t] \in 0 .. MaxPush
        /\ th[t].cleanup_stack \in 0 .. MaxPush
    BY DEF IInv, Types, Objects
  <2>5. QED
    BY <2>3, <2>4, BoundAssumption
<1>2. RestTyped'
  BY <1>1 DEF IInv, Types, RunHandler, process, RestTyped
<1>3. AtTyped'
  BY GotoType DEF IInv, RunHandler, Steps
<1>4. QED
  BY <1>2, <1>3, SameType, TypesParts DEF IInv, RunHandler

LEMMA PopBodyTypes == ASSUME IInv, NEW t \in Thread, PopBody(t) PROVE Types'
<1>1. /\ th[t].cleanup_stack \in 0 .. MaxPush /\ th[t].cleanup_stack > 0
      /\ pushed[t] \in 0 .. MaxPush /\ ran[t] \in 0 .. MaxPush
  <2>1. at[t].fn \in {"pop", "drop"} /\ at[t].pc \in Early \cup {"pop"}
    BY DEF PopBody, In, IInv, Rows, Row
  <2>2. QED
    BY <2>1 DEF IInv, Handlers, HandlersOf, Types, Objects
<1>2. PICK n \in 0 .. MaxPush : n = th[t].cleanup_stack - 1
  BY <1>1, BoundAssumption
<1>3. ThTyped'
  BY <1>2, StackType DEF IInv, PopBody
<1>4. AtTyped'
  BY LeaveType DEF IInv, Types, Places, PopBody
<1>5. RestTyped'
  <2>1. CASE at[t].pc = "pop"
    BY <2>1 DEF IInv, Types, PopBody, process, RestTyped
  <2>2. CASE at[t].pc # "pop"
    <3>1. In(t, "drop") /\ Valid(t)
      BY <2>2, Here DEF PopBody, In
    <3>2. pushed[t] = ran[t] + th[t].cleanup_stack
      BY <1>1, <2>2, <3>1, BoundAssumption DEF IInv, Handlers, HandlersOf, In
    <3>3. pushed[t] - 1 \in 0 .. MaxPush
      BY <1>1, <3>2, BoundAssumption
    <3>4. QED
      BY <2>2, <3>3 DEF IInv, Types, PopBody, process, RestTyped
  <2>3. QED
    BY <2>1, <2>2
<1>6. QED
  BY <1>3, <1>4, <1>5, TypesParts

\* Join and detach
LEMMA JoinTypes ==
  ASSUME IInv, NEW t \in Thread, NEW u \in Thread, Join(t, u) PROVE Types'
<1>1. AtTyped'
  BY CallType DEF IInv, Join
<1>2. QED
  BY <1>1, SameType, RestSame, TypesParts DEF IInv, Join

LEMMA JoinBodyTypes == ASSUME IInv, NEW t \in Thread, JoinBody(t) PROVE Types'
<1>1. PICK o \in Thread : o = at[t].on
  BY Here DEF JoinBody, In
<1>2. PICK then \in {"joining", "run"} : Leave(t, then)
  BY DEF JoinBody
<1>3. AtTyped'
  BY <1>2, LeaveType DEF IInv, Steps
<1>4. th' = th \/ th' = [th EXCEPT ![o].joiner = t, ![o].joinable = FALSE]
  BY <1>1 DEF JoinBody
<1>5. ThTyped'
  BY <1>4 DEF IInv, Types, Objects, ThTyped
<1>6. QED
  BY <1>3, <1>5, RestSame, TypesParts DEF IInv, JoinBody

LEMMA JoinedTypes == ASSUME IInv, NEW t \in Thread, Joined(t) PROVE Types'
<1>1. PICK o \in Thread : o = at[t].on
  BY Here DEF Joined
<1>2. ThTyped'
  BY <1>1, DeletedType DEF IInv, Types, Joined, ThTyped
<1>3. AtTyped'
  BY ReturnedType DEF IInv, Joined, AtTyped, Steps
<1>4. RestTyped'
  BY DEF IInv, Types, Joined, process, RestTyped
<1>5. QED
  BY <1>2, <1>3, <1>4, TypesParts

LEMMA JoinCanceledTypes == ASSUME IInv, NEW t \in Thread, JoinCanceled(t) PROVE Types'
<1>1. PICK o \in Thread : o = at[t].on
  BY Here DEF JoinCanceled
<1>2. th' = [th EXCEPT ![o].joiner = None]
  BY <1>1 DEF JoinCanceled
<1>3. ThTyped'
  BY <1>2, SMTT(20) DEF IInv, Types, Objects, ThTyped
<1>4. AtTyped'
  BY GotoType DEF IInv, JoinCanceled, Steps
<1>5. QED
  BY <1>3, <1>4, RestSame, TypesParts DEF IInv, JoinCanceled

LEMMA RejoinTypes == ASSUME IInv, NEW t \in Thread, Rejoin(t) PROVE Types'
<1>1. ThTyped'
  <2>1. PICK o \in Thread : o = at[t].on
    BY Here DEF Rejoin
  <2>2. th' = [th EXCEPT ![o] = [th[o] EXCEPT !.joinable = TRUE]]
    BY <2>1 DEF Rejoin, IInv, Types
  <2>3. QED
    BY <2>2, BooleanType DEF IInv, Types, ThTyped
<1>2. AtTyped'
  BY ExitingType DEF IInv, Rejoin
<1>3. QED
  BY <1>1, <1>2, RestSame, TypesParts DEF IInv, Rejoin

LEMMA DetachTypes ==
  ASSUME IInv, NEW t \in Thread, NEW u \in Thread, Detach(t, u) PROVE Types'
<1>1. AtTyped'
  BY CallType DEF IInv, Detach
<1>2. RestTyped'
  BY DEF IInv, Types, Detach, process, RestTyped
<1>3. QED
  BY <1>1, <1>2, SameType, TypesParts DEF IInv, Detach

LEMMA DetachBodyTypes == ASSUME IInv, NEW t \in Thread, DetachBody(t) PROVE Types'
<1>1. PICK o \in Thread : o = at[t].on
  BY Here DEF DetachBody, In
<1>2. PICK then \in {"run", "delete"} : Leave(t, then)
  BY DEF DetachBody
<1>3. AtTyped'
  BY <1>2, LeaveType DEF IInv, Steps
<1>4. th' = th \/ th' = [th EXCEPT ![o].joiner = o, ![o].joinable = FALSE]
  BY <1>1 DEF DetachBody
<1>5. ThTyped'
  BY <1>4 DEF IInv, Types, Objects, ThTyped
<1>6. QED
  BY <1>3, <1>5, RestSame, TypesParts DEF IInv, DetachBody

LEMMA DetachDeleteTypes == ASSUME IInv, NEW t \in Thread, DetachDelete(t) PROVE Types'
<1>1. ThTyped'
  BY DeletedType DEF IInv, Types, DetachDelete, ThTyped
<1>2. AtTyped'
  BY ReturnedType DEF IInv, DetachDelete, AtTyped, Steps
<1>3. QED
  BY <1>1, <1>2, RestSame, TypesParts DEF IInv, DetachDelete

-----------------------------------------------------------------------------
(* The invariant holds *)

LEMMA InitIInv == ASSUME Init, Careful PROVE IInv
<1>1. ASSUME NEW t \in Thread
      PROVE  /\ at[t].pc = IF t = Main THEN "run" ELSE "none"
             /\ at[t].fn = None /\ at[t].on = None /\ at[t].suspends = 0
             /\ at[t] \in Places
  BY DEF Init, Nowhere, Places, Steps
<1>2. ASSUME NEW t \in Thread
      PROVE  /\ th[t].object = IF t = Main THEN "valid" ELSE "none"
             /\ th[t].joinable /\ ~th[t].running /\ th[t].joiner = None
             /\ th[t].lock_counter = 0 /\ th[t].semaphore = 0 /\ th[t].cleanup_stack = 0
             /\ th[t] \in Objects
  <2>1. Object(TRUE, FALSE) \in Objects
    BY ObjectType
  <2>2. [Object(TRUE, FALSE) EXCEPT !.object = "none"] \in Objects
    BY <2>1 DEF Objects
  <2>3. CASE t = Main
    BY <2>1, <2>3 DEF Init, Object
  <2>4. CASE t # Main
    BY <2>2, <2>4 DEF Init, Object
  <2>5. QED
    BY <2>3, <2>4
<1>3. /\ torn = [t \in Thread |-> None] /\ eaten = {}
      /\ threadcount = 1 /\ over = FALSE /\ known = {} /\ cancels = 0
      /\ pushed = [t \in Thread |-> 0] /\ ran = [t \in Thread |-> 0]
  BY DEF Init, Careful
<1>4. Types
  <2>1. at \in [Thread -> Places] /\ th \in [Thread -> Objects]
    BY <1>1, <1>2 DEF Init
  <2>2. /\ torn \in [Thread -> Thread \cup {None}] /\ eaten \subseteq Thread
        /\ threadcount \in Nat /\ known \subseteq Thread
    BY <1>3
  <2>3. over \in BOOLEAN
    BY <1>3, Zenon
  <2>4. 0 \in 0 .. MaxPush /\ 0 \in 0 .. MaxCancel
    BY BoundAssumption
  <2>5. cancels \in 0 .. MaxCancel
    BY <1>3, <2>4, Zenon
  <2>6. [t \in Thread |-> 0] \in [Thread -> 0 .. MaxPush]
    BY <2>4
  <2>7. pushed \in [Thread -> 0 .. MaxPush] /\ ran \in [Thread -> 0 .. MaxPush]
    BY <1>3, <2>6, Zenon
  <2>8. QED
    BY <2>1, <2>2, <2>3, <2>5, <2>7, Zenon DEF Types
<1>5. Rows
  BY <1>1, NoneAssumption DEF Rows, Row
<1>6. Housed
  BY <1>1, <1>2, <1>3 DEF Housed, Valid
<1>7. \A v, o \in Thread : at[v].on # o
  BY <1>1, ThreadAssumption
<1>8. Mutex /\ CounterCovers
  <2>1. \A v, o \in Thread : ~Token(v, o) /\ ~Posting(v, o) /\ ~Counts(v, o)
    BY <1>7 DEF Token, Posting, Counts
  <2>2. ASSUME NEW o \in Thread PROVE Cardinality(Inside(o)) = 0
    <3>1. Inside(o) = {}
      BY <2>1 DEF Inside
    <3>2. QED
      BY <3>1, FS_EmptySet
  <2>3. QED
    BY <1>2, <2>1, <2>2
       DEF Mutex, TokenUnique, SemaphoreFree, TokenExists, TokenWanted, CounterCovers
<1>9. Uses
  BY <1>1, NoneAssumption DEF Uses, UseAlone, UseKnown
<1>10. Life
  <2>1. \A v \in Thread : LifeCalls(v)
    BY <1>1, NoneAssumption DEF LifeCalls, CallEarly, JoinPast, DetachPast
  <2>2. \A o \in Thread : LifeObject(o)
    BY <1>1, <1>2, <1>3 DEF LifeObject, Valid
  <2>3. QED
    BY <1>4, <2>1, <2>2, LifeIsParts DEF LifeParts
<1>11. Suspends
  <2>1. \A v, o \in Thread : ~Resumer(v, o)
    BY <1>7 DEF Resumer
  <2>2. ASSUME NEW o \in Thread PROVE Cardinality(Resumers(o)) = 0
    <3>1. Resumers(o) = {}
      BY <2>1 DEF Resumers
    <3>2. QED
      BY <3>1, FS_EmptySet
  <2>3. QED
    BY <1>1, <2>1, <2>2 DEF Suspends
<1>12. Handlers
  BY <1>1, <1>2, <1>3, NoneAssumption DEF Handlers, HandlersOf, Finished
<1>13. Counted
  <2>1. Living = {Main}
    BY <1>1, ThreadAssumption DEF Living, Lives
  <2>2. Cardinality(Living) = 1
    BY <2>1, FS_Singleton
  <2>3. QED
    BY <1>3, <2>2 DEF Counted
<1>14. QED
  BY <1>4, <1>5, <1>6, <1>8, <1>9, <1>10, <1>11, <1>12, <1>13 DEF IInv

\* A step of t alone
LEMMA AlongKeeps ==
  ASSUME IInv, NEW t \in Thread, Quiet(t), MutexQuiet(t), LifeQuiet(t), Types' PROVE IInv'
<1>1. Mutex' /\ CounterCovers'
  BY MutexKept DEF IInv, Quiet, process
<1>2. Uses' /\ Life'
  BY LifeStays DEF Quiet, HousedQuiet
<1>3. QED
  BY <1>1, <1>2, QuietStep DEF IInv

\* The calls of a thread, one by one
LEMMA MutexIInv ==
  ASSUME IInv, NEW t \in Thread, Lock(t) \/ Wait(t) \/ Unlock(t) \/ Post(t) PROVE IInv'
<1>1. Quiet(t) /\ LifeQuiet(t)
  BY LockQuiet, WaitQuiet, UnlockQuiet, PostQuiet
<1>2. Uses' /\ Life'
  BY <1>1, LifeStays DEF Quiet, HousedQuiet
<1>3. Mutex' /\ CounterCovers'
  BY LockMutex, WaitMutex, UnlockMutex, PostMutex
<1>4. Types'
  BY LockTypes, WaitTypes, UnlockTypes, PostTypes
<1>5. QED
  BY <1>1, <1>2, <1>3, <1>4, QuietStep DEF IInv

LEMMA EndIInv ==
  ASSUME IInv, NEW t \in Thread,
         Begin(t) \/ Exit(t) \/ Testcancel(t) \/ ExitLock(t) \/ ExitDelete(t) \/ ExitKeep(t) \/ Count(t)
  PROVE  IInv'
<1>1. CASE Begin(t)
  <2>1. Quiet(t) /\ MutexQuiet(t) /\ Types'
    BY <1>1, BeginQuiet, BeginTypes
  <2>2. Rows' /\ Housed' /\ Suspends' /\ Handlers' /\ Counted' /\ Mutex' /\ CounterCovers'
    BY <2>1, QuietStep, MutexKept DEF IInv, Quiet, process
  <2>3. QED
    BY <1>1, <2>1, <2>2, BeginLife DEF IInv
<1>2. CASE Exit(t)
  BY <1>2, ExitQuiet, ExitTypes, AlongKeeps
<1>3. CASE Testcancel(t)
  BY <1>3, TestcancelQuiet, ExitTypes, AlongKeeps
<1>4. CASE ExitLock(t)
  BY <1>4, ExitLockQuiet, ExitLockTypes, AlongKeeps
<1>5. CASE ExitDelete(t)
  BY <1>5, ExitDeleteStep, DeleteKeeps, ExitDeleteTypes DEF IInv
<1>6. CASE ExitKeep(t)
  <2>1. Quiet(t) /\ MutexQuiet(t) /\ Types'
    BY <1>6, ExitKeepQuiet, ExitKeepTypes
  <2>2. Rows' /\ Housed' /\ Suspends' /\ Handlers' /\ Counted' /\ Mutex' /\ CounterCovers'
    BY <2>1, QuietStep, MutexKept DEF IInv, Quiet, process
  <2>3. QED
    BY <1>6, <2>1, <2>2, ExitKeepLife DEF IInv
<1>7. CASE Count(t)
  BY <1>7, CountKeeps, CountTypes DEF IInv
<1>8. QED
  BY <1>1, <1>2, <1>3, <1>4, <1>5, <1>6, <1>7

LEMMA CancelIInv ==
  ASSUME IInv, NEW t \in Thread,
         \/ SetBody(t) \/ CancelBody(t) \/ CancelAsync(t) \/ WaitEnds(t) \/ SetEvent(t)
         \/ Resume(t) \/ CancelSelf(t) \/ RunHandler(t) \/ PopBody(t)
  PROVE  IInv'
<1>1. CASE SetBody(t)
  BY <1>1, SetBodyQuiet, SetBodyTypes, AlongKeeps
<1>2. CASE CancelBody(t)
  BY <1>2, CancelBodyQuiet, CancelBodyTypes, AlongKeeps
<1>3. CASE CancelAsync(t)
  BY <1>3, CancelAsyncKeeps, CancelAsyncTypes DEF IInv
<1>4. CASE SetEvent(t)
  BY <1>4, SetEventQuiet, SetEventTypes, AlongKeeps
<1>5. CASE Resume(t)
  BY <1>5, ResumeKeeps, ResumeTypes DEF IInv
<1>6. CASE CancelSelf(t)
  BY <1>6, CancelSelfQuiet, CancelSelfTypes, AlongKeeps
<1>7. CASE RunHandler(t)
  BY <1>7, RunHandlerQuiet, RunHandlerTypes, AlongKeeps
<1>8. CASE PopBody(t)
  BY <1>8, PopBodyQuiet, PopBodyTypes, AlongKeeps
<1>9. CASE WaitEnds(t)
  BY <1>9, WaitEndsKeeps, WaitEndsTypes DEF IInv
<1>10. QED
  BY <1>1, <1>2, <1>3, <1>4, <1>5, <1>6, <1>7, <1>8, <1>9

LEMMA JoinIInv ==
  ASSUME IInv, NEW t \in Thread,
         JoinBody(t) \/ Joined(t) \/ JoinCanceled(t) \/ Rejoin(t) \/ DetachBody(t) \/ DetachDelete(t)
  PROVE  IInv'
<1>1. CASE Joined(t)
  <2>1. PICK o \in Thread : DeleteStep(t, o)
    BY <1>1, JoinedStep, Here DEF Joined
  <2>2. QED
    BY <1>1, <2>1, DeleteKeeps, JoinedTypes DEF IInv
<1>2. CASE DetachDelete(t)
  <2>1. PICK o \in Thread : DeleteStep(t, o)
    BY <1>2, DetachDeleteStep, Here DEF DetachDelete
  <2>2. QED
    BY <1>2, <2>1, DeleteKeeps, DetachDeleteTypes DEF IInv
<1>3. CASE JoinBody(t) \/ JoinCanceled(t) \/ Rejoin(t) \/ DetachBody(t)
  <2>1. Quiet(t) /\ MutexQuiet(t)
    BY <1>3, JoinBodyQuiet, JoinCanceledQuiet, RejoinQuiet, DetachBodyQuiet
  <2>2. Types'
    BY <1>3, JoinBodyTypes, JoinCanceledTypes, RejoinTypes, DetachBodyTypes
  <2>3. Rows' /\ Housed' /\ Suspends' /\ Handlers' /\ Counted' /\ Mutex' /\ CounterCovers'
    BY <2>1, QuietStep, MutexKept DEF IInv, Quiet, process
  <2>4. Uses' /\ Life'
    BY <1>3, <2>2, <2>3, JoinBodyLife, JoinCanceledLife, RejoinLife, DetachBodyLife
  <2>5. QED
    BY <2>2, <2>3, <2>4 DEF IInv
<1>4. QED
  BY <1>1, <1>2, <1>3

LEMMA StepIInv == ASSUME IInv, NEW t \in Thread, Step(t) PROVE IInv'
  BY MutexIInv, EndIInv, CancelIInv, JoinIInv DEF Step

LEMMA ProgramIInv == ASSUME IInv, Careful, NEW t \in Thread, Program(t) PROVE IInv'
<1>1. CASE Exit(t) \/ Testcancel(t)
  BY <1>1, EndIInv
<1>2. CASE \E u \in Thread, joinable \in BOOLEAN : Create(t, u, joinable)
  BY <1>2, CreateKeeps, CreateTypes DEF IInv
<1>3. CASE \E new \in CancelSettings : Set(t, new)
  <2>1. PICK new \in CancelSettings : Set(t, new)
    BY <1>3
  <2>2. QED
    BY <2>1, SetQuiet, SetTypes, AlongKeeps
<1>4. CASE \E u \in Thread : Cancel(t, u)
  <2>1. PICK u \in Thread : Cancel(t, u)
    BY <1>4
  <2>2. Quiet(t) /\ MutexQuiet(t) /\ Types'
    BY <2>1, CancelQuiet, CancelTypes
  <2>3. Rows' /\ Housed' /\ Suspends' /\ Handlers' /\ Counted' /\ Mutex' /\ CounterCovers'
    BY <2>2, QuietStep, MutexKept DEF IInv, Quiet, process
  <2>4. QED
    BY <2>1, <2>2, <2>3, CancelLife DEF IInv
<1>5. CASE Push(t) \/ \E f \in {"pop", "drop"} : Pop(t, f)
  <2>1. CASE Push(t)
    BY <2>1, PushQuiet, PushTypes, AlongKeeps
  <2>2. CASE \E f \in {"pop", "drop"} : Pop(t, f)
    BY <2>2, PopQuiet, PopTypes, AlongKeeps
  <2>3. QED
    BY <1>5, <2>1, <2>2
<1>6. CASE \E u \in Thread : Join(t, u)
  <2>1. PICK u \in Thread : Join(t, u)
    BY <1>6
  <2>2. Quiet(t) /\ MutexQuiet(t) /\ Types'
    BY <2>1, JoinQuiet, JoinTypes
  <2>3. Rows' /\ Housed' /\ Suspends' /\ Handlers' /\ Counted' /\ Mutex' /\ CounterCovers'
    BY <2>2, QuietStep, MutexKept DEF IInv, Quiet, process
  <2>4. QED
    BY <2>1, <2>2, <2>3, JoinLife DEF IInv
<1>7. CASE \E u \in Thread : Detach(t, u)
  <2>1. PICK u \in Thread : Detach(t, u)
    BY <1>7
  <2>2. Quiet(t) /\ MutexQuiet(t) /\ Types'
    BY <2>1, DetachQuiet, DetachTypes
  <2>3. Rows' /\ Housed' /\ Suspends' /\ Handlers' /\ Counted' /\ Mutex' /\ CounterCovers'
    BY <2>2, QuietStep, MutexKept DEF IInv, Quiet, process
  <2>4. QED
    BY <2>1, <2>2, <2>3, DetachLife DEF IInv
<1>8. CASE Fork(t)
  BY <1>8, ForkKeeps, ForkTypes DEF IInv
<1>9. QED
  BY <1>1, <1>2, <1>3, <1>4, <1>5, <1>6, <1>7, <1>8 DEF Program

\* Nothing happens, in the ended process among others.
LEMMA StutterIInv == IInv /\ UNCHANGED vars => IInv'
<1> SUFFICES ASSUME IInv, UNCHANGED vars PROVE IInv'
  OBVIOUS
<1>1. th' = th /\ at' = at /\ torn' = torn /\ eaten' = eaten /\ threadcount' = threadcount
      /\ over' = over /\ known' = known /\ cancels' = cancels /\ pushed' = pushed /\ ran' = ran
  BY DEF vars
<1>2. Types' /\ Rows'
  BY <1>1 DEF IInv, Types, Rows, Row, Then
<1>3. Housed' /\ Handlers'
  BY <1>1 DEF IInv, Housed, Handlers, HandlersOf, Valid, Finished
<1>4. Mutex' /\ CounterCovers'
  <2>1. MutexSame
    BY <1>1 DEF MutexSame, SameLock, Token, Posting, Counts
  <2>2. QED
    BY <1>1, <2>1, MutexFrame DEF IInv
<1>5. Uses' /\ Life'
  <2>1. \A x \in Thread : SameLife(x) /\ CallSame(x)
    BY <1>1 DEF SameLife, SameCancel, CallSame, Gone, Finished, Beginning, CallEarly,
       JoinPast, DetachPast
  <2>2. LifeSame
    BY <1>1, <2>1 DEF LifeSame
  <2>3. QED
    BY <2>2, LifeFrame DEF IInv
<1>6. Suspends'
  <2>1. \A u \in Thread : Resumers(u)' = Resumers(u) /\ (Resumer(u, u)' <=> Resumer(u, u))
    BY <1>1 DEF Resumers, Resumer
  <2>2. QED
    BY <1>1, <2>1 DEF IInv, Suspends
<1>7. Counted'
  <2>1. Living' = Living
    BY <1>1 DEF Living, Lives
  <2>2. QED
    BY <1>1, <2>1 DEF IInv, Counted
<1>8. QED
  BY <1>2, <1>3, <1>4, <1>5, <1>6, <1>7 DEF IInv

LEMMA NextIInv == ASSUME IInv, Careful, [Next]_vars PROVE IInv'
<1>1. CASE UNCHANGED vars
  BY <1>1, StutterIInv
<1>2. CASE Next
  BY <1>2, StepIInv, ProgramIInv, StutterIInv DEF Next, Over
<1>3. QED
  BY <1>1, <1>2

\* As long as the program is careful, the invariant holds.
THEOREM Invariant == ASSUME Careful PROVE Spec => []IInv
<1>1. Init => IInv
  BY InitIInv
<1>2. IInv /\ [Next]_vars => IInv'
  BY NextIInv
<1>3. QED
  BY <1>1, <1>2, PTL DEF Spec

-----------------------------------------------------------------------------
(* The theorems *)

\* A set of threads is no larger than Thread.
LEMMA FewThreads ==
  ASSUME NEW S \in SUBSET Thread PROVE Cardinality(S) \in 0 .. Cardinality(Thread)
<1>1. IsFiniteSet(S) /\ Cardinality(S) <= Cardinality(Thread)
  BY ThreadAssumption, FS_Subset
<1>2. QED
  BY <1>1, ThreadAssumption, FS_CardinalityType

\* The state has its type: no counter goes below 0 or beyond its bound, no object has
\* more than one permit in its semaphore, and no thread is suspended more often
\* than there are threads to do it.
THEOREM PthreadTypeCorrect == ASSUME Careful PROVE Spec => []TypeOK
<1>1. IInv => TypeOK
  <2> SUFFICES ASSUME IInv PROVE TypeOK
    OBVIOUS
  <2>1. ASSUME NEW t \in Thread PROVE at[t].suspends \in 0 .. Cardinality(Thread)
    <3>1. Resumers(t) \in SUBSET Thread
      BY DEF Resumers
    <3>2. QED
      BY <3>1, FewThreads DEF IInv, Suspends
  <2>2. threadcount \in 0 .. Cardinality(Thread)
    <3>1. Living \in SUBSET Thread
      BY DEF Living
    <3>2. QED
      BY <3>1, FewThreads DEF IInv, Counted
  <2>3. QED
    BY <2>1, <2>2 DEF IInv, Types, Places, TypeOK
<1>2. QED
  BY <1>1, Invariant, PTL

\* No object is deleted while a call is at work on it or the program may use its
\* id: of exit, join and detach, the last deletes it, once.
THEOREM PthreadObjectsInUse == ASSUME Careful PROVE Spec => []ObjectsInUse
<1>1. IInv => ObjectsInUse
  BY DEF IInv, Housed, Life, KnownKept, Valid, ObjectsInUse
<1>2. QED
  BY <1>1, Invariant, PTL

\* Every cleanup handler is run once or popped by the program, however the thread
\* ends: pthread::exit runs what pop_cleanup_handler left.
THEOREM PthreadHandlersOnce == ASSUME Careful PROVE Spec => []HandlersOnce
<1>1. IInv => HandlersOnce
  BY DEF IInv, Handlers, HandlersOf, Valid, Finished, HandlersOnce
<1>2. QED
  BY <1>1, Invariant, PTL

\* The waiters for an object's mutex are not forgotten, though others are torn out
\* of the wait, or wake up from it elsewhere, by their asynchronous cancellation.  The
\* mutex that one of the latter has got stays locked for good.
THEOREM PthreadNoLostWakeup == ASSUME Careful PROVE Spec => []NoLostWakeup
<1>1. IInv => NoLostWakeup
  <2> SUFFICES ASSUME IInv, NEW t \in Thread, at[t].pc = "wait", at[t].on \notin eaten
               PROVE  \/ th[at[t].on].semaphore > 0
                      \/ \E u \in Thread : /\ at[u].on = at[t].on
                                           /\ at[u].pc \in {"in", "pop", "unlock", "post"}
    BY DEF NoLostWakeup
  <2>1. PICK o \in Thread : o = at[t].on
    BY Here
  <2>2. t \in Inside(o)
    BY <2>1 DEF Inside, Counts
  <2>3. Cardinality(Inside(o)) \in Nat /\ Cardinality(Inside(o)) # 0
    BY <2>2, InsideFinite, FS_EmptySet
  <2>4. th[o].lock_counter > 0
    BY <2>3 DEF IInv, CounterCovers, Types, Objects
  <2>5. QED
    BY <2>1, <2>4 DEF IInv, Mutex, TokenExists, Token
<1>2. QED
  BY <1>1, Invariant, PTL

\* The object of a thread that has ended, and whose id the program has given up, is
\* deleted, or the detach that will do so is still at it.
THEOREM PthreadRecordsFreed == ASSUME Careful PROVE Spec => []RecordsFreed
<1>1. IInv => RecordsFreed
  <2> SUFFICES ASSUME IInv, NEW t \in Thread \ {Main},
                      at[t].pc = "ended", t \notin known, Valid(t)
               PROVE  \E u \in Users(t) : at[u].fn = "detach"
    BY DEF RecordsFreed, Valid
  <2>1. Gone(t)
    BY DEF Gone, Finished
  <2>2. th[t].joinable
    BY <2>1 DEF IInv, Life, DetachedLives
  <2>3. QED
    BY <2>2 DEF IInv, Life, DetachComing, Users
<1>2. QED
  BY <1>1, Invariant, PTL

\* The process is over when no thread lives, and not before: the last to leave
\* pthread::exit calls exit (0).
THEOREM PthreadLastOneExits == ASSUME Careful PROVE Spec => []LastOneExits
<1>1. IInv => LastOneExits
  <2> SUFFICES ASSUME IInv PROVE LastOneExits
    OBVIOUS
  <2>1. IsFiniteSet(Living)
    BY ThreadAssumption, FS_Subset DEF Living
  <2>2. Cardinality(Living) = 0 <=> Living = {}
    BY <2>1, FS_EmptySet
  <2>3. QED
    BY <2>2 DEF IInv, Counted, Living, Lives, LastOneExits
<1>2. QED
  BY <1>1, Invariant, PTL

=============================================================================
