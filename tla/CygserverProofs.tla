-------------------------- MODULE CygserverProofs --------------------------
(***************************************************************************)
(* What TLAPS proves of the cygserver's process cache and of shared memory *)
(* on top of it, for any clients, any threads of theirs and any limit on   *)
(* the processes.                                                          *)
(*                                                                         *)
(* A worker goes from the lock of the cache to the lock of the object      *)
(* without a gap (LookedUp, Held), the submitter takes an object out of    *)
(* the cache only with the former and a cleanup worker begins only with    *)
(* the latter.  That the submitter takes out the right object rests on     *)
(* there being one object in the cache for a process (OnePerProcess), on   *)
(* its array naming objects of the cache only (Waited), and on the exit    *)
(* status being set by nobody but the submitter, right before (Exited).    *)
(*                                                                         *)
(* The requests and the clean up of segments use the cache the way the     *)
(* cache expects, whatever the clients ask for, so that what is proved of  *)
(* the cache holds with shared memory on top of it.                        *)
(*                                                                         *)
(* That the counts of the server are right (Counts) is kept by every       *)
(* change of one segment.  A routine goes with every attachment (Covered): *)
(* this speaks of the ids that segments have, for a routine may outlive    *)
(* the segment of its id and find another one at its index.  That clients  *)
(* and server agree (Agreed) needs to know that the object of a running    *)
(* process is in the cache (Truly) and what a thread waits for when its    *)
(* request is on the way (Protocol): a detach is asked for only after the  *)
(* view is gone, and it never fails.                                       *)
(***************************************************************************)
EXTENDS SharedMemory, FiniteSetTheorems, SequenceTheorems, WellFoundedInduction, TLAPS

-----------------------------------------------------------------------------
(* The process cache: its invariant *)

LookedUp ==
  \A t \in Thread : rpc[t] = "enter" =>
    /\ cache_lock = t
    /\ obj[t] \in Cached
    /\ winpid[obj[t]] = Owner[t]

Held ==
  \A t \in Thread : rpc[t] = "serve" =>
    /\ obj[t] \in Address
    /\ access[obj[t]] = t
    /\ state[obj[t]] \in {"cached", "queued"}
    /\ winpid[obj[t]] = Owner[t]

OnePerProcess ==
  \A a \in Cached :
    /\ winpid[a] \in Client
    /\ \A b \in Cached : winpid[b] = winpid[a] => b = a

Waited == array \subseteq Cached

Exited ==
  /\ \A a \in Cached : ~active[a] => spc = "remove" /\ NextToCheck(a)
  /\ spc = "remove" => \A a \in Address : NextToCheck(a) => ~active[a]
  /\ \A a \in Address : state[a] \in {"queued", "cleaning"} => ~active[a]

CountExact ==
  processes_count = Cardinality(Cached) /\ processes_count <= MaxProcesses

IInv ==
  /\ TypeOK /\ LookedUp /\ Held /\ OnePerProcess /\ Waited /\ Exited
  /\ CountExact

-----------------------------------------------------------------------------
(* The list of routines *)

\* What process::remove leaves is a list of routines again.
LEMMA WithoutType ==
  ASSUME NEW S, NEW s \in Seq(S), NEW i \in 1 .. Len(s)
  PROVE  Without(s, i) \in Seq(S)
<1>1. SubSeq(s, 1, i - 1) \in Seq(S)
  BY SubSeqProperties
<1>2. SubSeq(s, i + 1, Len(s)) \in Seq(S)
  BY SubSeqProperties
<1> QED BY <1>1, <1>2, ConcatProperties DEF Without

-----------------------------------------------------------------------------
(* Types *)

\* The step of a worker that serves a request leaves the types alone, whatever
\* it does to the routines.
LEMMA ServedType ==
  ASSUME TypeOK, NEW t \in Thread, Served(t),
         routines' \in [Address -> Seq(RoutineKey)]
  PROVE  TypeOK'
BY CacheAssumption DEF TypeOK, Served, RequestAt, RequestSteps, cacheVars, submitterVars

\* Every step keeps the types.
LEMMA TypeStep == TypeOK /\ OnePerProcess /\ Waited /\ CountExact /\ [Next]_vars => TypeOK'
<1> SUFFICES ASSUME TypeOK, OnePerProcess, Waited, CountExact, [Next]_vars PROVE TypeOK'
  OBVIOUS
<1> USE CacheAssumption
<1>1. ASSUME NEW t \in Thread, Arrive(t) PROVE TypeOK'
  BY <1>1 DEF TypeOK, Arrive, RequestAt, RequestSteps, objectVars, cacheVars, submitterVars
<1>2. ASSUME NEW t \in Thread, NEW a \in Address, Find(t, a) PROVE TypeOK'
  BY <1>2 DEF TypeOK, Find, RequestAt, RequestSteps, objectVars, cacheVars, submitterVars
<1>3. ASSUME NEW t \in Thread, NEW a \in Address, Create(t, a) PROVE TypeOK'
  <2>1. routines' \in [Address -> Seq(RoutineKey)]
    BY <1>3 DEF TypeOK, Create
  <2> QED BY <1>3, <2>1 DEF TypeOK, Create, Unknown, RequestAt, RequestSteps, States, submitterVars
<1>4. ASSUME NEW t \in Thread, Refuse(t) PROVE TypeOK'
  BY <1>4 DEF TypeOK, Refuse, RequestAt, RequestSteps, objectVars, cacheVars, submitterVars
<1>5. ASSUME NEW t \in Thread, Enter(t) PROVE TypeOK'
  BY <1>5 DEF TypeOK, Enter, RequestAt, RequestSteps, objectVars, submitterVars
<1>6. ASSUME NEW t \in Thread, ServeOther(t) PROVE TypeOK'
  BY <1>6, ServedType DEF TypeOK, ServeOther
<1>7. ASSUME NEW t \in Thread, NEW k \in RoutineKey, AddRoutine(t, k) PROVE TypeOK'
  <2>1. \A s \in Seq(RoutineKey) : <<k>> \o s \in Seq(RoutineKey)
    <3>1. <<k>> \in Seq(RoutineKey)
      OBVIOUS
    <3>2. TAKE s \in Seq(RoutineKey)
    <3> QED BY <3>1, ConcatProperties
  <2>2. routines' \in [Address -> Seq(RoutineKey)]
    BY <1>7, <2>1 DEF TypeOK, AddRoutine
  <2> QED BY <1>7, <2>2, ServedType DEF AddRoutine
<1>8. ASSUME NEW t \in Thread, NEW k \in RoutineKey, RemoveRoutine(t, k) PROVE TypeOK'
  <2>1. \A a \in Address : \A i \in 1 .. Len(routines[a]) :
          Without(routines[a], i) \in Seq(RoutineKey)
    BY WithoutType DEF TypeOK
  <2>2. routines' \in [Address -> Seq(RoutineKey)]
    <3>1. CASE UNCHANGED routines
      BY <3>1 DEF TypeOK
    <3>2. ASSUME NEW i \in 1 .. Len(routines[obj[t]]),
                 routines' = [routines EXCEPT ![obj[t]] = Without(@, i)]
          PROVE  routines' \in [Address -> Seq(RoutineKey)]
      <4>1. CASE obj[t] \in Address
        BY <2>1, <3>2, <4>1 DEF TypeOK
      <4>2. CASE obj[t] \notin Address
        BY <3>2, <4>2 DEF TypeOK
      <4> QED BY <4>1, <4>2
    <3> QED BY <1>8, <3>1, <3>2 DEF RemoveRoutine
  <2> QED BY <1>8, <2>2, ServedType DEF RemoveRoutine
<1>9. ASSUME NEW c \in Client, NEW how \in Statuses, Exit(c, how) PROVE TypeOK'
  BY <1>9 DEF TypeOK, Exit, objectVars, cacheVars, requestVars, submitterVars
<1>10. CASE SyncWaitArray
  BY <1>10 DEF TypeOK, SyncWaitArray, Cached, SubmitterSteps, objectVars, cacheVars, requestVars
<1>11. CASE ProcessEnded
  BY <1>11 DEF TypeOK, ProcessEnded, SubmitterSteps, objectVars, cacheVars, requestVars
<1>12. CASE ProcessAdded
  BY <1>12 DEF TypeOK, ProcessAdded, SubmitterSteps, objectVars, requestVars
<1>13. ASSUME NEW a \in Address, CheckExitCode(a) PROVE TypeOK'
  BY <1>13 DEF TypeOK, CheckExitCode, DoneWith, SubmitterSteps, cacheVars, requestVars
<1>14. ASSUME NEW a \in Address, RemoveProcess(a) PROVE TypeOK'
  <2>1. processes_count - 1 \in Nat
    <3>1. a \in Cached /\ Cached # {}
      BY <1>14 DEF RemoveProcess, NextToCheck, Waited
    <3>2. IsFiniteSet(Cached)
      BY FS_Subset DEF Cached
    <3>3. Cardinality(Cached) \in Nat /\ Cardinality(Cached) # 0
      BY <3>1, <3>2, FS_EmptySet, FS_CardinalityType
    <3> QED BY <3>3 DEF CountExact
  <2> QED BY <1>14, <2>1 DEF TypeOK, RemoveProcess, DoneWith, States, SubmitterSteps, requestVars
<1>15. ASSUME NEW a \in Address, Cleanup(a) PROVE TypeOK'
  BY <1>15 DEF TypeOK, Cleanup, States, cacheVars, requestVars, submitterVars
<1>16. ASSUME NEW a \in Address, RunRoutine(a) PROVE TypeOK'
  <2>1. Tail(routines[a]) \in Seq(RoutineKey)
    BY <1>16 DEF TypeOK, RunRoutine
  <2>2. routines' \in [Address -> Seq(RoutineKey)]
    BY <1>16, <2>1 DEF TypeOK, RunRoutine
  <2> QED BY <1>16, <2>2 DEF TypeOK, RunRoutine, cacheVars, requestVars, submitterVars
<1>17. ASSUME NEW a \in Address, Delete(a) PROVE TypeOK'
  BY <1>17 DEF TypeOK, Delete, States, cacheVars, requestVars, submitterVars
<1>18. CASE UNCHANGED vars
  BY <1>18 DEF TypeOK, vars, objectVars, cacheVars, requestVars, submitterVars
<1> QED BY <1>1, <1>2, <1>3, <1>4, <1>5, <1>6, <1>7, <1>8, <1>9, <1>10, <1>11, <1>12,
           <1>13, <1>14, <1>15, <1>16, <1>17, <1>18
        DEF Next, Lookup, Serve, SubmitterStep, CleanerStep

-----------------------------------------------------------------------------
(* The workers and their locks *)

\* The state functions the two invariants of the workers look at
workerView == <<state, winpid, access, cache_lock, rpc, obj>>

\* No step takes an object away from a worker that has looked it up.
LEMMA WorkerStep ==
  TypeOK /\ LookedUp /\ Held /\ [Next]_vars => LookedUp' /\ Held'
<1> SUFFICES ASSUME TypeOK, LookedUp, Held, [Next]_vars PROVE LookedUp' /\ Held'
  OBVIOUS
<1> USE CacheAssumption
<1> DEFINE Kept == LookedUp' /\ Held'
<1>0. ASSUME UNCHANGED workerView PROVE Kept
  BY <1>0 DEF workerView, LookedUp, Held, Cached
<1>1. ASSUME NEW t \in Thread, Arrive(t) PROVE Kept
  BY <1>1 DEF TypeOK, Arrive, RequestAt, objectVars, cacheVars, LookedUp, Held, Cached
<1>2. ASSUME NEW t \in Thread, NEW a \in Address, Find(t, a) PROVE Kept
  BY <1>2 DEF TypeOK, Find, RequestAt, objectVars, LookedUp, Held, Cached
<1>3. ASSUME NEW t \in Thread, NEW a \in Address, Create(t, a) PROVE Kept
  <2>1. LookedUp'
    BY <1>3 DEF TypeOK, Create, Unknown, RequestAt, LookedUp, Cached
  <2>2. Held'
    BY <1>3 DEF TypeOK, Create, Unknown, RequestAt, Held
  <2> QED BY <2>1, <2>2
<1>4. ASSUME NEW t \in Thread, Refuse(t) PROVE Kept
  BY <1>4 DEF TypeOK, Refuse, Unknown, RequestAt, objectVars, cacheVars, LookedUp, Held, Cached
<1>5. ASSUME NEW t \in Thread, Enter(t) PROVE Kept
  BY <1>5 DEF TypeOK, Enter, RequestAt, objectVars, LookedUp, Held, Cached
<1>6. ASSUME NEW t \in Thread, Served(t) PROVE Kept
  BY <1>6 DEF TypeOK, Served, RequestAt, cacheVars, LookedUp, Held, Cached
<1>7. ASSUME NEW a \in Address, RemoveProcess(a) PROVE Kept
  BY <1>7 DEF TypeOK, RemoveProcess, requestVars, LookedUp, Held, Cached
<1>8. ASSUME NEW a \in Address, Cleanup(a) PROVE Kept
  BY <1>8 DEF TypeOK, Cleanup, cacheVars, requestVars, LookedUp, Held, Cached
<1>9. ASSUME NEW a \in Address, Delete(a) PROVE Kept
  BY <1>9 DEF TypeOK, Delete, cacheVars, requestVars, LookedUp, Held, Cached
<1>10. ASSUME NEW c \in Client, NEW how \in Statuses, Exit(c, how) PROVE Kept
  BY <1>0, <1>10 DEF Exit, workerView, objectVars, cacheVars, requestVars
<1>11. CASE SyncWaitArray \/ ProcessEnded \/ ProcessAdded
  BY <1>0, <1>11 DEF SyncWaitArray, ProcessEnded, ProcessAdded, workerView, objectVars,
    cacheVars, requestVars
<1>12. ASSUME NEW a \in Address, CheckExitCode(a) PROVE Kept
  BY <1>0, <1>12 DEF CheckExitCode, workerView, cacheVars, requestVars
<1>13. ASSUME NEW a \in Address, RunRoutine(a) PROVE Kept
  BY <1>0, <1>13 DEF RunRoutine, workerView, cacheVars, requestVars
<1>14. CASE UNCHANGED vars
  BY <1>0, <1>14 DEF vars, workerView, objectVars, cacheVars, requestVars
<1> QED BY <1>1, <1>2, <1>3, <1>4, <1>5, <1>6, <1>7, <1>8, <1>9, <1>10, <1>11, <1>12,
           <1>13, <1>14
        DEF Next, Lookup, Serve, ServeOther, AddRoutine, RemoveRoutine, SubmitterStep,
            CleanerStep

-----------------------------------------------------------------------------
(* The cache and the submitter *)

\* The state functions the invariants of the cache look at
cacheView == <<state, winpid, active, processes_count, spc, array>>

\* Two objects the submitter could check next are one.
LEMMA NextUnique ==
  ASSUME OnePerProcess, Waited, NEW a, NEW b, NextToCheck(a), NextToCheck(b)
  PROVE  a = b
<1>1. a \in Cached /\ b \in Cached /\ winpid[a] <= winpid[b] /\ winpid[b] <= winpid[a]
  BY DEF Waited, NextToCheck
<1>2. winpid[a] \in Nat /\ winpid[b] \in Nat
  BY <1>1, CacheAssumption DEF OnePerProcess
<1>3. winpid[a] = winpid[b]
  BY <1>1, <1>2
<1> QED BY <1>1, <1>3 DEF OnePerProcess

CacheInv == OnePerProcess /\ Waited /\ Exited

\* Every step keeps one object for a process in the cache, and the submitter's
\* array and exit statuses in order.
LEMMA CacheStep == TypeOK /\ CacheInv /\ [Next]_vars => CacheInv'
<1> SUFFICES ASSUME TypeOK, CacheInv, [Next]_vars PROVE CacheInv'
  OBVIOUS
<1> USE CacheAssumption DEF CacheInv
<1>0. ASSUME UNCHANGED cacheView PROVE CacheInv'
  BY <1>0 DEF cacheView, OnePerProcess, Waited, Exited, Cached, NextToCheck
<1>1. ASSUME NEW t \in Thread, NEW a \in Address, Create(t, a) PROVE CacheInv'
  <2>1. Cached' = Cached \cup {a} /\ a \notin Cached /\ a \notin array
    BY <1>1 DEF TypeOK, Create, Cached, Waited
  <2>2. OnePerProcess'
    BY <1>1, <2>1 DEF TypeOK, Create, Unknown, OnePerProcess, Cached
  <2>3. Waited'
    BY <1>1, <2>1 DEF Create, Waited, submitterVars
  <2>4. \A b \in Address : NextToCheck(b) <=> NextToCheck(b)'
    BY <1>1, <2>1 DEF TypeOK, Create, NextToCheck, submitterVars
  <2>5. Exited'
    <3>1. \A b \in Address : b # a => active'[b] = active[b] /\ state'[b] = state[b]
      BY <1>1 DEF TypeOK, Create
    <3>2. active'[a] = TRUE /\ state'[a] = "cached" /\ spc' = spc
      BY <1>1 DEF TypeOK, Create, submitterVars
    <3>3. ~NextToCheck(a)
      BY <2>1 DEF NextToCheck
    <3> QED BY <2>1, <2>4, <3>1, <3>2, <3>3 DEF Exited, Cached
  <2> QED BY <2>2, <2>3, <2>5
<1>2. CASE SyncWaitArray
  BY <1>2 DEF SyncWaitArray, objectVars, OnePerProcess, Waited, Exited, Cached
<1>3. CASE ProcessEnded
  BY <1>3 DEF ProcessEnded, objectVars, OnePerProcess, Waited, Exited, Cached
<1>4. CASE ProcessAdded
  BY <1>4 DEF ProcessAdded, objectVars, OnePerProcess, Waited, Exited, Cached
<1>5. ASSUME NEW a \in Address, CheckExitCode(a) PROVE CacheInv'
  <2>1. OnePerProcess' /\ Cached' = Cached
    BY <1>5 DEF CheckExitCode, OnePerProcess, Cached
  <2>2. CASE status[winpid[a]] = "exited"
    <3>1. \A b \in Address : NextToCheck(b)' => b = a
      BY <1>5, <2>2, NextUnique DEF CheckExitCode, NextToCheck
    <3>2. NextToCheck(a)' /\ array' = array /\ spc' = "remove" /\ spc = "check"
      BY <1>5, <2>2 DEF CheckExitCode, NextToCheck
    <3>3. active' = [active EXCEPT ![a] = FALSE] /\ state' = state
      BY <1>5, <2>2 DEF CheckExitCode
    <3>4. \A b \in Cached : active[b]
      BY <3>2 DEF TypeOK, Exited, Cached
    <3>5. Waited'
      BY <2>1, <3>2 DEF Waited
    <3>6. Exited'
      <4>1. \A b \in Address : b # a => active'[b] = active[b]
        BY <3>3 DEF TypeOK
      <4>2. active'[a] = FALSE
        BY <3>3 DEF TypeOK
      <4> QED BY <2>1, <3>1, <3>2, <3>3, <3>4, <4>1, <4>2 DEF Exited, Cached
    <3> QED BY <2>1, <3>5, <3>6
  <2>3. CASE status[winpid[a]] # "exited"
    BY <1>5, <2>1, <2>3 DEF CheckExitCode, DoneWith, Waited, Exited, Cached
  <2> QED BY <2>2, <2>3
<1>6. ASSUME NEW a \in Address, RemoveProcess(a) PROVE CacheInv'
  <2>1. Cached' = Cached \ {a} /\ a \in Cached
    BY <1>6 DEF TypeOK, RemoveProcess, Cached, NextToCheck, Waited
  <2>2. OnePerProcess'
    BY <1>6, <2>1 DEF RemoveProcess, OnePerProcess, Cached
  <2>3. Waited'
    BY <1>6, <2>1 DEF RemoveProcess, DoneWith, Waited
  <2>4. \A b \in Cached' : active[b]
    BY <1>6, <2>1, NextUnique DEF TypeOK, RemoveProcess, Exited, Cached
  <2>5. Exited'
    BY <1>6, <2>1, <2>4 DEF TypeOK, RemoveProcess, DoneWith, Exited, Cached
  <2> QED BY <2>2, <2>3, <2>5
<1>7. ASSUME NEW a \in Address, Cleanup(a) PROVE CacheInv'
  <2>1. Cached' = Cached
    BY <1>7 DEF TypeOK, Cleanup, Cached
  <2> QED BY <1>7, <2>1 DEF TypeOK, Cleanup, submitterVars, OnePerProcess, Waited,
                            Exited, NextToCheck
<1>8. ASSUME NEW a \in Address, Delete(a) PROVE CacheInv'
  <2>1. Cached' = Cached /\ a \notin Cached
    BY <1>8 DEF TypeOK, Delete, Cached
  <2>2. \A b \in Cached : winpid'[b] = winpid[b]
    BY <1>8, <2>1 DEF TypeOK, Delete, Cached
  <2>3. \A b \in Address : NextToCheck(b) <=> NextToCheck(b)'
    BY <1>8, <2>1, <2>2 DEF Delete, submitterVars, Waited, NextToCheck
  <2>4. OnePerProcess' /\ Waited'
    BY <1>8, <2>1, <2>2 DEF Delete, submitterVars, OnePerProcess, Waited
  <2>5. Exited'
    BY <1>8, <2>1, <2>3 DEF TypeOK, Delete, submitterVars, Exited, Cached
  <2> QED BY <2>4, <2>5
<1>9. ASSUME NEW t \in Thread,
             Arrive(t) \/ Refuse(t) \/ Enter(t) \/ Served(t)
                \/ \E a \in Address : Find(t, a)
      PROVE  CacheInv'
  BY <1>0, <1>9 DEF Arrive, Refuse, Enter, Served, Find, cacheView, objectVars, cacheVars,
    submitterVars
<1>10. ASSUME NEW c \in Client, NEW how \in Statuses, Exit(c, how) PROVE CacheInv'
  BY <1>0, <1>10 DEF Exit, cacheView, objectVars, cacheVars, submitterVars
<1>11. ASSUME NEW a \in Address, RunRoutine(a) PROVE CacheInv'
  BY <1>0, <1>11 DEF RunRoutine, cacheView, cacheVars, submitterVars
<1>12. CASE UNCHANGED vars
  BY <1>0, <1>12 DEF vars, cacheView, objectVars, cacheVars, submitterVars
<1> QED BY <1>1, <1>2, <1>3, <1>4, <1>5, <1>6, <1>7, <1>8, <1>9, <1>10, <1>11, <1>12
        DEF Next, Lookup, Serve, ServeOther, AddRoutine, RemoveRoutine, SubmitterStep,
            CleanerStep

\* The count of the cached processes stays exact and within the limit.
LEMMA CountStep ==
  TypeOK /\ Waited /\ CountExact /\ [Next]_vars => CountExact'
<1> SUFFICES ASSUME TypeOK, Waited, CountExact, [Next]_vars PROVE CountExact'
  OBVIOUS
<1> USE CacheAssumption
<1>0. IsFiniteSet(Cached) /\ Cardinality(Cached) \in Nat
  BY FS_Subset, FS_CardinalityType DEF Cached
<1>1. ASSUME Cached' = Cached, UNCHANGED processes_count PROVE CountExact'
  BY <1>1 DEF CountExact
<1>2. ASSUME NEW t \in Thread, NEW a \in Address, Create(t, a) PROVE CountExact'
  <2>1. Cached' = Cached \cup {a} /\ a \notin Cached
    BY <1>2 DEF TypeOK, Create, Cached
  <2>2. Cardinality(Cached') = Cardinality(Cached) + 1
    BY <1>0, <2>1, FS_AddElement
  <2>3. processes_count' = processes_count + 1 /\ processes_count < MaxProcesses
    BY <1>2 DEF Create
  <2> QED BY <2>2, <2>3 DEF CountExact, TypeOK
<1>3. ASSUME NEW a \in Address, RemoveProcess(a) PROVE CountExact'
  <2>1. Cached' = Cached \ {a} /\ a \in Cached
    BY <1>3 DEF TypeOK, RemoveProcess, Cached, NextToCheck, Waited
  <2>2. Cardinality(Cached') = Cardinality(Cached) - 1
    BY <1>0, <2>1, FS_RemoveElement
  <2>3. processes_count' = processes_count - 1
    BY <1>3 DEF RemoveProcess
  <2> QED BY <2>2, <2>3 DEF CountExact, TypeOK
<1>4. ASSUME NEW a \in Address, Cleanup(a) \/ RunRoutine(a) \/ Delete(a) PROVE CountExact'
  <2>1. Cached' = Cached
    BY <1>4 DEF TypeOK, Cleanup, RunRoutine, Delete, Cached
  <2> QED BY <1>1, <1>4, <2>1 DEF Cleanup, RunRoutine, Delete, cacheVars
<1>5. ASSUME UNCHANGED <<state, processes_count>> PROVE CountExact'
  BY <1>1, <1>5 DEF Cached
<1>6. ASSUME NEW t \in Thread,
             Arrive(t) \/ Refuse(t) \/ Enter(t) \/ Served(t)
                \/ \E a \in Address : Find(t, a)
      PROVE  CountExact'
  BY <1>5, <1>6 DEF Arrive, Refuse, Enter, Served, Find, objectVars, cacheVars
<1>7. ASSUME NEW c \in Client, NEW how \in Statuses, Exit(c, how) PROVE CountExact'
  BY <1>5, <1>7 DEF Exit, objectVars, cacheVars
<1>8. CASE SyncWaitArray \/ ProcessEnded \/ ProcessAdded
  BY <1>5, <1>8 DEF SyncWaitArray, ProcessEnded, ProcessAdded, objectVars, cacheVars
<1>9. ASSUME NEW a \in Address, CheckExitCode(a) PROVE CountExact'
  BY <1>5, <1>9 DEF CheckExitCode, cacheVars
<1>10. CASE UNCHANGED vars
  BY <1>5, <1>10 DEF vars, objectVars, cacheVars
<1> QED BY <1>2, <1>3, <1>4, <1>6, <1>7, <1>8, <1>9, <1>10
        DEF Next, Lookup, Serve, ServeOther, AddRoutine, RemoveRoutine, SubmitterStep,
            CleanerStep

-----------------------------------------------------------------------------
(* The theorems *)

\* The server starts with an empty cache.
LEMMA InitInv == Init => IInv
<1> SUFFICES ASSUME Init PROVE IInv
  OBVIOUS
<1> USE CacheAssumption
<1>1. Cached = {}
  BY DEF Init, Cached
<1>2. CountExact
  BY <1>1, FS_EmptySet DEF Init, CountExact
<1>3. routines \in [Address -> Seq(RoutineKey)]
  BY DEF Init
<1>4. TypeOK
  BY <1>3 DEF Init, TypeOK, States, Statuses, RequestSteps, SubmitterSteps
<1> QED BY <1>1, <1>2, <1>4
        DEF Init, IInv, LookedUp, Held, OnePerProcess, Waited, Exited, NextToCheck

\* Every step preserves the inductive invariant.
LEMMA StepInv == IInv /\ [Next]_vars => IInv'
BY TypeStep, WorkerStep, CacheStep, CountStep DEF IInv, CacheInv

\* The inductive invariant holds throughout.
THEOREM Inductive == Spec => []IInv
BY InitInv, StepInv, PTL DEF Spec

\* Every variable of the process cache keeps its type: in particular the count
\* of processes does not go below zero, and the list of routines stays one.
THEOREM TypeCorrect == Spec => []TypeOK
<1>1. IInv => TypeOK
  BY DEF IInv
<1> QED BY <1>1, Inductive, PTL

\* An object a worker holds is its client's, and neither being cleaned up nor
\* deleted (process_cache::process returns the object locked).
THEOREM HeldSafe == Spec => []HeldObjectLives
<1>1. IInv => HeldObjectLives
  BY DEF IInv, HeldObjectLives, LookedUp, Held, Cached
<1> QED BY <1>1, Inductive, PTL

\* The assertions of sync_wait_array, check_and_remove_process and cleanup hold.
THEOREM CacheSafe == Spec => []CacheConsistent
<1>1. IInv => CacheConsistent
  <2> SUFFICES ASSUME IInv PROVE CacheConsistent
    OBVIOUS
  <2>1. spc = "sync" => \A a \in Cached : active[a]
    BY DEF IInv, TypeOK, Exited, Cached
  <2>2. \A a \in array : a \in Cached /\ \A b \in Cached : winpid[b] = winpid[a] => b = a
    BY DEF IInv, Waited, OnePerProcess
  <2> QED BY <2>1, <2>2 DEF IInv, CacheConsistent, CountExact, Exited
<1> QED BY <1>1, Inductive, PTL

-----------------------------------------------------------------------------
(* Shared memory: the ids of its segments *)

Fields == {"shmid", "key", "deleted", "nattch", "refcnt"}

\* The id in a segment is one that segments can have, so that it is the key of
\* a cleanup routine.
SegmentIds ==
  /\ sequence \in Nat
  /\ DOMAIN segments = intids
  /\ \A i \in intids :
       /\ DOMAIN segments[i] = Fields
       /\ Exists(i) => segments[i].shmid \in RoutineKey

\* A segment that changes in nothing but its attachments keeps its id.
LEMMA AttachedKeepsId ==
  ASSUME NEW r, DOMAIN r = Fields, NEW a,
         NEW q, q = [r EXCEPT !.nattch = @ + 1, !.refcnt[a] = @ + 1]
  PROVE  DOMAIN q = Fields /\ q.shmid = r.shmid
BY DEF Fields

\* The same for an attachment that goes,
LEMMA DetachedKeepsId ==
  ASSUME NEW r, DOMAIN r = Fields, NEW a,
         NEW q, q = [r EXCEPT !.nattch = @ - 1, !.refcnt[a] = @ - 1]
  PROVE  DOMAIN q = Fields /\ q.shmid = r.shmid
BY DEF Fields

\* for a segment that is marked for deletion
LEMMA MarkedKeepsId ==
  ASSUME NEW r, DOMAIN r = Fields, NEW q, q = [r EXCEPT !.deleted = TRUE]
  PROVE  DOMAIN q = Fields /\ q.shmid = r.shmid
BY DEF Fields

\* and for the place of a segment that is gone.
LEMMA NoSegmentShape == DOMAIN NoSegment = Fields
BY DEF NoSegment, Fields

\* A new segment has an id of its own kind.
LEMMA SegmentOfId ==
  ASSUME NEW i \in intids, NEW n \in 1 .. MaxSequence, NEW k
  PROVE  /\ DOMAIN SegmentOf(i, n, k) = Fields
         /\ SegmentOf(i, n, k).shmid \in RoutineKey
<1>1. SegmentOf(i, n, k).shmid = Int2Ext(i, n)
  BY DEF SegmentOf, NoSegment
<1>2. DOMAIN SegmentOf(i, n, k) = Fields
  BY DEF SegmentOf, NoSegment, Fields
<1> QED BY <1>1, <1>2, KeysAreIds DEF shmids

\* One segment changes, into one with an id of its own kind or into none.
LEMMA OneSegment ==
  ASSUME SegmentIds, NEW i \in intids, NEW q,
         segments' = [segments EXCEPT ![i] = q], sequence' \in Nat,
         DOMAIN q = Fields, q # NoSegment => q.shmid \in RoutineKey
  PROVE  SegmentIds'
<1>1. \A j \in intids : segments'[j] = IF j = i THEN q ELSE segments[j]
  BY DEF SegmentIds
<1> QED BY <1>1 DEF SegmentIds, Exists

\* A call that does not get through: all but what the client itself knows stays.
Aside ==
  UNCHANGED vars /\ UNCHANGED serverVars /\ UNCHANGED request /\ UNCHANGED <<cpc, attached>>

\* The kinds of steps, with or without requests that do not get through
StepKind ==
  \/ \E t \in Thread : Call(t) \/ Keeps(t) \/ MapFails(t) \/ ShmWorker(t)
  \/ \E c \in Client, how \in Statuses : ClientExit(c, how)
  \/ SubmitterGoesOn
  \/ \E a \in Address : CleanerGoesOn(a)
  \/ Aside

\* There is no other kind.
LEMMA StepKinds == [ShmNext]_shmVars => StepKind
<1>1. ASSUME NEW t \in Thread, Map(t) \/ Untold(t) PROVE Keeps(t) \/ Aside
  BY <1>1, Zenon DEF Map, Untold, MapFailsUntold, CallShmdtUntold, Aside
<1>2. CASE UNCHANGED shmVars
  <2>1. UNCHANGED <<vars, serverVars, request>> /\ UNCHANGED shmClientVars
    BY <1>2 DEF shmVars
  <2>2. UNCHANGED <<cpc, attached>>
    BY <2>1 DEF shmClientVars
  <2>3. UNCHANGED vars /\ UNCHANGED serverVars /\ UNCHANGED request
    BY <2>1
  <2> QED BY <2>2, <2>3 DEF Aside, StepKind
<1> QED BY <1>1, <1>2, Zenon DEF ShmNext, StepKind

\* Every step of the server and of the clients keeps the ids in order.
LEMMA SegmentIdsStep == SegmentIds /\ [ShmNext]_shmVars => SegmentIds'
<1> SUFFICES ASSUME SegmentIds, StepKind PROVE SegmentIds'
  BY StepKinds
<1>0. ASSUME UNCHANGED serverVars PROVE SegmentIds'
  BY <1>0 DEF serverVars, SegmentIds, Exists
<1>1. ASSUME NEW t \in Thread, NEW k, NewSegment(t, k) PROVE SegmentIds'
  <2>1. PICK i \in intids : segments' = [segments EXCEPT ![i] = SegmentOf(i, sequence', k)]
    BY <1>1 DEF NewSegment
  <2>2. sequence' \in 1 .. MaxSequence /\ sequence' \in Nat
    BY <1>1, IdAssumption DEF NewSegment, SegmentIds
  <2> QED BY <2>1, <2>2, SegmentOfId, OneSegment
<1>2. ASSUME NEW i \in Existing, NEW a, DetachedFrom(i, a) PROVE SegmentIds'
  <2> DEFINE seg == [segments[i] EXCEPT !.nattch = @ - 1, !.refcnt[a] = @ - 1]
  <2>1. i \in intids /\ DOMAIN segments[i] = Fields /\ segments[i].shmid \in RoutineKey
    BY DEF Existing, SegmentIds
  <2>2. DOMAIN seg = Fields /\ seg.shmid = segments[i].shmid
    BY <2>1, DetachedKeepsId
  <2>3. \/ segments' = [segments EXCEPT ![i] = seg]
        \/ segments' = [segments EXCEPT ![i] = NoSegment]
    BY <1>2 DEF DetachedFrom
  <2>4. sequence' \in Nat
    BY <1>2 DEF DetachedFrom, SegmentIds
  <2> HIDE DEF seg
  <2> QED BY <2>1, <2>2, <2>3, <2>4, NoSegmentShape, OneSegment
<1>3. ASSUME NEW t \in Thread, Shmget(t) PROVE SegmentIds'
  BY <1>0, <1>1, <1>3 DEF Shmget
<1>4. ASSUME NEW t \in Thread, Shmat(t) PROVE SegmentIds'
  <2> DEFINE i == Ext2Int(request[t].shmid)
             seg == [segments[i] EXCEPT !.nattch = @ + 1, !.refcnt[client(t)] = @ + 1]
  <2>1. /\ i \in intids /\ DOMAIN segments[i] = Fields
        /\ segments[i].shmid \in RoutineKey
    BY <1>4 DEF Shmat, Found, Existing, SegmentIds
  <2>2. DOMAIN seg = Fields /\ seg.shmid = segments[i].shmid
    BY <2>1, AttachedKeepsId, ZenonT(30)
  <2>3. segments' = [segments EXCEPT ![i] = seg]
    BY <1>4, <2>1 DEF Shmat, SegmentIds
  <2>4. sequence' \in Nat
    BY <1>4 DEF Shmat, SegmentIds
  <2> HIDE DEF i, seg
  <2> QED BY <2>1, <2>2, <2>3, <2>4, OneSegment
<1>5. ASSUME NEW t \in Thread, Shmdt(t) PROVE SegmentIds'
  BY <1>2, <1>5 DEF Shmdt, Found
<1>6. ASSUME NEW t \in Thread, ShmctlRmid(t) PROVE SegmentIds'
  <2> DEFINE i == Ext2Int(request[t].shmid)
             seg == [segments[i] EXCEPT !.deleted = TRUE]
  <2>1. /\ i \in intids /\ DOMAIN segments[i] = Fields
        /\ segments[i].shmid \in RoutineKey
    BY <1>6 DEF ShmctlRmid, Found, Existing, SegmentIds
  <2>2. DOMAIN seg = Fields /\ seg.shmid = segments[i].shmid
    BY <2>1, MarkedKeepsId
  <2>3. \/ segments' = [segments EXCEPT ![i] = seg]
        \/ segments' = [segments EXCEPT ![i] = NoSegment]
    BY <1>6, <2>1 DEF ShmctlRmid, SegmentIds
  <2>4. sequence' \in Nat
    BY <1>6 DEF ShmctlRmid, SegmentIds
  <2> HIDE DEF i, seg
  <2> QED BY <2>1, <2>2, <2>3, <2>4, NoSegmentShape, OneSegment
<1>7. ASSUME NEW t \in Thread, ShmFails(t) \/ WorkerGoesOn(t) \/ RefuseAndAnswer(t)
               \/ Keeps(t) \/ MapFails(t)
      PROVE  SegmentIds'
  BY <1>0, <1>7 DEF ShmFails, WorkerGoesOn, RefuseAndAnswer, Keeps, MapFails, Asks
<1>8. ASSUME NEW t \in Thread, Call(t) PROVE SegmentIds'
  BY <1>0, <1>8 DEF Call, CallShmget, CallShmat, CallShmdt, CallRmid, Asks
<1>9. ASSUME NEW c \in Client, NEW how \in Statuses, ClientExit(c, how) PROVE SegmentIds'
  BY <1>0, <1>9 DEF ClientExit
<1>10. CASE SubmitterGoesOn
  BY <1>0, <1>10 DEF SubmitterGoesOn
<1>11. ASSUME NEW a \in Address, CleanerGoesOn(a) PROVE SegmentIds'
  <2>1. CASE UNCHANGED serverVars
    BY <1>0, <2>1
  <2>2. CASE CleanupAttachment(a)
    BY <1>0, <1>2, <2>2 DEF CleanupAttachment
  <2> QED BY <1>11, <2>1, <2>2 DEF CleanerGoesOn
<1>12. CASE Aside
  BY <1>0, <1>12 DEF Aside
<1> QED BY <1>3, <1>4, <1>5, <1>6, <1>7, <1>8, <1>9, <1>10, <1>11, <1>12
        DEF StepKind, ShmWorker, ShmServe

-----------------------------------------------------------------------------
(* Shared memory on the process cache *)

\* Every step is one of the process cache, or none of its business.
LEMMA CacheStepOrNone ==
  SegmentIds /\ [ShmNext]_shmVars => [Next]_vars
<1> SUFFICES ASSUME SegmentIds, StepKind PROVE [Next]_vars
  BY StepKinds
<1>1. ASSUME NEW t \in Thread, Call(t) \/ MapFails(t) PROVE Arrive(t)
  BY <1>1 DEF Call, CallShmget, CallShmat, CallShmdt, CallRmid, MapFails, Asks
<1>2. ASSUME NEW t \in Thread, Keeps(t) PROVE UNCHANGED vars
  BY <1>2 DEF Keeps
<1>3. ASSUME NEW t \in Thread, Found(t)
      PROVE  segments[Ext2Int(request[t].shmid)].shmid \in RoutineKey
  BY <1>3 DEF Found, Existing, SegmentIds
<1>4. ASSUME NEW t \in Thread, ShmServe(t) PROVE Serve(t)
  <2>1. CASE Shmget(t) \/ ShmctlRmid(t) \/ ShmFails(t)
    BY <2>1 DEF Shmget, ShmctlRmid, ShmFails, Serve
  <2>2. CASE Shmat(t)
    BY <1>3, <2>2 DEF Shmat, Serve
  <2>3. CASE Shmdt(t)
    BY <1>3, <2>3 DEF Shmdt, Serve
  <2> QED BY <1>4, <2>1, <2>2, <2>3 DEF ShmServe
<1>5. ASSUME NEW t \in Thread, WorkerGoesOn(t) \/ RefuseAndAnswer(t)
      PROVE  Lookup(t) \/ Enter(t)
  BY <1>5 DEF WorkerGoesOn, RefuseAndAnswer, Lookup
<1>6. ASSUME NEW c \in Client, NEW how \in Statuses, ClientExit(c, how)
      PROVE  Exit(c, how)
  BY <1>6 DEF ClientExit
<1>7. ASSUME NEW a \in Address, CleanerGoesOn(a) PROVE CleanerStep(a)
  BY <1>7 DEF CleanerGoesOn, CleanupAttachment, CleanerStep
<1>8. CASE Aside
  BY <1>8 DEF Aside
<1> QED BY <1>1, <1>2, <1>4, <1>5, <1>6, <1>7, <1>8
        DEF StepKind, ShmWorker, SubmitterGoesOn, Next

\* Whatever clients ask of shared memory, the cache goes through steps of its
\* own specification: the composition of cygserver/shm.cc and process.cc is an
\* implementation of the process cache.
THEOREM ShmUsesCache == ShmSpec => UsesCache
<1>1. ShmInit => Init /\ SegmentIds
  BY NoSegmentShape DEF ShmInit, SegmentIds, Exists
<1> QED BY <1>1, SegmentIdsStep, CacheStepOrNone, PTL DEF ShmSpec, UsesCache, Spec

\* So with shared memory, too, the process object that a shmat or shmdt works on
\* is that of the caller and is not being cleaned up, as attach asserts.
THEOREM ShmHeldSafe == ShmSpec => []HeldObjectLives
BY ShmUsesCache, HeldSafe, PTL DEF UsesCache

\* And the submitter's assertions hold with shared memory's cleanup routines.
THEOREM ShmCacheSafe == ShmSpec => []CacheConsistent
BY ShmUsesCache, CacheSafe, PTL DEF UsesCache

-----------------------------------------------------------------------------
(* Sums: Total adds up the values in some order; the order does not matter. *)

\* Induction over the natural numbers, for a set rather than a predicate
LEMMA Induction ==
  ASSUME NEW S, 0 \in S, \A n \in Nat : n \in S => n + 1 \in S
  PROVE  Nat \subseteq S
<1> DEFINE B == Nat \ S
<1> SUFFICES ASSUME B # {} PROVE FALSE
  OBVIOUS
<1>1. PICK n \in B : \A m \in B : ~(<<m, n>> \in OpToRel(<, Nat))
  <2>1. B \subseteq Nat
    OBVIOUS
  <2> HIDE DEF B
  <2> QED BY <2>1, WFMin, NatLessThanWellFounded, Zenon
<1>2. n - 1 \in Nat /\ n - 1 \in S => n \in S
  OBVIOUS
<1>3. n - 1 \in B
  BY <1>2
<1>4. <<n - 1, n>> \in OpToRel(<, Nat)
  BY <1>2 DEF OpToRel
<1> QED BY <1>1, <1>3, <1>4

\* The sum over T of the values of f, when g has the sums over smaller sets
Added(f, g, T) ==
  IF T = {} THEN 0 ELSE LET x == CHOOSE x \in T : TRUE IN f[x] + g[T \ {x}]

\* What is left of a set when one element is taken away is smaller.
LEMMA Smaller ==
  ASSUME NEW T, IsFiniteSet(T), NEW x \in T
  PROVE  /\ IsFiniteSet(T \ {x}) /\ Cardinality(T \ {x}) = Cardinality(T) - 1
         /\ Cardinality(T) \in Nat /\ Cardinality(T) > 0
BY FS_RemoveElement, FS_CardinalityType, FS_EmptySet

\* Induction over the subsets of a finite set, for a set of them
LEMMA SubsetInduction ==
  ASSUME NEW S, IsFiniteSet(S), NEW G, {} \in G,
         \A T \in SUBSET S : T # {} /\ (\A x \in T : T \ {x} \in G) => T \in G
  PROVE  SUBSET S \subseteq G
<1> DEFINE N == {n \in Nat : \A T \in SUBSET S : Cardinality(T) <= n => T \in G}
<1>0. ASSUME NEW T \in SUBSET S PROVE IsFiniteSet(T) /\ Cardinality(T) \in Nat
  BY FS_Subset, FS_CardinalityType
<1>1. 0 \in N
  BY <1>0, FS_EmptySet
<1>2. ASSUME NEW n \in Nat, n \in N PROVE n + 1 \in N
  <2>1. ASSUME NEW T \in SUBSET S, Cardinality(T) <= n + 1, NEW x \in T PROVE T \ {x} \in G
    BY <1>0, <1>2, <2>1, Smaller
  <2>2. ASSUME NEW T \in SUBSET S, Cardinality(T) <= n + 1 PROVE T \in G
    <3>1. CASE T = {}
      BY <3>1
    <3>2. CASE T # {}
      BY <2>1, <2>2, <3>2
    <3> QED BY <3>1, <3>2
  <2> QED BY <2>2
<1>3. Nat \subseteq N
  <2> HIDE DEF N
  <2> QED BY <1>1, <1>2, Induction
<1> QED BY <1>0, <1>3

\* There is a function that has the sums over all subsets of a finite set.
LEMMA SumsExist ==
  ASSUME NEW f, NEW S, IsFiniteSet(S)
  PROVE  \E g : g = [T \in SUBSET S |-> Added(f, g, T)]
<1> DEFINE Small(n) == {T \in SUBSET S : Cardinality(T) <= n}
           N == {n \in Nat : \E g : g = [T \in Small(n) |-> Added(f, g, T)]}
<1>0. ASSUME NEW T \in SUBSET S
      PROVE  IsFiniteSet(T) /\ Cardinality(T) \in Nat /\ Cardinality(T) <= Cardinality(S)
  BY FS_Subset, FS_CardinalityType
<1>1. 0 \in N
  <2> DEFINE g == [T \in Small(0) |-> 0]
  <2>1. ASSUME NEW T \in Small(0) PROVE T = {}
    BY <1>0, FS_EmptySet
  <2>2. g = [T \in Small(0) |-> Added(f, g, T)]
    BY <2>1 DEF Added
  <2> QED BY <2>2
<1>2. ASSUME NEW n \in Nat, n \in N PROVE n + 1 \in N
  <2>1. PICK g : g = [T \in Small(n) |-> Added(f, g, T)]
    BY <1>2
  <2> DEFINE h == [T \in Small(n + 1) |-> Added(f, g, T)]
  <2>2. ASSUME NEW T \in Small(n) PROVE h[T] = g[T]
    <3>1. T \in Small(n + 1)
      BY <1>0
    <3>2. g[T] = Added(f, g, T)
      BY <2>1
    <3> QED BY <3>1, <3>2
  <2>3. ASSUME NEW T \in Small(n + 1) PROVE Added(f, h, T) = Added(f, g, T)
    <3>1. CASE T = {}
      BY <3>1 DEF Added
    <3>2. CASE T # {}
      <4> DEFINE x == CHOOSE x \in T : TRUE
      <4>1. x \in T
        BY <3>2
      <4> HIDE DEF x
      <4>2. T \ {x} \in Small(n)
        BY <1>0, <4>1, Smaller
      <4>3. h[T \ {x}] = g[T \ {x}]
        BY <2>2, <4>2
      <4> HIDE DEF h
      <4> QED BY <3>2, <4>3 DEF Added, x
    <3> QED BY <3>1, <3>2
  <2>4. h = [T \in Small(n + 1) |-> Added(f, h, T)]
    BY <2>3
  <2> HIDE DEF h
  <2>5. \E e : e = [T \in Small(n + 1) |-> Added(f, e, T)]
    BY <2>4
  <2> QED BY <2>5
<1>3. Cardinality(S) \in N
  <2> HIDE DEF N
  <2>1. Nat \subseteq N
    BY <1>1, <1>2, Induction
  <2> QED BY <1>0, <2>1
<1>4. Small(Cardinality(S)) = SUBSET S
  BY <1>0
<1> QED BY <1>3, <1>4

\* The function with the sums over all subsets
Sums(f, S) == CHOOSE g : g = [T \in SUBSET S |-> Added(f, g, T)]

\* Total is what it says at the set itself.
LEMMA TotalOfSums ==
  ASSUME NEW f, NEW S
  PROVE  Total(f, S) = Sums(f, S)[S]
BY DEF Total, FoldFunctionOnSet, MapThenFoldSet, Sums, Added

\* Each of the sums comes from smaller ones.
LEMMA SumsDef ==
  ASSUME NEW f, NEW S, IsFiniteSet(S)
  PROVE  \A T \in SUBSET S : Sums(f, S)[T] = Added(f, Sums(f, S), T)
<1> DEFINE F(g) == [T \in SUBSET S |-> Added(f, g, T)]
<1>1. Sums(f, S) = CHOOSE g : g = F(g)
  BY DEF Sums
<1>2. \E g : g = F(g)
  BY SumsExist
<1>3. Sums(f, S) = F(Sums(f, S))
  BY <1>1, <1>2
<1> QED BY <1>3

\* Which set a sum is a part of does not matter.
LEMMA SumsOfSubset ==
  ASSUME NEW f, NEW S, IsFiniteSet(S), NEW T \in SUBSET S
  PROVE  Sums(f, S)[T] = Total(f, T)
<1> DEFINE G == {B \in SUBSET S : \A A \in SUBSET S : B \subseteq A => Sums(f, A)[B] = Total(f, B)}
<1>0. ASSUME NEW A \in SUBSET S, NEW B \in SUBSET A
      PROVE  Sums(f, A)[B] = Added(f, Sums(f, A), B) /\ Total(f, B) = Added(f, Sums(f, B), B)
  <2>1. IsFiniteSet(A) /\ IsFiniteSet(B)
    BY FS_Subset
  <2> QED BY <2>1, SumsDef, TotalOfSums
<1>1. {} \in G
  <2>1. \A g : Added(f, g, {}) = 0
    BY DEF Added
  <2> QED BY <1>0, <2>1
<1>2. ASSUME NEW B \in SUBSET S, B # {}, \A x \in B : B \ {x} \in G PROVE B \in G
  <2>1. ASSUME NEW A \in SUBSET S, B \subseteq A PROVE Sums(f, A)[B] = Total(f, B)
    <3> DEFINE x == CHOOSE x \in B : TRUE
    <3>1. x \in B
      BY <1>2
    <3>2. /\ Sums(f, A)[B] = f[x] + Sums(f, A)[B \ {x}]
          /\ Total(f, B) = f[x] + Sums(f, B)[B \ {x}]
      BY <1>0, <1>2, <2>1 DEF Added
    <3> HIDE DEF x
    <3>3. Sums(f, A)[B \ {x}] = Total(f, B \ {x}) /\ Sums(f, B)[B \ {x}] = Total(f, B \ {x})
      BY <1>2, <2>1, <3>1
    <3> QED BY <3>2, <3>3
  <2> QED BY <2>1
<1>3. SUBSET S \subseteq G
  <2> HIDE DEF G
  <2> QED BY <1>1, <1>2, SubsetInduction
<1> QED BY <1>3

\* The sum over a set is some value and the sum over the rest.
LEMMA TotalDef ==
  ASSUME NEW f, NEW S, IsFiniteSet(S)
  PROVE  /\ S = {} => Total(f, S) = 0
         /\ S # {} => \E x \in S : Total(f, S) = f[x] + Total(f, S \ {x})
<1>1. Total(f, S) = Added(f, Sums(f, S), S)
  BY SumsDef, TotalOfSums
<1>2. ASSUME S # {} PROVE \E x \in S : Total(f, S) = f[x] + Total(f, S \ {x})
  <2> DEFINE x == CHOOSE x \in S : TRUE
  <2>1. x \in S /\ Total(f, S) = f[x] + Sums(f, S)[S \ {x}]
    BY <1>1, <1>2 DEF Added
  <2> HIDE DEF x
  <2> QED BY <2>1, SumsOfSubset
<1> QED BY <1>1, <1>2 DEF Added

\* The sum of natural numbers is one.
LEMMA TotalType ==
  ASSUME NEW f, NEW S, IsFiniteSet(S), \A x \in S : f[x] \in Nat
  PROVE  Total(f, S) \in Nat
<1> DEFINE G == {T \in SUBSET S : Total(f, T) \in Nat}
<1>1. {} \in G
  BY TotalDef, FS_EmptySet
<1>2. ASSUME NEW T \in SUBSET S, T # {}, \A x \in T : T \ {x} \in G PROVE T \in G
  <2>1. PICK x \in T : Total(f, T) = f[x] + Total(f, T \ {x})
    BY <1>2, TotalDef, FS_Subset
  <2> QED BY <1>2, <2>1
<1>3. SUBSET S \subseteq G
  <2> HIDE DEF G
  <2> QED BY <1>1, <1>2, SubsetInduction
<1> QED BY <1>3

\* The order does not matter: any element may be taken out first.
LEMMA TotalRemove ==
  ASSUME NEW f, NEW S, IsFiniteSet(S), \A x \in S : f[x] \in Nat, NEW x \in S
  PROVE  Total(f, S) = f[x] + Total(f, S \ {x})
<1> DEFINE G == {T \in SUBSET S : \A y \in T : Total(f, T) = f[y] + Total(f, T \ {y})}
<1>0. ASSUME NEW T \in SUBSET S PROVE IsFiniteSet(T) /\ Total(f, T) \in Nat
  BY FS_Subset, TotalType
<1>1. {} \in G
  OBVIOUS
<1>2. ASSUME NEW T \in SUBSET S, T # {}, \A y \in T : T \ {y} \in G PROVE T \in G
  <2>1. ASSUME NEW y \in T PROVE Total(f, T) = f[y] + Total(f, T \ {y})
    <3>1. PICK z \in T : Total(f, T) = f[z] + Total(f, T \ {z})
      BY <1>0, TotalDef
    <3>2. CASE z = y
      BY <3>1, <3>2
    <3>3. CASE z # y
      <4>1. T \ {z} \in G /\ T \ {y} \in G
        BY <1>2
      <4>2. Total(f, T \ {z}) = f[y] + Total(f, (T \ {z}) \ {y})
        BY <3>3, <4>1
      <4>3. Total(f, T \ {y}) = f[z] + Total(f, (T \ {y}) \ {z})
        BY <3>3, <4>1
      <4>4. (T \ {z}) \ {y} = (T \ {y}) \ {z} /\ (T \ {z}) \ {y} \in SUBSET S
        OBVIOUS
      <4>5. PICK p \in Nat : p = Total(f, (T \ {z}) \ {y})
        BY <1>0, <4>4
      <4>6. Total(f, T \ {z}) = f[y] + p /\ Total(f, T \ {y}) = f[z] + p
        BY <4>2, <4>3, <4>4, <4>5
      <4>7. f[y] \in Nat /\ f[z] \in Nat
        OBVIOUS
      <4> QED BY <3>1, <4>6, <4>7
    <3> QED BY <3>2, <3>3
  <2> QED BY <2>1
<1>3. SUBSET S \subseteq G
  <2> HIDE DEF G
  <2> QED BY <1>1, <1>2, SubsetInduction
<1> QED BY <1>3

\* Functions that agree on a set have the same sum over it.
LEMMA TotalSame ==
  ASSUME NEW f, NEW h, NEW S, IsFiniteSet(S), \A x \in S : f[x] \in Nat /\ h[x] = f[x]
  PROVE  Total(h, S) = Total(f, S)
<1> DEFINE G == {T \in SUBSET S : Total(h, T) = Total(f, T)}
<1>1. {} \in G
  BY TotalDef, FS_EmptySet
<1>2. ASSUME NEW T \in SUBSET S, T # {}, \A x \in T : T \ {x} \in G PROVE T \in G
  <2>1. PICK x \in T : Total(f, T) = f[x] + Total(f, T \ {x})
    BY <1>2, TotalDef, FS_Subset
  <2>2. Total(h, T) = h[x] + Total(h, T \ {x})
    BY TotalRemove, FS_Subset
  <2> QED BY <1>2, <2>1, <2>2
<1>3. SUBSET S \subseteq G
  <2> HIDE DEF G
  <2> QED BY <1>1, <1>2, SubsetInduction
<1> QED BY <1>3

\* One value changes: the sum changes by as much.
LEMMA TotalChange ==
  ASSUME NEW f, NEW h, NEW S, IsFiniteSet(S), NEW x \in S,
         \A y \in S : f[y] \in Nat /\ h[y] \in Nat, \A y \in S \ {x} : h[y] = f[y]
  PROVE  /\ Total(f, S) \in Nat /\ Total(h, S) \in Nat
         /\ Total(h, S) = Total(f, S) + h[x] - f[x]
<1>1. IsFiniteSet(S \ {x})
  BY FS_RemoveElement
<1>2. Total(h, S \ {x}) = Total(f, S \ {x}) /\ Total(f, S \ {x}) \in Nat
  BY <1>1, TotalSame, TotalType
<1>3. /\ Total(f, S) = f[x] + Total(f, S \ {x})
      /\ Total(h, S) = h[x] + Total(h, S \ {x})
  BY TotalRemove
<1> QED BY <1>2, <1>3

\* A value is not more than the sum.
LEMMA TotalBound ==
  ASSUME NEW f, NEW S, IsFiniteSet(S), \A y \in S : f[y] \in Nat, NEW x \in S
  PROVE  f[x] <= Total(f, S) /\ Total(f, S) \in Nat
<1>1. IsFiniteSet(S \ {x})
  BY FS_RemoveElement
<1>2. Total(f, S \ {x}) \in Nat
  BY <1>1, TotalType
<1> QED BY <1>2, TotalRemove

\* The sum of zeros is zero.
LEMMA TotalZero ==
  ASSUME NEW f, NEW S, IsFiniteSet(S), \A y \in S : f[y] = 0
  PROVE  Total(f, S) = 0
<1> DEFINE G == {T \in SUBSET S : Total(f, T) = 0}
<1>1. {} \in G
  BY TotalDef, FS_EmptySet
<1>2. ASSUME NEW T \in SUBSET S, T # {}, \A x \in T : T \ {x} \in G PROVE T \in G
  <2>1. PICK x \in T : Total(f, T) = f[x] + Total(f, T \ {x})
    BY <1>2, TotalDef, FS_Subset
  <2> QED BY <1>2, <2>1
<1>3. SUBSET S \subseteq G
  <2> HIDE DEF G
  <2> QED BY <1>1, <1>2, SubsetInduction
<1> QED BY <1>3

\* One element more
LEMMA TotalAdd ==
  ASSUME NEW f, NEW S, IsFiniteSet(S), \A y \in S : f[y] \in Nat, NEW x, x \notin S, f[x] \in Nat
  PROVE  Total(f, S \cup {x}) = Total(f, S) + f[x] /\ Total(f, S) \in Nat
<1>1. IsFiniteSet(S \cup {x}) /\ (S \cup {x}) \ {x} = S /\ x \in S \cup {x}
  BY FS_AddElement
<1>2. Total(f, S \cup {x}) = f[x] + Total(f, S)
  BY <1>1, TotalRemove
<1> QED BY <1>2, TotalType

-----------------------------------------------------------------------------
(* Counting in a sequence *)

\* The places of s in a sequence
Places(q, s) == {n \in DOMAIN q : q[n] = s}

\* A finite number of them
LEMMA PlacesFinite ==
  ASSUME NEW S, NEW q \in Seq(S), NEW s
  PROVE  IsFiniteSet(Places(q, s)) /\ Cardinality(Places(q, s)) \in Nat
<1>1. Places(q, s) \in SUBSET (1 .. Len(q)) /\ IsFiniteSet(1 .. Len(q))
  BY FS_Interval DEF Places
<1> QED BY <1>1, FS_Subset, FS_CardinalityType

\* q is p with one element more, at i: there is one place more, if that one is s.
LEMMA PlacesInsert ==
  ASSUME NEW S, NEW p \in Seq(S), NEW q \in Seq(S), Len(q) = Len(p) + 1,
         NEW i \in 1 .. Len(q), NEW s,
         \A n \in 1 .. Len(p) : p[n] = q[IF n < i THEN n ELSE n + 1]
  PROVE  /\ Cardinality(Places(p, s)) \in Nat
         /\ Cardinality(Places(q, s)) = Cardinality(Places(p, s)) + (IF q[i] = s THEN 1 ELSE 0)
<1> DEFINE up(n) == IF n < i THEN n ELSE n + 1
           f == [n \in Places(p, s) |-> up(n)]
           rest == Places(q, s) \ {i}
<1>1. DOMAIN p = 1 .. Len(p) /\ DOMAIN q = 1 .. Len(q) /\ Len(p) \in Nat
  OBVIOUS
<1>2. f \in [Places(p, s) -> rest]
  <2>1. ASSUME NEW n \in Places(p, s) PROVE up(n) \in rest
    BY <1>1, <2>1 DEF Places
  <2> QED BY <2>1
<1>3. \A m, n \in Places(p, s) : f[m] = f[n] => m = n
  BY <1>1 DEF Places
<1>4. ASSUME NEW m \in rest PROVE \E n \in Places(p, s) : f[n] = m
  <2> DEFINE n == IF m < i THEN m ELSE m - 1
  <2>1. m \in 1 .. Len(q) /\ m # i /\ q[m] = s
    BY <1>1, <1>4 DEF Places
  <2>2. n \in 1 .. Len(p) /\ up(n) = m
    BY <1>1, <2>1
  <2>3. n \in Places(p, s)
    BY <1>1, <2>1, <2>2 DEF Places
  <2> QED BY <2>2, <2>3
<1>5. ExistsBijection(Places(p, s), rest)
  <2> HIDE DEF f
  <2>1. f \in Injection(Places(p, s), rest)
    BY <1>2, <1>3, Zenon DEF Injection, IsInjective
  <2>2. f \in Surjection(Places(p, s), rest)
    BY <1>2, <1>4, Zenon DEF Surjection
  <2> QED BY <2>1, <2>2 DEF ExistsBijection, Bijection
<1>6. IsFiniteSet(Places(p, s)) /\ IsFiniteSet(Places(q, s))
      /\ Cardinality(Places(p, s)) \in Nat /\ Cardinality(Places(q, s)) \in Nat
  BY PlacesFinite
<1>7. Cardinality(rest) = Cardinality(Places(p, s))
  BY <1>5, <1>6, FS_Bijection
<1>8. Cardinality(rest) = IF i \in Places(q, s) THEN Cardinality(Places(q, s)) - 1
                                                 ELSE Cardinality(Places(q, s))
  BY <1>6, FS_RemoveElement
<1>9. i \in Places(q, s) <=> q[i] = s
  BY <1>1 DEF Places
<1> HIDE DEF rest
<1> QED BY <1>6, <1>7, <1>8, <1>9

\* A routine more at the head of the list (process::add)
LEMMA PlacesAdd ==
  ASSUME NEW S, NEW p \in Seq(S), NEW k \in S, NEW s
  PROVE  /\ Cardinality(Places(p, s)) \in Nat
         /\ Cardinality(Places(<<k>> \o p, s))
              = Cardinality(Places(p, s)) + (IF k = s THEN 1 ELSE 0)
<1>1. PICK q : q = <<k>> \o p
  OBVIOUS
<1>2. q \in Seq(S) /\ Len(q) = Len(p) + 1 /\ q[1] = k
      /\ \A n \in 1 .. Len(p) : q[n + 1] = p[n]
  BY <1>1
<1>3. PICK i : i = 1
  OBVIOUS
<1>4. i \in 1 .. Len(q) /\ \A n \in 1 .. Len(p) : p[n] = q[IF n < i THEN n ELSE n + 1]
  BY <1>2, <1>3
<1>5. /\ Cardinality(Places(p, s)) \in Nat
      /\ Cardinality(Places(q, s)) = Cardinality(Places(p, s)) + (IF q[i] = s THEN 1 ELSE 0)
  BY <1>2, <1>4, PlacesInsert
<1> QED BY <1>1, <1>2, <1>3, <1>5

\* The routine at the head goes (process::cleanup).
LEMMA PlacesTail ==
  ASSUME NEW S, NEW q \in Seq(S), q # <<>>, NEW s
  PROVE  /\ Cardinality(Places(Tail(q), s)) \in Nat
         /\ Cardinality(Places(q, s))
              = Cardinality(Places(Tail(q), s)) + (IF Head(q) = s THEN 1 ELSE 0)
<1>1. PICK p : p = Tail(q)
  OBVIOUS
<1>2. p \in Seq(S) /\ Len(q) = Len(p) + 1 /\ q[1] = Head(q)
      /\ \A n \in 1 .. Len(p) : q[n + 1] = p[n]
  BY <1>1
<1>3. PICK i : i = 1
  OBVIOUS
<1>4. i \in 1 .. Len(q) /\ \A n \in 1 .. Len(p) : p[n] = q[IF n < i THEN n ELSE n + 1]
  BY <1>2, <1>3
<1>5. /\ Cardinality(Places(p, s)) \in Nat
      /\ Cardinality(Places(q, s)) = Cardinality(Places(p, s)) + (IF q[i] = s THEN 1 ELSE 0)
  BY <1>2, <1>4, PlacesInsert
<1> QED BY <1>1, <1>2, <1>3, <1>5

\* A routine in the middle goes (process::remove).
LEMMA PlacesWithout ==
  ASSUME NEW S, NEW q \in Seq(S), NEW i \in 1 .. Len(q), NEW s
  PROVE  /\ Cardinality(Places(Without(q, i), s)) \in Nat
         /\ Cardinality(Places(q, s))
              = Cardinality(Places(Without(q, i), s)) + (IF q[i] = s THEN 1 ELSE 0)
<1> DEFINE a == SubSeq(q, 1, i - 1)
           b == SubSeq(q, i + 1, Len(q))
<1>1. a \in Seq(S) /\ Len(a) = i - 1 /\ \A n \in 1 .. i - 1 : a[n] = q[n]
  BY SubSeqProperties
<1>2. b \in Seq(S) /\ Len(b) = Len(q) - i /\ \A n \in 1 .. Len(q) - i : b[n] = q[i + n]
  BY SubSeqProperties
<1> HIDE DEF a, b
<1>3. PICK p : p = a \o b
  OBVIOUS
<1>4. /\ p \in Seq(S) /\ Len(p) = Len(a) + Len(b)
      /\ \A n \in 1 .. Len(a) + Len(b) : p[n] = IF n <= Len(a) THEN a[n] ELSE b[n - Len(a)]
  BY <1>1, <1>2, <1>3, ConcatProperties
<1>5. Len(q) = Len(p) + 1
  BY <1>1, <1>2, <1>4
<1>6. ASSUME NEW n \in 1 .. Len(p) PROVE p[n] = q[IF n < i THEN n ELSE n + 1]
  <2>1. CASE n < i
    BY <1>1, <1>2, <1>4, <2>1
  <2>2. CASE ~(n < i)
    <3>1. n - (i - 1) \in 1 .. Len(q) - i /\ i + (n - (i - 1)) = n + 1
      BY <1>5, <2>2
    <3>2. p[n] = b[n - (i - 1)]
      BY <1>1, <1>2, <1>4, <2>2
    <3> QED BY <1>2, <2>2, <3>1, <3>2
  <2> QED BY <2>1, <2>2
<1>7. p = Without(q, i)
  BY <1>3 DEF Without, a, b
<1>8. /\ Cardinality(Places(p, s)) \in Nat
      /\ Cardinality(Places(q, s)) = Cardinality(Places(p, s)) + (IF q[i] = s THEN 1 ELSE 0)
  <2>1. p \in Seq(S) /\ \A n \in 1 .. Len(p) : p[n] = q[IF n < i THEN n ELSE n + 1]
    BY <1>4, <1>6
  <2> QED BY <1>5, <2>1, PlacesInsert
<1> QED BY <1>7, <1>8

-----------------------------------------------------------------------------
(* The ids of segments *)

\* The parts of a number that is written with quotient and remainder
LEMMA Parts ==
  ASSUME NEW m \in Nat \ {0}, NEW n \in Nat, NEW r \in Nat, r < m
  PROVE  (n * m + r) % m = r /\ (n * m + r) \div m = n
OBVIOUS

\* The same of the numbers below 4 * m
LEMMA FourParts ==
  ASSUME NEW m \in Nat \ {0}, NEW n \in Nat, n < 4 * m
  PROVE  \E q \in 0 .. 3, r \in 0 .. m - 1 : n = q * m + r /\ n % m = r /\ n \div m = q
<1>1. PICK q \in 0 .. 3, r \in 0 .. m - 1 : n = q * m + r
  <2>1. CASE n < m
    <3>1. n = 0 * m + n /\ n \in 0 .. m - 1
      BY <2>1
    <3> QED BY <3>1
  <2>2. CASE m <= n /\ n < 2 * m
    <3>1. n = 1 * m + (n - m) /\ n - m \in 0 .. m - 1
      BY <2>2
    <3> QED BY <3>1
  <2>3. CASE 2 * m <= n /\ n < 3 * m
    <3>1. n = 2 * m + (n - 2 * m) /\ n - 2 * m \in 0 .. m - 1
      BY <2>3
    <3> QED BY <3>1
  <2>4. CASE 3 * m <= n
    <3>1. n = 3 * m + (n - 3 * m) /\ n - 3 * m \in 0 .. m - 1
      BY <2>4
    <3> QED BY <3>1
  <2> QED BY <2>1, <2>2, <2>3, <2>4
<1>2. r \in Nat /\ r < m /\ q \in Nat
  OBVIOUS
<1>3. (q * m + r) % m = r /\ (q * m + r) \div m = q
  BY <1>2, Parts
<1> QED BY <1>1, <1>3

\* Nothing gets lost in x | y.
LEMMA OrType ==
  ASSUME NEW x \in Nat, NEW q \in 0 .. 3
  PROVE  Or(x, q) \in Nat /\ Or(x, q) <= x + 3 /\ (q > 0 => Or(x, q) > 0)
<1>1. q \in {0, 1, 2, 3}
  OBVIOUS
<1> QED BY <1>1 DEF Or

\* The ids of a segment are not below IPCMNI.
Wraps(i) == OPEN_MAX + i * IPC_SUBSYS_COUNT + IPC_SHMOP >= IPCMNI

\* ipc_ext2int undoes ipc_int2ext, whatever the sequence number, or takes the id for
\* one of another subsystem: never for that of another segment.
LEMMA Ext2IntInt2Ext ==
  ASSUME NEW i \in intids, NEW n \in Nat
  PROVE  /\ Ext2Int(Int2Ext(i, n)) = IF Wraps(i) THEN -1 ELSE i
         /\ Int2Ext(i, n) \in Nat /\ Int2Ext(i, n) > 0 /\ Int2Ext(i, n) <= 32771 * IPCMNI
<1>1. PICK x \in Nat : x = n % 32768 /\ x < 32768
  OBVIOUS
<1>2. PICK id \in Nat : id = OPEN_MAX + i * 3 + 2
  BY IdAssumption DEF intids
<1>3. /\ IPCMNI \in Nat \ {0} /\ IPCMNI % 3 # 0 /\ i \in Nat /\ i < IPCMNI
      /\ OPEN_MAX \in Nat /\ OPEN_MAX < IPCMNI
  BY IdAssumption DEF intids, IPC_SUBSYS_COUNT
<1>4. id < 4 * IPCMNI /\ id > 0
  BY <1>2, <1>3
<1>5. PICK q \in 0 .. 3, r \in 0 .. IPCMNI - 1 :
         id = q * IPCMNI + r /\ id % IPCMNI = r /\ id \div IPCMNI = q
  BY <1>3, <1>4, FourParts
<1>6. PICK z \in Nat : z = Or(x, q) /\ z <= 32770 /\ (q > 0 => z > 0)
  <2>1. Or(x, q) \in Nat /\ Or(x, q) <= x + 3 /\ (q > 0 => Or(x, q) > 0)
    BY OrType
  <2> QED BY <1>1, <2>1
<1>7. PICK y \in Nat : y = z * IPCMNI
  BY <1>3
<1>8. Int2Ext(i, n) = y + r
  BY <1>1, <1>2, <1>5, <1>6, <1>7 DEF Int2Ext, IPC_SUBSYS_COUNT, IPC_SHMOP
<1>9. y + r > 0 /\ y + r <= 32771 * IPCMNI
  <2>1. y <= 32770 * IPCMNI
    BY <1>3, <1>6, <1>7
  <2>2. CASE q = 0
    BY <1>3, <1>4, <1>5, <2>1, <2>2
  <2>3. CASE q > 0
    <3>1. z >= 1
      BY <1>6, <2>3
    <3>2. y >= IPCMNI
      BY <1>3, <1>7, <3>1
    <3> QED BY <1>3, <2>1, <3>2
  <2> QED BY <2>2, <2>3
<1>10. (y + r) % IPCMNI = r
  <2>1. r \in Nat /\ r < IPCMNI
    BY <1>3
  <2>2. (z * IPCMNI + r) % IPCMNI = r
    BY <1>3, <2>1, Parts
  <2> QED BY <1>7, <2>2
<1>11. Ext2Int(y + r) = IF r - OPEN_MAX >= 0 /\ (r - OPEN_MAX) % 3 = 2 THEN (r - OPEN_MAX) \div 3 ELSE -1
  BY <1>10 DEF Ext2Int, IPC_SUBSYS_COUNT, IPC_SHMOP
<1>12. Wraps(i) <=> q # 0
  <2>1. Wraps(i) <=> id >= IPCMNI
    BY <1>2 DEF Wraps, IPC_SUBSYS_COUNT, IPC_SHMOP
  <2>2. CASE q = 0
    BY <1>3, <1>5, <2>1, <2>2
  <2>3. CASE q > 0
    <3>1. q * IPCMNI >= IPCMNI
      BY <1>3, <2>3
    <3> QED BY <1>3, <1>5, <2>1, <2>3, <3>1
  <2> QED BY <2>2, <2>3
<1>13. Ext2Int(y + r) = IF q # 0 THEN -1 ELSE i
  <2>1. CASE q = 0
    <3>1. r - OPEN_MAX = i * 3 + 2
      BY <1>2, <1>3, <1>5, <2>1
    <3> QED BY <1>3, <1>11, <2>1, <3>1
  <2>2. CASE q = 1
    <3>1. r - OPEN_MAX = i * 3 + 2 - IPCMNI
      BY <1>2, <1>3, <1>5, <2>2
    <3>2. (r - OPEN_MAX) % 3 # 2
      BY <1>3, <3>1
    <3> QED BY <1>11, <2>2, <3>2
  <2>3. CASE q = 2
    <3>1. r - OPEN_MAX = i * 3 + 2 - 2 * IPCMNI
      BY <1>2, <1>3, <1>5, <2>3
    <3>2. (r - OPEN_MAX) % 3 # 2
      BY <1>3, <3>1
    <3> QED BY <1>11, <2>3, <3>2
  <2>4. CASE q = 3
    <3>1. r - OPEN_MAX = i * 3 + 2 - 3 * IPCMNI
      BY <1>2, <1>3, <1>5, <2>4
    <3>2. ~(r - OPEN_MAX >= 0)
      BY <1>3, <3>1
    <3> QED BY <1>11, <2>4, <3>2
  <2> QED BY <2>1, <2>2, <2>3, <2>4
<1> QED BY <1>8, <1>9, <1>12, <1>13

\* An id that the server knows a segment by
Live(s) == Ext2Int(s) \in intids

\* There are finitely many ids, each of one segment or of none.
LEMMA IdsFinite ==
  /\ IsFiniteSet(shmids)
  /\ \A s \in shmids : s # 0 /\ (Live(s) => ~Wraps(Ext2Int(s)))
<1>1. PICK m \in Nat : m = 32771 * IPCMNI
  BY IdAssumption
<1>2. ASSUME NEW s \in shmids PROVE s \in 0 .. m /\ s # 0 /\ (Live(s) => ~Wraps(Ext2Int(s)))
  <2>1. PICK i \in intids, n \in 1 .. MaxSequence : s = Int2Ext(i, n)
    BY DEF shmids
  <2>2. n \in Nat
    BY IdAssumption
  <2>3. Ext2Int(s) = (IF Wraps(i) THEN -1 ELSE i) /\ s \in 0 .. m /\ s # 0
    BY <1>1, <2>1, <2>2, Ext2IntInt2Ext
  <2>4. -1 \notin intids
    BY DEF intids
  <2> QED BY <2>3, <2>4 DEF Live
<1>3. IsFiniteSet(0 .. m) /\ shmids \in SUBSET (0 .. m)
  BY <1>2, FS_Interval
<1> QED BY <1>2, <1>3, FS_Subset

-----------------------------------------------------------------------------
(* Segments and their counts *)

\* A segment, or the place of one, whose count is that of the processes attached
Shape(r) ==
  DOMAIN r = Fields /\ r.nattch \in Nat /\ r.deleted \in BOOLEAN /\ r.refcnt \in [Address -> Nat]

Exact(r) ==
  Shape(r) /\ r.nattch = Total(r.refcnt, Address) /\ (r.deleted => r.nattch > 0)

\* The segment at i has an id that leads back to it, or nobody is attached to it.
Identified(i, r) ==
  r # NoSegment =>
    /\ r.shmid \in shmids
    /\ IF Wraps(i) THEN ~Live(r.shmid) /\ \A a \in Address : r.refcnt[a] = 0
                   ELSE Ext2Int(r.shmid) = i

Counts ==
  /\ \A i \in intids : Exact(segments[i]) /\ Identified(i, segments[i])
  /\ shm_atts = Total([i \in intids |-> segments[i].nattch], intids)
  /\ shm_ids = Cardinality(Existing)

One(b) == IF b THEN 1 ELSE 0
Counted(r) == IF r = NoSegment THEN 0 ELSE 1

\* q takes the place of the segment at i, and is counted.
Replaced(i, q) ==
  /\ segments' = [segments EXCEPT ![i] = q]
  /\ Exact(q) /\ Identified(i, q)
  /\ shm_atts' = shm_atts + q.nattch - segments[i].nattch
  /\ shm_ids' = shm_ids + Counted(q) - Counted(segments[i])

\* There are finitely many indices.
LEMMA IntidsFinite == IsFiniteSet(intids)
BY FS_Interval, IdAssumption DEF intids

\* Such a change keeps the counts.
LEMMA ReplacedCounts ==
  ASSUME SegmentIds, Counts, NEW i \in intids, NEW q, Replaced(i, q)
  PROVE  Counts'
<1> DEFINE f == [j \in intids |-> segments[j].nattch]
           h == [j \in intids |-> segments'[j].nattch]
<1>1. \A j \in intids : segments'[j] = IF j = i THEN q ELSE segments[j]
  BY DEF Replaced, SegmentIds
<1>2. \A j \in intids : Exact(segments'[j]) /\ Identified(j, segments'[j])
  BY <1>1 DEF Replaced, Counts
<1>3. Total(h, intids) = Total(f, intids) + h[i] - f[i] /\ Total(f, intids) \in Nat
  <2>1. \A j \in intids : f[j] \in Nat /\ h[j] \in Nat
    BY <1>2 DEF Counts, Exact, Shape
  <2>2. \A j \in intids \ {i} : h[j] = f[j]
    BY <1>1
  <2> HIDE DEF f, h
  <2> QED BY <2>1, <2>2, IntidsFinite, TotalChange
<1>4. h[i] = q.nattch /\ f[i] = segments[i].nattch
  BY <1>1
<1>5. shm_atts' = Total(h, intids)
  <2> HIDE DEF f, h
  <2>1. shm_atts = Total(f, intids)
    BY DEF Counts, f
  <2> QED BY <1>3, <1>4, <2>1 DEF Replaced
<1>6. IsFiniteSet(Existing) /\ Cardinality(Existing) \in Nat
  BY IntidsFinite, FS_Subset, FS_CardinalityType DEF Existing
<1>7. Existing' = IF q = NoSegment THEN Existing \ {i} ELSE Existing \cup {i}
  BY <1>1 DEF Existing, Exists
<1>8. i \in Existing <=> Exists(i)
  BY DEF Existing
<1>9. shm_ids' = Cardinality(Existing')
  <2>1. shm_ids = Cardinality(Existing) /\ shm_ids' = shm_ids + Counted(q) - Counted(segments[i])
    BY DEF Counts, Replaced
  <2>2. CASE q = NoSegment
    <3>1. Cardinality(Existing \ {i}) = IF i \in Existing THEN Cardinality(Existing) - 1
                                                          ELSE Cardinality(Existing)
      BY <1>6, FS_RemoveElement
    <3>2. Existing' = Existing \ {i}
      BY <1>7, <2>2
    <3> QED BY <1>6, <1>8, <2>1, <2>2, <3>1, <3>2 DEF Counted, Exists
  <2>3. CASE q # NoSegment
    <3>1. Cardinality(Existing \cup {i}) = IF i \in Existing THEN Cardinality(Existing)
                                                             ELSE Cardinality(Existing) + 1
      BY <1>6, FS_AddElement
    <3>2. Existing' = Existing \cup {i}
      BY <1>7, <2>3
    <3> QED BY <1>6, <1>8, <2>1, <2>3, <3>1, <3>2 DEF Counted, Exists
  <2> QED BY <2>2, <2>3
<1> QED BY <1>2, <1>5, <1>9 DEF Counts

\* Nobody is attached to what is not there.
LEMMA NoSegmentExact ==
  /\ Exact(NoSegment) /\ NoSegment.nattch = 0 /\ NoSegment.shmid = 0
  /\ \A a \in Address : NoSegment.refcnt[a] = 0
<1>1. NoSegment.refcnt = [a \in Address |-> 0] /\ Shape(NoSegment) /\ ~NoSegment.deleted
      /\ NoSegment.nattch = 0 /\ NoSegment.shmid = 0
  BY DEF NoSegment, Shape, Fields
<1>2. Total(NoSegment.refcnt, Address) = 0
  BY <1>1, TotalZero, CacheAssumption
<1> QED BY <1>1, <1>2 DEF Exact

\* A segment that nobody is attached to
LEMMA NobodyAttached ==
  ASSUME NEW r, Exact(r), r.nattch = 0, NEW a \in Address
  PROVE  r.refcnt[a] = 0
<1>1. \A b \in Address : r.refcnt[b] \in Nat
  BY DEF Exact, Shape
<1>2. r.refcnt[a] <= Total(r.refcnt, Address)
  BY <1>1, TotalBound, CacheAssumption
<1> QED BY <1>1, <1>2 DEF Exact

\* q is r with an attachment of a more,
AttachedOf(q, r, a) ==
  /\ Exact(q) /\ q.shmid = r.shmid /\ q.nattch = r.nattch + 1
  /\ \A b \in Address : q.refcnt[b] = r.refcnt[b] + One(b = a)

\* or one less, before anybody looks at what is left.
DetachedOf(q, r, a) ==
  /\ Shape(q) /\ q.nattch = Total(q.refcnt, Address)
  /\ q.shmid = r.shmid /\ q.nattch = r.nattch - 1
  /\ \A b \in Address : q.refcnt[b] = r.refcnt[b] - One(b = a)

\* segment_t::attach
LEMMA AttachedExact ==
  ASSUME NEW r, Exact(r), NEW a \in Address,
         NEW q, q = [r EXCEPT !.nattch = @ + 1, !.refcnt[a] = @ + 1]
  PROVE  AttachedOf(q, r, a)
<1>1. PICK f : f = r.refcnt
  OBVIOUS
<1>2. f \in [Address -> Nat] /\ r.nattch \in Nat /\ DOMAIN r = Fields
  BY <1>1 DEF Exact, Shape
<1>3. q.refcnt = [f EXCEPT ![a] = @ + 1] /\ q.nattch = r.nattch + 1 /\ q.shmid = r.shmid
      /\ (q.deleted = r.deleted) /\ DOMAIN q = Fields
  BY <1>1, <1>2 DEF Fields
<1>4. PICK h : h = [f EXCEPT ![a] = @ + 1]
  OBVIOUS
<1>5. h \in [Address -> Nat] /\ h[a] = f[a] + 1 /\ \A b \in Address \ {a} : h[b] = f[b]
  BY <1>2, <1>4
<1>6. Total(h, Address) = Total(f, Address) + h[a] - f[a] /\ Total(f, Address) \in Nat
  BY <1>2, <1>5, TotalChange, CacheAssumption
<1>7. Shape(q)
  BY <1>2, <1>3, <1>4, <1>5 DEF Shape, Exact
<1>8. q.nattch = Total(q.refcnt, Address)
  BY <1>1, <1>2, <1>3, <1>4, <1>5, <1>6 DEF Exact
<1>9. \A b \in Address : q.refcnt[b] = r.refcnt[b] + One(b = a)
  BY <1>1, <1>2, <1>3, <1>4, <1>5 DEF One
<1>10. Exact(q)
  BY <1>2, <1>3, <1>7, <1>8 DEF Exact
<1> QED BY <1>3, <1>9, <1>10 DEF AttachedOf

\* segment_t::detach, before it looks at what is left
LEMMA DetachedExact ==
  ASSUME NEW r, Exact(r), NEW a \in Address, r.refcnt[a] > 0,
         NEW q, q = [r EXCEPT !.nattch = @ - 1, !.refcnt[a] = @ - 1]
  PROVE  DetachedOf(q, r, a)
<1>1. PICK f : f = r.refcnt
  OBVIOUS
<1>2. f \in [Address -> Nat] /\ f[a] > 0 /\ r.nattch \in Nat /\ DOMAIN r = Fields
  BY <1>1 DEF Exact, Shape
<1>3. q.refcnt = [f EXCEPT ![a] = @ - 1] /\ q.nattch = r.nattch - 1 /\ q.shmid = r.shmid
      /\ (q.deleted = r.deleted) /\ DOMAIN q = Fields
  BY <1>1, <1>2 DEF Fields
<1>4. PICK h : h = [f EXCEPT ![a] = @ - 1]
  OBVIOUS
<1>5. h \in [Address -> Nat] /\ h[a] = f[a] - 1 /\ \A b \in Address \ {a} : h[b] = f[b]
  BY <1>2, <1>4
<1>6. Total(h, Address) = Total(f, Address) + h[a] - f[a] /\ Total(f, Address) \in Nat
      /\ Total(h, Address) \in Nat
  BY <1>2, <1>5, TotalChange, CacheAssumption
<1>7. q.nattch = Total(h, Address)
  BY <1>1, <1>2, <1>3, <1>5, <1>6 DEF Exact
<1>8. Shape(q)
  BY <1>2, <1>3, <1>4, <1>5, <1>6, <1>7 DEF Shape, Exact
<1>9. \A b \in Address : q.refcnt[b] = r.refcnt[b] - One(b = a)
  BY <1>1, <1>2, <1>3, <1>4, <1>5 DEF One
<1> QED BY <1>3, <1>4, <1>7, <1>8, <1>9 DEF DetachedOf

\* IPC_RMID of a segment in use
LEMMA MarkedExact ==
  ASSUME NEW r, Exact(r), r.nattch > 0, NEW q, q = [r EXCEPT !.deleted = TRUE]
  PROVE  /\ Exact(q) /\ q.shmid = r.shmid /\ q.nattch = r.nattch /\ q.refcnt = r.refcnt
<1>1. q.refcnt = r.refcnt /\ q.nattch = r.nattch /\ q.shmid = r.shmid /\ q.deleted = TRUE
      /\ DOMAIN q = Fields
  BY DEF Exact, Shape, Fields
<1> QED BY <1>1 DEF Exact, Shape

\* A segment that was just made
LEMMA MadeExact ==
  ASSUME NEW i \in intids, NEW n \in 1 .. MaxSequence, NEW k, NEW q, q = SegmentOf(i, n, k)
  PROVE  /\ Exact(q) /\ Identified(i, q) /\ q # NoSegment /\ q.nattch = 0
         /\ \A a \in Address : q.refcnt[a] = 0
<1>1. q.refcnt = [a \in Address |-> 0] /\ Shape(q) /\ ~q.deleted /\ q.nattch = 0
      /\ q.shmid = Int2Ext(i, n)
  BY DEF SegmentOf, NoSegment, Shape, Fields
<1>2. Total(q.refcnt, Address) = 0
  BY <1>1, TotalZero, CacheAssumption
<1>3. n \in Nat
  BY IdAssumption
<1>4. /\ Int2Ext(i, n) \in shmids /\ Int2Ext(i, n) # 0
      /\ IF Wraps(i) THEN ~Live(Int2Ext(i, n)) ELSE Ext2Int(Int2Ext(i, n)) = i
  BY <1>3, Ext2IntInt2Ext DEF shmids, Live, intids
<1>5. q # NoSegment
  BY <1>1, <1>4, NoSegmentExact
<1> QED BY <1>1, <1>2, <1>4, <1>5 DEF Exact, Identified

-----------------------------------------------------------------------------
(* What a step of the server does to the attachments *)

\* How often the object at a is attached to the segment that has the id s now
Attachments(a, s) ==
  LET r == segments[Ext2Int(s)] IN IF Live(s) /\ r.shmid = s THEN r.refcnt[a] ELSE 0

\* The attachments of a to the segment at i change by d, and no others do.
Effect(i, a, d) ==
  /\ Counts'
  /\ \A j \in intids, b \in Address :
       segments'[j].refcnt[b] = segments[j].refcnt[b] + (IF j = i /\ b = a THEN d ELSE 0)
  /\ \A s \in shmids, b \in Address :
       Attachments(b, s)' = Attachments(b, s)
                              + (IF s = segments[i].shmid /\ b = a THEN d ELSE 0)

\* No attachments change.
Still ==
  /\ Counts'
  /\ \A j \in intids, b \in Address : segments'[j].refcnt[b] = segments[j].refcnt[b]
  /\ \A s \in shmids, b \in Address : Attachments(b, s)' = Attachments(b, s)

\* Nobody is attached less than never.
LEMMA RefcntType ==
  ASSUME Counts
  PROVE  /\ \A j \in intids, b \in Address : segments[j].refcnt[b] \in Nat
         /\ \A s \in shmids, b \in Address : Attachments(b, s) \in Nat
<1>1. \A j \in intids, b \in Address : segments[j].refcnt[b] \in Nat
  BY DEF Counts, Exact, Shape
<1> QED BY <1>1 DEF Attachments, Live

\* The segment at i is another one only if nobody is attached to that.
LEMMA ReplacedEffect ==
  ASSUME SegmentIds, Counts, NEW i \in intids, NEW q, Replaced(i, q), NEW a, NEW d \in Int,
         \A b \in Address :
           q.refcnt[b] = segments[i].refcnt[b] + (IF b = a THEN d ELSE 0),
         q.shmid = segments[i].shmid \/ \A b \in Address : q.refcnt[b] = 0
  PROVE  Effect(i, a, d)
<1>1. \A j \in intids : segments'[j] = IF j = i THEN q ELSE segments[j]
  BY DEF Replaced, SegmentIds
<1>2. Counts'
  BY ReplacedCounts
<1>3. ASSUME NEW j \in intids, NEW b \in Address
      PROVE  segments'[j].refcnt[b] = segments[j].refcnt[b] + (IF j = i /\ b = a THEN d ELSE 0)
  BY <1>1, RefcntType
<1>4. ASSUME NEW s \in shmids, NEW b \in Address
      PROVE  Attachments(b, s)' = Attachments(b, s)
                                    + (IF s = segments[i].shmid /\ b = a THEN d ELSE 0)
  <2>1. CASE ~Live(s)
    <3>1. Attachments(b, s) = 0 /\ Attachments(b, s)' = 0
      BY <2>1 DEF Attachments
    <3>2. ASSUME s = segments[i].shmid, b = a PROVE d = 0
      <4>1. segments[i] # NoSegment
        BY <3>2, IdsFinite, NoSegmentExact
      <4>2. segments[i].refcnt[b] = 0
        BY <2>1, <3>2, <4>1 DEF Counts, Identified, Live
      <4>3. q.refcnt[b] = d
        BY <3>2, <4>2
      <4>4. CASE q.shmid = s
        <5>1. q # NoSegment
          BY <4>4, IdsFinite, NoSegmentExact
        <5>2. q.refcnt[b] = 0
          BY <2>1, <4>4, <5>1 DEF Replaced, Identified, Live
        <5> QED BY <4>3, <5>2
      <4> QED BY <3>2, <4>3, <4>4
    <3> QED BY <3>1, <3>2
  <2>2. ASSUME NEW j \in intids, j = Ext2Int(s)
        PROVE  Attachments(b, s)' = Attachments(b, s)
                                      + (IF s = segments[i].shmid /\ b = a THEN d ELSE 0)
    <3>1. /\ Attachments(b, s) = IF segments[j].shmid = s THEN segments[j].refcnt[b] ELSE 0
          /\ Attachments(b, s)' = IF segments'[j].shmid = s THEN segments'[j].refcnt[b] ELSE 0
      BY <2>2 DEF Attachments, Live
    <3>2. segments[j].refcnt[b] \in Nat
      BY RefcntType
    <3>3. CASE j = i
      <4>1. segments'[j] = q /\ q.refcnt[b] = segments[i].refcnt[b] + (IF b = a THEN d ELSE 0)
        BY <1>1, <3>3
      <4>2. CASE q.shmid = segments[i].shmid
        BY <3>1, <3>2, <3>3, <4>1, <4>2
      <4>3. CASE q.refcnt[b] = 0
        BY <3>1, <3>2, <3>3, <4>1, <4>3
      <4> QED BY <4>2, <4>3
    <3>4. CASE j # i
      <4>1. s # segments[i].shmid
        BY <2>2, <3>4, IdsFinite, NoSegmentExact DEF Counts, Identified, Live
      <4>2. segments'[j] = segments[j]
        BY <1>1, <3>4
      <4> QED BY <3>1, <3>2, <4>1, <4>2
    <3> QED BY <3>3, <3>4
  <2> QED BY <2>1, <2>2 DEF Live
<1> QED BY <1>2, <1>3, <1>4 DEF Effect

\* The same when nothing is attached or detached
LEMMA ReplacedStill ==
  ASSUME SegmentIds, Counts, NEW i \in intids, NEW q, Replaced(i, q),
         \A b \in Address : q.refcnt[b] = segments[i].refcnt[b],
         q.shmid = segments[i].shmid \/ \A b \in Address : q.refcnt[b] = 0
  PROVE  Still
<1>1. \A j \in intids, b \in Address : segments[j].refcnt[b] \in Nat
  BY RefcntType
<1>2. \A s \in shmids, b \in Address : Attachments(b, s) \in Nat
  BY RefcntType
<1>3. PICK d \in Int : d = 0
  OBVIOUS
<1>4. \A b \in Address : q.refcnt[b] = segments[i].refcnt[b] + (IF b = Null THEN d ELSE 0)
  BY <1>1, <1>3
<1>5. Effect(i, Null, d)
  BY <1>4, ReplacedEffect
<1> QED BY <1>1, <1>2, <1>3, <1>5 DEF Effect, Still

\* A step that has nothing to do with segments attaches and detaches nothing.
LEMMA ServerUnchanged ==
  ASSUME Counts, UNCHANGED serverVars
  PROVE  Still
<1>1. UNCHANGED <<segments, shm_ids, shm_atts>>
  BY DEF serverVars
<1> QED BY <1>1 DEF Still, Counts, Existing, Exists, Attachments, Live

\* new_segment
LEMMA NewStill ==
  ASSUME SegmentIds, Counts, NEW t, NEW k, NewSegment(t, k)
  PROVE  Still
<1>1. PICK i \in intids : ~Exists(i) /\ segments' = [segments EXCEPT ![i] = SegmentOf(i, sequence', k)]
  BY DEF NewSegment
<1>2. sequence' \in 1 .. MaxSequence /\ shm_ids' = shm_ids + 1 /\ shm_atts' = shm_atts
  BY IdAssumption DEF NewSegment, SegmentIds
<1>3. PICK q : q = SegmentOf(i, sequence', k)
  OBVIOUS
<1>4. /\ Exact(q) /\ Identified(i, q) /\ q # NoSegment /\ q.nattch = 0
      /\ \A a \in Address : q.refcnt[a] = 0
  BY <1>2, <1>3, MadeExact
<1>5. segments[i] = NoSegment /\ segments[i].nattch = 0 /\ \A a \in Address : segments[i].refcnt[a] = 0
  BY <1>1, NoSegmentExact DEF Exists
<1>6. Replaced(i, q)
  <2>1. shm_atts \in Int
    BY <1>5, IntidsFinite, TotalType DEF Counts, Exact, Shape
  <2>2. shm_ids \in Int
    BY IntidsFinite, FS_Subset, FS_CardinalityType DEF Counts, Existing
  <2> QED BY <1>1, <1>2, <1>3, <1>4, <1>5, <2>1, <2>2 DEF Replaced, Counted
<1> QED BY <1>4, <1>5, <1>6, ReplacedStill

\* The totals are numbers.
LEMMA CountTypes ==
  ASSUME Counts
  PROVE  shm_atts \in Int /\ shm_ids \in Int
<1> DEFINE f == [j \in intids |-> segments[j].nattch]
<1>1. \A j \in intids : f[j] \in Nat
  BY DEF Counts, Exact, Shape
<1>2. Total(f, intids) \in Nat
  <2> HIDE DEF f
  <2> QED BY <1>1, IntidsFinite, TotalType
<1>3. Cardinality(Existing) \in Nat
  BY IntidsFinite, FS_Subset, FS_CardinalityType DEF Existing
<1> QED BY <1>2, <1>3 DEF Counts

\* segment_t::attach
LEMMA AttachEffect ==
  ASSUME SegmentIds, Counts, NEW i \in Existing, ~Wraps(i), NEW a \in Address,
         segments' = [segments EXCEPT ![i].nattch = @ + 1, ![i].refcnt[a] = @ + 1],
         shm_atts' = shm_atts + 1, shm_ids' = shm_ids
  PROVE  Effect(i, a, 1)
<1>1. PICK r : r = segments[i]
  OBVIOUS
<1>2. i \in intids /\ r # NoSegment /\ Exact(r) /\ Identified(i, r) /\ r.nattch \in Nat
  BY <1>1 DEF Existing, Exists, Counts, Exact, Shape
<1>3. PICK q : q = [r EXCEPT !.nattch = @ + 1, !.refcnt[a] = @ + 1]
  OBVIOUS
<1>4. segments' = [segments EXCEPT ![i] = q]
  BY <1>1, <1>2, <1>3 DEF SegmentIds
<1>5. /\ Exact(q) /\ q.shmid = r.shmid /\ q.nattch = r.nattch + 1
      /\ \A b \in Address : q.refcnt[b] = r.refcnt[b] + One(b = a)
  <2>1. AttachedOf(q, r, a)
    BY <1>2, <1>3, AttachedExact
  <2> QED BY <2>1 DEF AttachedOf
<1>6. q # NoSegment
  BY <1>2, <1>5, NoSegmentExact, IdsFinite DEF Identified
<1>7. Replaced(i, q)
  <2>1. shm_atts' = shm_atts + q.nattch - segments[i].nattch
    BY <1>1, <1>2, <1>5, CountTypes
  <2>2. shm_ids' = shm_ids + Counted(q) - Counted(segments[i])
    BY <1>1, <1>2, <1>6, CountTypes DEF Counted
  <2>3. Identified(i, q)
    BY <1>2, <1>5 DEF Identified
  <2> QED BY <1>4, <1>5, <2>1, <2>2, <2>3 DEF Replaced
<1>8. \A b \in Address : q.refcnt[b] = segments[i].refcnt[b] + (IF b = a THEN 1 ELSE 0)
  BY <1>1, <1>5 DEF One
<1> QED BY <1>1, <1>2, <1>5, <1>7, <1>8, ReplacedEffect

\* segment_t::detach
LEMMA DetachEffect ==
  ASSUME SegmentIds, Counts, NEW i \in Existing, NEW a \in Address,
         segments[i].refcnt[a] > 0, DetachedFrom(i, a)
  PROVE  Effect(i, a, -1)
<1>1. PICK r : r = segments[i]
  OBVIOUS
<1>2. i \in intids /\ r # NoSegment /\ Exact(r) /\ Identified(i, r) /\ r.nattch \in Nat
      /\ r.refcnt[a] > 0 /\ ~Wraps(i) /\ \A b \in Address : r.refcnt[b] \in Nat
  <2>1. i \in intids /\ r # NoSegment /\ Exact(r) /\ Identified(i, r) /\ r.nattch \in Nat
        /\ r.refcnt[a] > 0 /\ \A b \in Address : r.refcnt[b] \in Nat
    BY <1>1 DEF Existing, Exists, Counts, Exact, Shape
  <2> QED BY <2>1 DEF Identified
<1>3. PICK p : p = [r EXCEPT !.nattch = @ - 1, !.refcnt[a] = @ - 1]
  OBVIOUS
<1>4. /\ Shape(p) /\ p.nattch = Total(p.refcnt, Address)
      /\ p.shmid = r.shmid /\ p.nattch = r.nattch - 1
      /\ \A b \in Address : p.refcnt[b] = r.refcnt[b] - One(b = a)
  <2>1. DetachedOf(p, r, a)
    BY <1>2, <1>3, DetachedExact
  <2> QED BY <2>1 DEF DetachedOf
<1>5. /\ segments' = [segments EXCEPT ![i] = IF p.deleted /\ p.nattch = 0 THEN NoSegment ELSE p]
      /\ shm_ids' = IF p.deleted /\ p.nattch = 0 THEN shm_ids - 1 ELSE shm_ids
      /\ shm_atts' = shm_atts - 1
  BY <1>1, <1>3 DEF DetachedFrom
<1>6. p # NoSegment
  BY <1>2, <1>4, NoSegmentExact, IdsFinite DEF Identified
<1>7. \A b \in Address : p.refcnt[b] = segments[i].refcnt[b] + (IF b = a THEN -1 ELSE 0)
  BY <1>1, <1>2, <1>4 DEF One
<1>8. CASE p.deleted /\ p.nattch = 0
  <2>1. ASSUME NEW b \in Address PROVE p.refcnt[b] = 0
    <3>1. p.refcnt[b] <= Total(p.refcnt, Address) /\ p.refcnt[b] \in Nat
      BY <1>4, TotalBound, CacheAssumption DEF Shape
    <3> QED BY <1>4, <1>8, <3>1
  <2>2. Replaced(i, NoSegment)
    <3>1. shm_atts' = shm_atts + NoSegment.nattch - segments[i].nattch
      BY <1>1, <1>2, <1>4, <1>5, <1>8, NoSegmentExact, CountTypes
    <3>2. shm_ids' = shm_ids + Counted(NoSegment) - Counted(segments[i])
      BY <1>1, <1>2, <1>5, <1>8, CountTypes DEF Counted
    <3>3. Identified(i, NoSegment)
      BY DEF Identified
    <3>4. segments' = [segments EXCEPT ![i] = NoSegment]
      BY <1>5, <1>8
    <3> QED BY <3>1, <3>2, <3>3, <3>4, NoSegmentExact DEF Replaced
  <2>3. \A b \in Address : NoSegment.refcnt[b] = segments[i].refcnt[b] + (IF b = a THEN -1 ELSE 0)
    BY <1>7, <2>1, NoSegmentExact
  <2> QED BY <1>2, <2>2, <2>3, NoSegmentExact, ReplacedEffect
<1>9. CASE ~(p.deleted /\ p.nattch = 0)
  <2>1. Exact(p)
    <3>1. p.deleted => p.nattch # 0
      BY <1>9, Zenon
    <3>2. PICK m \in Nat : m = p.nattch
      BY <1>4, Zenon DEF Shape
    <3>3. p.nattch # 0 => p.nattch > 0
      BY <3>2
    <3> QED BY <1>4, <3>1, <3>3, Zenon DEF Exact
  <2>2. Replaced(i, p)
    <3>1. shm_atts' = shm_atts + p.nattch - segments[i].nattch
      BY <1>1, <1>2, <1>4, <1>5, CountTypes
    <3>2. segments' = [segments EXCEPT ![i] = p] /\ shm_ids' = shm_ids
      BY <1>5, <1>9
    <3>3. shm_ids' = shm_ids + Counted(p) - Counted(segments[i])
      BY <1>1, <1>2, <1>6, <3>2, CountTypes DEF Counted
    <3>4. Identified(i, p)
      BY <1>2, <1>4 DEF Identified
    <3> QED BY <2>1, <3>1, <3>2, <3>3, <3>4 DEF Replaced
  <2> QED BY <1>1, <1>2, <1>4, <1>7, <2>2, ReplacedEffect
<1> QED BY <1>8, <1>9

\* IPC_RMID
LEMMA RmidStill ==
  ASSUME SegmentIds, Counts, NEW t, ShmctlRmid(t)
  PROVE  Still
<1>1. PICK i \in Existing : i = Ext2Int(request[t].shmid)
  BY DEF ShmctlRmid, Found
<1>2. PICK r : r = segments[i]
  OBVIOUS
<1>3. i \in intids /\ r # NoSegment /\ Exact(r) /\ Identified(i, r) /\ r.nattch \in Nat
  BY <1>2 DEF Existing, Exists, Counts, Exact, Shape
<1>4. shm_atts' = shm_atts
  BY DEF ShmctlRmid
<1>5. CASE r.nattch = 0
  <2>1. segments' = [segments EXCEPT ![i] = NoSegment] /\ shm_ids' = shm_ids - 1
    BY <1>1, <1>2, <1>5 DEF ShmctlRmid
  <2>2. Replaced(i, NoSegment)
    BY <1>2, <1>3, <1>4, <1>5, <2>1, NoSegmentExact, CountTypes
       DEF Replaced, Identified, Counted
  <2>3. \A b \in Address : NoSegment.refcnt[b] = segments[i].refcnt[b]
    BY <1>2, <1>3, <1>5, NobodyAttached, NoSegmentExact
  <2> QED BY <1>3, <2>2, <2>3, NoSegmentExact, ReplacedStill
<1>6. CASE r.nattch # 0
  <2>1. segments' = [segments EXCEPT ![i].deleted = TRUE] /\ shm_ids' = shm_ids
    BY <1>1, <1>2, <1>6 DEF ShmctlRmid
  <2>2. PICK q : q = [r EXCEPT !.deleted = TRUE]
    OBVIOUS
  <2>3. segments' = [segments EXCEPT ![i] = q]
    BY <1>2, <1>3, <2>1, <2>2 DEF SegmentIds
  <2>4. /\ Exact(q) /\ q.shmid = r.shmid /\ q.nattch = r.nattch /\ q.refcnt = r.refcnt
    BY <1>3, <1>6, <2>2, MarkedExact
  <2>5. q # NoSegment
    BY <1>3, <2>4, NoSegmentExact, IdsFinite DEF Identified
  <2>6. Replaced(i, q)
    <3>1. shm_atts' = shm_atts + q.nattch - segments[i].nattch
      BY <1>2, <1>3, <1>4, <2>4, CountTypes
    <3>2. shm_ids' = shm_ids + Counted(q) - Counted(segments[i])
      BY <1>2, <1>3, <2>1, <2>5, CountTypes DEF Counted
    <3>3. Identified(i, q)
      BY <1>3, <2>4 DEF Identified
    <3> QED BY <2>3, <2>4, <3>1, <3>2, <3>3 DEF Replaced
  <2> QED BY <1>2, <1>3, <2>4, <2>6, ReplacedStill
<1> QED BY <1>5, <1>6

\* What a thread waits for when a worker has its request
ProtocolOf(t) ==
  /\ cpc[t] = "ended" <=> Ended(Owner[t])
  /\ rpc[t] # "idle" =>
       /\ request[t].op \in {"shmget", "shmat", "shmdt", "rmid"}
       /\ request[t].op # "shmget" => request[t].shmid \in shmids
       /\ request[t].op = "shmdt" => Live(request[t].shmid)
       /\ cpc[t] = "ended" \/ (cpc[t] = "attaching" <=> request[t].op = "shmat")
       /\ cpc[t] # "map"
  /\ cpc[t] = "map" =>
       request[t].op = "shmat" /\ request[t].shmid \in shmids /\ Live(request[t].shmid)

Protocol ==
  /\ DOMAIN request = Thread /\ DOMAIN cpc = Thread
  /\ \A t \in Thread : ProtocolOf(t)

\* The requests that attach and detach nothing, and all that clients do
LEMMA ThreadStill ==
  ASSUME SegmentIds, Counts, NEW t \in Thread,
         \/ Call(t) \/ Keeps(t) \/ MapFails(t) \/ Shmget(t) \/ ShmctlRmid(t) \/ ShmFails(t)
         \/ WorkerGoesOn(t) \/ RefuseAndAnswer(t)
  PROVE  Still
<1>1. CASE \/ Call(t) \/ Keeps(t) \/ MapFails(t) \/ ShmFails(t) \/ WorkerGoesOn(t)
           \/ RefuseAndAnswer(t)
  <2>1. UNCHANGED serverVars
    BY <1>1 DEF Call, CallShmget, CallShmat, CallShmdt, CallRmid, Asks, Keeps, MapFails, ShmFails,
                WorkerGoesOn, RefuseAndAnswer
  <2> QED BY <2>1, ServerUnchanged
<1>2. CASE Shmget(t)
  <2>1. (\E k : NewSegment(t, k)) \/ UNCHANGED serverVars
    BY <1>2 DEF Shmget
  <2> QED BY <2>1, NewStill, ServerUnchanged
<1> QED BY <1>1, <1>2, RmidStill

\* The same for the rest of the server
LEMMA OtherStill ==
  ASSUME Counts,
         \/ SubmitterGoesOn
         \/ \E c \in Client, how \in Statuses : ClientExit(c, how)
         \/ \E a \in Address : (Cleanup(a) \/ Delete(a)) /\ UNCHANGED serverVars
         \/ Aside
  PROVE  Still
<1>1. UNCHANGED serverVars
  BY DEF SubmitterGoesOn, ClientExit, Aside
<1> QED BY <1>1, ServerUnchanged

\* What shmat attaches,
LEMMA ShmatEffect ==
  ASSUME IInv, SegmentIds, Counts, Protocol, NEW t \in Thread, Shmat(t)
  PROVE  /\ Ext2Int(request[t].shmid) \in Existing /\ obj[t] \in Address
         /\ Effect(Ext2Int(request[t].shmid), obj[t], 1)
<1>1. PICK i \in Existing : i = Ext2Int(request[t].shmid)
  BY DEF Shmat, Found
<1>0. ~Wraps(i)
  <2>1. request[t].shmid \in shmids
    BY DEF Shmat, Asked, Protocol, ProtocolOf
  <2> QED BY <1>1, <2>1, IdsFinite DEF Live, Existing
<1>2. PICK a \in Address : a = obj[t]
  BY DEF Shmat, Asked, IInv, Held
<1>3. segments' = [segments EXCEPT ![i].nattch = @ + 1, ![i].refcnt[a] = @ + 1]
      /\ shm_atts' = shm_atts + 1 /\ shm_ids' = shm_ids
  BY <1>1, <1>2 DEF Shmat, client
<1> QED BY <1>0, <1>1, <1>2, <1>3, AttachEffect

\* what shmdt detaches,
LEMMA ShmdtEffect ==
  ASSUME IInv, SegmentIds, Counts, NEW t \in Thread, Shmdt(t)
  PROVE  /\ Ext2Int(request[t].shmid) \in Existing /\ obj[t] \in Address
         /\ segments[Ext2Int(request[t].shmid)].refcnt[obj[t]] > 0
         /\ Effect(Ext2Int(request[t].shmid), obj[t], -1)
<1>1. PICK i \in Existing : i = Ext2Int(request[t].shmid)
  BY DEF Shmdt, Found
<1>2. PICK a \in Address : a = obj[t]
  BY DEF Shmdt, Asked, IInv, Held
<1>3. segments[i].refcnt[a] > 0 /\ DetachedFrom(i, a)
  BY <1>1, <1>2 DEF Shmdt, client
<1> QED BY <1>1, <1>2, <1>3, DetachEffect

\* and what a cleanup routine does.
LEMMA CleanupEffect ==
  ASSUME SegmentIds, Counts, NEW a \in Address, CleanupAttachment(a),
         NEW i, i = Ext2Int(Head(routines[a]))
  PROVE  \/ i \in Existing /\ segments[i].refcnt[a] > 0 /\ Effect(i, a, -1)
         \/ (i \in Existing => segments[i].refcnt[a] = 0) /\ Still
<1>1. CASE i \in Existing /\ segments[i].refcnt[a] > 0
  <2>1. DetachedFrom(i, a)
    BY <1>1 DEF CleanupAttachment
  <2> QED BY <1>1, <2>1, DetachEffect
<1>2. CASE ~(i \in Existing /\ segments[i].refcnt[a] > 0)
  <2>1. UNCHANGED serverVars
    BY <1>2 DEF CleanupAttachment
  <2>2. i \in Existing => segments[i].refcnt[a] \in Nat
    BY RefcntType DEF Existing
  <2> QED BY <1>2, <2>1, <2>2, ServerUnchanged
<1> QED BY <1>1, <1>2

\* Every step keeps the counts.
LEMMA CountsStep == IInv /\ SegmentIds /\ Counts /\ Protocol /\ [ShmNext]_shmVars => Counts'
<1> SUFFICES ASSUME IInv, SegmentIds, Counts, Protocol, StepKind PROVE Counts'
  BY StepKinds
<1>1. ASSUME NEW t \in Thread, Shmat(t) \/ Shmdt(t) PROVE Counts'
  BY <1>1, ShmatEffect, ShmdtEffect DEF Effect
<1>2. ASSUME NEW a \in Address, CleanupAttachment(a) PROVE Counts'
  BY <1>2, CleanupEffect DEF Effect, Still
<1>3. ASSUME NEW t \in Thread, Call(t) \/ Keeps(t) \/ MapFails(t) \/ ShmWorker(t) PROVE Counts'
  <2>1. CASE Shmat(t) \/ Shmdt(t)
    BY <1>1, <2>1
  <2>2. CASE ~(Shmat(t) \/ Shmdt(t))
    BY <1>3, <2>2, ThreadStill DEF ShmWorker, ShmServe, Still
  <2> QED BY <2>1, <2>2
<1>4. ASSUME NEW a \in Address, CleanerGoesOn(a) PROVE Counts'
  BY <1>2, <1>4, OtherStill DEF CleanerGoesOn, Still
<1> QED BY <1>3, <1>4, OtherStill DEF StepKind, Still

\* At first there is no segment.
LEMMA CountsInit == ShmInit => Counts
<1> SUFFICES ASSUME ShmInit PROVE Counts
  OBVIOUS
<1>1. \A i \in intids : segments[i] = NoSegment
  BY DEF ShmInit
<1>2. \A i \in intids : Exact(segments[i]) /\ Identified(i, segments[i])
  BY <1>1, NoSegmentExact DEF Identified
<1> DEFINE f == [i \in intids |-> segments[i].nattch]
<1>3. \A i \in intids : f[i] = 0
  BY <1>1, NoSegmentExact
<1>4. Total(f, intids) = 0
  <2> HIDE DEF f
  <2> QED BY <1>3, IntidsFinite, TotalZero
<1>5. Existing = {}
  BY <1>1 DEF Existing, Exists
<1> QED BY <1>2, <1>4, <1>5, FS_EmptySet DEF ShmInit, Counts

-----------------------------------------------------------------------------
(* Attachments and cleanup routines *)

\* There is a routine for every attachment, and while the process is known to run
\* no other: not even for the id of a segment that is gone.
CoveredAt(a, s) ==
  /\ Attachments(a, s) > 0 => state[a] # "free"
  /\ Attachments(a, s) <= RoutinesFor(a, s)
  /\ state[a] = "cached" /\ active[a] => RoutinesFor(a, s) = Attachments(a, s)

Covered == \A a \in Address, s \in shmids : CoveredAt(a, s)

\* The routines of an object for an id, as places in its list (_routines_head)
LEMMA RoutinesPlaces ==
  ASSUME NEW a, NEW s
  PROVE  RoutinesFor(a, s) = Cardinality(Places(routines[a], s))
BY DEF RoutinesFor, Places

\* Neither the attachments nor the routines change.
LEMMA CoveredFrame ==
  ASSUME NEW a, NEW s, CoveredAt(a, s), Attachments(a, s)' = Attachments(a, s),
         routines'[a] = routines[a],
         state'[a] = "free" => state[a] = "free",
         state'[a] = "cached" /\ active'[a] => state[a] = "cached" /\ active[a]
  PROVE  CoveredAt(a, s)'
<1>1. RoutinesFor(a, s)' = RoutinesFor(a, s)
  BY RoutinesPlaces DEF RoutinesFor
<1>2. Attachments(a, s)' > 0 => state'[a] # "free"
  BY DEF CoveredAt
<1>3. Attachments(a, s)' <= RoutinesFor(a, s)'
  BY <1>1 DEF CoveredAt
<1>4. state'[a] = "cached" /\ active'[a] => RoutinesFor(a, s)' = Attachments(a, s)'
  BY <1>1, Zenon DEF CoveredAt
<1> QED BY <1>2, <1>3, <1>4 DEF CoveredAt

\* The process at a is attached to the segment with the id s once more or less.
\* If a routine comes or goes with that, it is for this id, and one goes with it
\* when the process is known to run.
LEMMA CoveredEffect ==
  ASSUME IInv, Counts, Covered, NEW i \in Existing, NEW a \in Address, NEW d \in Int,
         Effect(i, a, d), NEW e \in Int,
         UNCHANGED <<state, active>>, state[a] # "free",
         \A b \in Address : b # a => routines'[b] = routines[b],
         \A s \in shmids : RoutinesFor(a, s)'
                             = RoutinesFor(a, s) + (IF s = segments[i].shmid THEN e ELSE 0),
         d <= e,
         state[a] = "cached" /\ active[a] => d = e
  PROVE  Covered'
<1>1. ASSUME NEW b \in Address, NEW s \in shmids, b # a \/ s # segments[i].shmid
      PROVE  Attachments(b, s)' = Attachments(b, s)
  BY <1>1, RefcntType DEF Effect
<1>2. ASSUME NEW b \in Address, NEW s \in shmids, b # a PROVE CoveredAt(b, s)'
  BY <1>1, <1>2, CoveredFrame DEF Covered
<1>3. ASSUME NEW s \in shmids PROVE CoveredAt(a, s)'
  <2>1. PICK n \in Nat : n = RoutinesFor(a, s)
    BY PlacesFinite, RoutinesPlaces DEF IInv, TypeOK
  <2>2. PICK m \in Nat : m = Attachments(a, s)
    BY RefcntType
  <2>3. m <= n /\ (state[a] = "cached" /\ active[a] => n = m)
    BY <2>1, <2>2 DEF Covered, CoveredAt
  <2>4. RoutinesFor(a, s)' = n + (IF s = segments[i].shmid THEN e ELSE 0)
    BY <2>1
  <2>5. Attachments(a, s)' = m + (IF s = segments[i].shmid THEN d ELSE 0)
    BY <2>2 DEF Effect
  <2>6. Attachments(a, s)' <= RoutinesFor(a, s)'
    BY <2>3, <2>4, <2>5
  <2>7. ASSUME state[a] = "cached" /\ active[a] PROVE RoutinesFor(a, s)' = Attachments(a, s)'
    BY <2>3, <2>4, <2>5, <2>7
  <2> QED BY <2>6, <2>7 DEF CoveredAt
<1> QED BY <1>2, <1>3 DEF Covered

\* shmat
LEMMA ShmatCovered ==
  ASSUME IInv, SegmentIds, Counts, Protocol, Covered, NEW t \in Thread, Shmat(t)
  PROVE  Covered'
<1>1. PICK i \in Existing : i = Ext2Int(request[t].shmid)
  BY ShmatEffect
<1>2. PICK a \in Address : a = obj[t]
  BY ShmatEffect
<1>3. Effect(i, a, 1)
  BY <1>1, <1>2, ShmatEffect
<1>4. PICK k \in shmids : k = segments[i].shmid
  BY DEF Counts, Identified, Existing, Exists
<1>5. /\ UNCHANGED <<state, active>> /\ state[a] # "free"
      /\ routines' = [routines EXCEPT ![a] = <<k>> \o @]
  BY <1>1, <1>2, <1>4 DEF Shmat, Asked, AddRoutine, Served, IInv, Held
<1>6. routines \in [Address -> Seq(shmids)]
  BY KeysAreIds DEF IInv, TypeOK
<1>7. routines'[a] = <<k>> \o routines[a] /\ \A b \in Address : b # a => routines'[b] = routines[b]
  BY <1>5, <1>6
<1>8. ASSUME NEW s \in shmids
      PROVE  RoutinesFor(a, s)' = RoutinesFor(a, s) + (IF s = segments[i].shmid THEN 1 ELSE 0)
  <2>1. PICK p \in Seq(shmids) : p = routines[a]
    BY <1>6
  <2>2. Cardinality(Places(<<k>> \o p, s)) = Cardinality(Places(p, s)) + (IF k = s THEN 1 ELSE 0)
    BY PlacesAdd
  <2>3. RoutinesFor(a, s)' = Cardinality(Places(<<k>> \o p, s))
    BY <1>7, <2>1 DEF RoutinesFor, Places
  <2>4. RoutinesFor(a, s) = Cardinality(Places(p, s))
    BY <2>1, RoutinesPlaces
  <2> QED BY <1>4, <2>2, <2>3, <2>4
<1>9. PICK d \in Int : d = 1
  OBVIOUS
<1> QED BY <1>3, <1>5, <1>7, <1>8, <1>9, CoveredEffect

\* shmdt: the routine of a process that has ended may stay.
LEMMA ShmdtCovered ==
  ASSUME IInv, SegmentIds, Counts, Covered, NEW t \in Thread, Shmdt(t)
  PROVE  Covered'
<1>1. PICK i \in Existing : i = Ext2Int(request[t].shmid)
  BY ShmdtEffect
<1>2. PICK a \in Address : a = obj[t]
  BY ShmdtEffect
<1>3. Effect(i, a, -1) /\ segments[i].refcnt[a] > 0
  BY <1>1, <1>2, ShmdtEffect
<1>4. PICK k \in shmids : k = segments[i].shmid /\ Ext2Int(k) = i /\ Live(k)
  BY <1>2, <1>3 DEF Counts, Identified, Existing, Exists, Live
<1>5. /\ UNCHANGED <<state, active>> /\ state[a] \in {"cached", "queued"}
      /\ state[a] = "queued" => ~active[a]
  BY <1>2 DEF Shmdt, Asked, RemoveRoutine, ServeOther, Served, IInv, Held, Exited
<1>6. routines \in [Address -> Seq(shmids)]
  BY KeysAreIds DEF IInv, TypeOK
<1>7. CASE active[a]
  <2>1. PICK p \in Seq(shmids) : p = routines[a]
    BY <1>6
  <2>2. RoutinesFor(a, k) > 0
    <3>1. Attachments(a, k) = segments[i].refcnt[a]
      BY <1>4 DEF Attachments
    <3>2. state[a] = "cached"
      BY <1>5, <1>7
    <3> QED BY <1>3, <1>7, <3>1, <3>2 DEF Covered, CoveredAt
  <2>3. \E n \in 1 .. Len(p) : p[n] = k
    <3>1. Cardinality(Places(p, k)) # 0
      BY <2>1, <2>2, RoutinesPlaces
    <3>2. Places(p, k) # {}
      BY <3>1, FS_EmptySet, Zenon
    <3> QED BY <3>2 DEF Places
  <2>4. PICK n \in 1 .. Len(p) : p[n] = k /\ routines' = [routines EXCEPT ![a] = Without(p, n)]
    <3>1. RemoveRoutine(t, k)
      BY <1>1, <1>2, <1>4, <1>7 DEF Shmdt, client
    <3>2. \/ \E n \in 1 .. Len(p) :
               IsFirst(p, k, n) /\ routines' = [routines EXCEPT ![a] = Without(p, n)]
          \/ state[a] = "cleaning"
          \/ \A n \in 1 .. Len(p) : p[n] # k
      BY <1>2, <2>1, <3>1 DEF RemoveRoutine
    <3> QED BY <1>5, <2>3, <3>2 DEF IsFirst
  <2>5. routines'[a] = Without(p, n) /\ \A b \in Address : b # a => routines'[b] = routines[b]
    BY <1>6, <2>4
  <2>6. ASSUME NEW s \in shmids
        PROVE  RoutinesFor(a, s)' = RoutinesFor(a, s) + (IF s = segments[i].shmid THEN -1 ELSE 0)
    <3>1. /\ Cardinality(Places(Without(p, n), s)) \in Nat
          /\ Cardinality(Places(p, s))
               = Cardinality(Places(Without(p, n), s)) + (IF p[n] = s THEN 1 ELSE 0)
      BY PlacesWithout
    <3>2. RoutinesFor(a, s)' = Cardinality(Places(Without(p, n), s))
      BY <2>5 DEF RoutinesFor, Places
    <3>3. RoutinesFor(a, s) = Cardinality(Places(p, s))
      BY <2>1, RoutinesPlaces
    <3> QED BY <1>4, <2>4, <3>1, <3>2, <3>3
  <2>7. PICK d \in Int : d = -1
    OBVIOUS
  <2> QED BY <1>3, <1>5, <2>5, <2>6, <2>7, CoveredEffect
<1>8. CASE ~active[a]
  <2>1. UNCHANGED routines
    BY <1>2, <1>8 DEF Shmdt, client, ServeOther
  <2>2. ASSUME NEW s \in shmids
        PROVE  RoutinesFor(a, s)' = RoutinesFor(a, s) + (IF s = segments[i].shmid THEN 0 ELSE 0)
    <3>1. RoutinesFor(a, s) \in Nat
      BY <1>6, PlacesFinite, RoutinesPlaces
    <3> QED BY <2>1, <3>1 DEF RoutinesFor
  <2>3. PICK d \in Int, e \in Int : d = -1 /\ e = 0
    OBVIOUS
  <2>4. /\ d <= e /\ (state[a] = "cached" /\ active[a] => d = e)
        /\ \A b \in Address : b # a => routines'[b] = routines[b]
        /\ \A s \in shmids : RoutinesFor(a, s)'
                               = RoutinesFor(a, s) + (IF s = segments[i].shmid THEN e ELSE 0)
    BY <1>8, <2>1, <2>2, <2>3
  <2> QED BY <1>3, <1>5, <2>3, <2>4, CoveredEffect
<1> QED BY <1>7, <1>8

\* A routine runs.  The segment it finds may have another id by now: then its own
\* attachments of the process have been detached before.
LEMMA CleanupCovered ==
  ASSUME IInv, SegmentIds, Counts, Covered, NEW a \in Address, CleanupAttachment(a)
  PROVE  Covered'
<1>1. PICK p \in Seq(shmids) : p = routines[a]
  BY KeysAreIds DEF IInv, TypeOK
<1>2. /\ state[a] = "cleaning" /\ p # <<>> /\ UNCHANGED <<state, active>>
      /\ routines' = [routines EXCEPT ![a] = Tail(p)]
  BY <1>1 DEF CleanupAttachment, RunRoutine
<1>3. routines'[a] = Tail(p) /\ \A b \in Address : b # a => routines'[b] = routines[b]
  BY <1>2 DEF IInv, TypeOK
<1>4. PICK k \in shmids : k = Head(p)
  BY <1>2
<1>5. PICK i : i = Ext2Int(k)
  OBVIOUS
<1>6. \/ i \in Existing /\ segments[i].refcnt[a] > 0 /\ Effect(i, a, -1)
      \/ (i \in Existing => segments[i].refcnt[a] = 0) /\ Still
  BY <1>1, <1>4, <1>5, CleanupEffect
<1>7. ASSUME NEW b \in Address, NEW s \in shmids, b # a PROVE CoveredAt(b, s)'
  <2>1. Attachments(b, s)' = Attachments(b, s)
    BY <1>6, <1>7, RefcntType DEF Effect, Still
  <2> QED BY <1>2, <1>3, <1>7, <2>1, CoveredFrame DEF Covered
<1>8. ASSUME NEW s \in shmids PROVE CoveredAt(a, s)'
  <2>1. PICK n \in Nat : n = RoutinesFor(a, s)'
    <3>1. Cardinality(Places(Tail(p), s)) \in Nat
      BY <1>2, PlacesTail
    <3> QED BY <1>3, <3>1 DEF RoutinesFor, Places
  <2>2. RoutinesFor(a, s) = n + (IF k = s THEN 1 ELSE 0)
    <3>1. Cardinality(Places(p, s)) = Cardinality(Places(Tail(p), s)) + (IF Head(p) = s THEN 1 ELSE 0)
      BY <1>2, PlacesTail
    <3>2. n = Cardinality(Places(Tail(p), s))
      BY <1>3, <2>1 DEF RoutinesFor, Places
    <3>3. RoutinesFor(a, s) = Cardinality(Places(p, s))
      BY <1>1, RoutinesPlaces
    <3> QED BY <1>4, <3>1, <3>2, <3>3
  <2>3. PICK m \in Nat : m = Attachments(a, s)
    BY RefcntType
  <2>4. m <= RoutinesFor(a, s)
    BY <2>3 DEF Covered, CoveredAt
  <2>5. PICK g \in Int : g = Attachments(a, s)' /\ g <= m
    <3>1. CASE Still
      BY <2>3, <3>1 DEF Still
    <3>2. CASE Effect(i, a, -1)
      <4>1. Attachments(a, s)' = m + (IF s = segments[i].shmid THEN -1 ELSE 0)
        BY <2>3, <3>2 DEF Effect
      <4> QED BY <4>1
    <3> QED BY <1>6, <3>1, <3>2
  <2>6. g <= n
    <3>1. CASE k # s
      BY <2>2, <2>4, <2>5, <3>1
    <3>2. CASE k = s
      <4>1. m = IF i \in intids /\ segments[i].shmid = s THEN segments[i].refcnt[a] ELSE 0
        BY <1>5, <2>3, <3>2 DEF Attachments, Live
      <4>2. i \in intids /\ segments[i].shmid = s => i \in Existing
        BY NoSegmentExact, IdsFinite DEF Existing, Exists
      <4>3. CASE m = 0
        BY <2>5, <4>3
      <4>4. CASE m # 0
        <5>1. segments[i].shmid = s /\ i \in Existing /\ segments[i].refcnt[a] # 0
          BY <4>1, <4>2, <4>4
        <5>2. Effect(i, a, -1)
          BY <1>6, <5>1
        <5>3. Attachments(a, s)' = m - 1
          BY <2>3, <5>1, <5>2 DEF Effect
        <5> QED BY <2>2, <2>4, <2>5, <3>2, <5>3
      <4> QED BY <4>3, <4>4
    <3> QED BY <3>1, <3>2
  <2> QED BY <1>2, <2>1, <2>5, <2>6 DEF CoveredAt
<1> QED BY <1>7, <1>8 DEF Covered

\* The steps that leave all attachments as they are
LEMMA StillCovered ==
  ASSUME Counts, Covered, Still, UNCHANGED routines,
         \A a \in Address : state'[a] = "free" => state[a] = "free",
         \A a \in Address : state'[a] = "cached" /\ active'[a] => state[a] = "cached" /\ active[a]
  PROVE  Covered'
<1>1. ASSUME NEW a \in Address, NEW s \in shmids PROVE CoveredAt(a, s)'
  BY CoveredFrame DEF Covered, Still
<1> QED BY <1>1 DEF Covered

\* A new object has neither routines nor attachments.
LEMMA CreateCovered ==
  ASSUME IInv, Counts, Covered, Still, NEW t \in Thread, NEW a \in Address, Create(t, a)
  PROVE  Covered'
<1>1. /\ state[a] = "free" /\ routines'[a] = <<>> /\ state'[a] = "cached"
      /\ \A b \in Address : b # a => /\ routines'[b] = routines[b] /\ state'[b] = state[b]
                                     /\ active'[b] = active[b]
  BY DEF Create, IInv, TypeOK
<1>2. ASSUME NEW s \in shmids PROVE CoveredAt(a, s)'
  <2>1. Attachments(a, s)' = 0
    BY <1>1, RefcntType DEF Still, Covered, CoveredAt
  <2>2. RoutinesFor(a, s)' = 0
    <3>1. {n \in DOMAIN routines'[a] : routines'[a][n] = s} = {}
      BY <1>1
    <3> QED BY <3>1, FS_EmptySet DEF RoutinesFor
  <2> QED BY <1>1, <2>1, <2>2 DEF CoveredAt
<1>3. ASSUME NEW b \in Address, NEW s \in shmids, b # a PROVE CoveredAt(b, s)'
  BY <1>1, <1>3, CoveredFrame DEF Covered, Still
<1> QED BY <1>2, <1>3 DEF Covered

\* An object that has no routine left is attached to nothing.
LEMMA DeleteCovered ==
  ASSUME IInv, Counts, Covered, Still, NEW a \in Address, Delete(a)
  PROVE  Covered' /\ \A s \in shmids : Attachments(a, s) = 0
<1>1. /\ state[a] = "cleaning" /\ routines[a] = <<>> /\ UNCHANGED <<routines, active>>
      /\ state'[a] = "free" /\ \A b \in Address : b # a => state'[b] = state[b]
  BY DEF Delete, IInv, TypeOK
<1>2. ASSUME NEW s \in shmids PROVE Attachments(a, s) = 0 /\ RoutinesFor(a, s) = 0
  <2>1. {n \in DOMAIN routines[a] : routines[a][n] = s} = {}
    BY <1>1
  <2>2. RoutinesFor(a, s) = 0
    BY <2>1, FS_EmptySet DEF RoutinesFor
  <2> QED BY <2>2, RefcntType DEF Covered, CoveredAt
<1>3. ASSUME NEW s \in shmids PROVE CoveredAt(a, s)'
  <2>1. Attachments(a, s)' = 0 /\ RoutinesFor(a, s)' = 0
    BY <1>1, <1>2 DEF Still, RoutinesFor
  <2> QED BY <1>1, <2>1 DEF CoveredAt
<1>4. ASSUME NEW b \in Address, NEW s \in shmids, b # a PROVE CoveredAt(b, s)'
  BY <1>1, <1>4, CoveredFrame DEF Covered, Still
<1> QED BY <1>2, <1>3, <1>4 DEF Covered

\* Every step keeps the attachments covered.
LEMMA CoveredStep ==
  IInv /\ SegmentIds /\ Counts /\ Protocol /\ Covered /\ [ShmNext]_shmVars => Covered'
<1> SUFFICES ASSUME IInv, SegmentIds, Counts, Protocol, Covered, StepKind PROVE Covered'
  BY StepKinds
<1>1. ASSUME Still, UNCHANGED <<routines, state>>,
             UNCHANGED active \/ \E a \in Address : active' = [active EXCEPT ![a] = FALSE]
      PROVE  Covered'
  <2>1. \A a \in Address : active'[a] => active[a]
    BY <1>1, Zenon DEF IInv, TypeOK
  <2> QED BY <1>1, <2>1, StillCovered
<1>2. ASSUME NEW t \in Thread, Call(t) \/ Keeps(t) \/ MapFails(t) \/ ShmWorker(t) PROVE Covered'
  <2>1. CASE Shmat(t) \/ Shmdt(t)
    BY <2>1, ShmatCovered, ShmdtCovered
  <2>2. CASE Call(t) \/ Keeps(t) \/ MapFails(t) \/ Shmget(t) \/ ShmctlRmid(t) \/ ShmFails(t)
             \/ RefuseAndAnswer(t)
    <3>1. Still
      BY <2>2, ThreadStill
    <3>2. UNCHANGED <<routines, state, active>>
      <4>1. CASE Call(t) \/ MapFails(t)
        BY <4>1 DEF Call, CallShmget, CallShmat, CallShmdt, CallRmid, MapFails, Asks, Arrive, objectVars
      <4>2. CASE Keeps(t)
        BY <4>2 DEF Keeps, vars, objectVars
      <4>3. CASE Shmget(t) \/ ShmctlRmid(t) \/ ShmFails(t)
        BY <4>3 DEF Shmget, ShmctlRmid, ShmFails, ServeOther, Served
      <4>4. CASE RefuseAndAnswer(t)
        BY <4>4 DEF RefuseAndAnswer, Refuse, objectVars
      <4> QED BY <2>2, <4>1, <4>2, <4>3, <4>4
    <3> QED BY <1>1, <3>1, <3>2
  <2>3. CASE WorkerGoesOn(t)
    <3>1. Still
      BY <2>3, ThreadStill
    <3>2. CASE \E a \in Address : Create(t, a)
      BY <3>1, <3>2, CreateCovered
    <3>3. CASE Enter(t) \/ \E a \in Address : Find(t, a)
      <4>1. UNCHANGED <<routines, state, active>>
        BY <3>3 DEF Enter, Find, objectVars
      <4> QED BY <1>1, <3>1, <4>1
    <3> QED BY <2>3, <3>2, <3>3 DEF WorkerGoesOn
  <2> QED BY <1>2, <2>1, <2>2, <2>3 DEF ShmWorker, ShmServe
<1>3. ASSUME NEW c \in Client, NEW how \in Statuses, ClientExit(c, how) PROVE Covered'
  <2>1. UNCHANGED <<routines, state, active>>
    BY <1>3 DEF ClientExit, Exit, objectVars
  <2> QED BY <1>1, <1>3, <2>1, OtherStill
<1>4. CASE SubmitterGoesOn
  <2>1. Still
    BY <1>4, OtherStill
  <2>2. CASE SyncWaitArray \/ ProcessEnded \/ ProcessAdded \/ \E a \in Address : CheckExitCode(a)
    <3>1. UNCHANGED <<routines, state>>
      BY <2>2 DEF SyncWaitArray, ProcessEnded, ProcessAdded, CheckExitCode, objectVars
    <3>2. UNCHANGED active \/ \E a \in Address : active' = [active EXCEPT ![a] = FALSE]
      BY <2>2, Zenon DEF SyncWaitArray, ProcessEnded, ProcessAdded, CheckExitCode, objectVars
    <3> QED BY <1>1, <2>1, <3>1, <3>2
  <2>3. ASSUME NEW a \in Address, RemoveProcess(a) PROVE Covered'
    <3>1. UNCHANGED <<routines, active>> /\ state' = [state EXCEPT ![a] = "queued"]
      BY <2>3 DEF RemoveProcess
    <3>2. \A b \in Address : /\ state'[b] = "free" => state[b] = "free"
                             /\ state'[b] = "cached" => state[b] = "cached"
      BY <3>1 DEF IInv, TypeOK
    <3> QED BY <2>1, <3>1, <3>2, StillCovered
  <2> QED BY <1>4, <2>2, <2>3 DEF SubmitterGoesOn, SubmitterStep
<1>5. ASSUME NEW a \in Address, CleanerGoesOn(a) PROVE Covered'
  <2>1. CASE CleanupAttachment(a)
    BY <2>1, CleanupCovered
  <2>2. CASE Cleanup(a) /\ UNCHANGED serverVars
    <3>1. UNCHANGED <<routines, active>> /\ state' = [state EXCEPT ![a] = "cleaning"]
      BY <2>2 DEF Cleanup
    <3>2. \A b \in Address : /\ state'[b] = "free" => state[b] = "free"
                             /\ state'[b] = "cached" => state[b] = "cached"
      BY <3>1 DEF IInv, TypeOK
    <3> QED BY <2>2, <3>1, <3>2, OtherStill, StillCovered
  <2>3. CASE Delete(a) /\ UNCHANGED serverVars
    BY <2>3, OtherStill, DeleteCovered
  <2> QED BY <1>5, <2>1, <2>2, <2>3 DEF CleanerGoesOn
<1>6. CASE Aside
  <2>1. UNCHANGED <<routines, state, active>>
    BY <1>6 DEF Aside, vars, objectVars
  <2> QED BY <1>1, <1>6, <2>1, OtherStill
<1> QED BY <1>2, <1>3, <1>4, <1>5, <1>6 DEF StepKind

\* At first there are neither attachments nor routines.
LEMMA CoveredInit == ShmInit => Covered
<1> SUFFICES ASSUME ShmInit, NEW a \in Address, NEW s \in shmids PROVE CoveredAt(a, s)
  BY DEF Covered
<1>1. Live(s) => segments[Ext2Int(s)] = NoSegment
  BY DEF ShmInit, Live
<1>2. Attachments(a, s) = 0
  BY <1>1, NoSegmentExact DEF Attachments
<1>3. routines[a] = <<>>
  BY DEF ShmInit, Init
<1>4. {n \in DOMAIN routines[a] : routines[a][n] = s} = {}
  BY <1>3
<1>5. RoutinesFor(a, s) = 0
  BY <1>4, FS_EmptySet DEF RoutinesFor
<1> QED BY <1>2, <1>5 DEF CoveredAt

\* What the invariant says in the words of the properties
LEMMA CountsAreExact == Counts => CountsExact
<1> SUFFICES ASSUME Counts PROVE CountsExact
  OBVIOUS
<1>1. ASSUME NEW i \in Existing
      PROVE  /\ segments[i].nattch = Total(segments[i].refcnt, Address)
             /\ segments[i].deleted => segments[i].nattch > 0
  BY Zenon DEF Counts, Exact, Existing
<1> QED BY <1>1 DEF Counts, CountsExact

\* The invariant speaks of ids, the property of the segments that have them.
LEMMA CoveredAttachments == Counts /\ Covered => AttachmentsCovered
<1> SUFFICES ASSUME Counts, Covered, NEW i \in Existing, NEW a \in Address,
                    NEW m, m = segments[i].refcnt[a],
                    NEW n, n = RoutinesFor(a, segments[i].shmid)
             PROVE  /\ m > 0 => state[a] # "free"
                    /\ IF state[a] = "cached" /\ active[a] THEN n = m ELSE n >= m
  BY DEF AttachmentsCovered
<1>1. PICK s \in shmids : s = segments[i].shmid
  BY DEF Counts, Identified, Existing, Exists
<1>2. m = Attachments(a, s) /\ n = RoutinesFor(a, s)
  <2>1. CASE Wraps(i)
    BY <1>1, <2>1 DEF Attachments, Counts, Identified, Existing, Exists
  <2>2. CASE ~Wraps(i)
    BY <1>1, <2>2 DEF Attachments, Counts, Identified, Existing, Exists, Live
  <2> QED BY <2>1, <2>2
<1>3. CoveredAt(a, s)
  BY DEF Covered
<1>4. m > 0 => state[a] # "free"
  BY <1>2, <1>3 DEF CoveredAt
<1>5. m <= n
  BY <1>2, <1>3 DEF CoveredAt
<1>6. state[a] = "cached" /\ active[a] => n = m
  BY <1>2, <1>3, Zenon DEF CoveredAt
<1> QED BY <1>4, <1>5, <1>6

-----------------------------------------------------------------------------
(* What clients and server know of each other *)

\* The object of a process that runs is in the cache and says so; a deleted object
\* is nobody's.
Truly ==
  \A a \in Address :
    /\ state[a] = "free" => winpid[a] = Null
    /\ winpid[a] \in Client /\ (state[a] = "cached" => ~active[a]) => Ended(winpid[a])

\* Only what is known by its id is attached, and what was not told of is counted.
Lists ==
  /\ untold \in [Client -> [shmids -> Nat]]
  /\ \A c \in Client, s \in shmids : attached[c][s] > untold[c][s] => Live(s)

\* A step of the cache leaves no running process without its object.
LEMMA TrulyStep == IInv /\ Truly /\ [Next]_vars => Truly'
<1> SUFFICES ASSUME IInv, Truly, [Next]_vars, NEW a \in Address
             PROVE  /\ state'[a] = "free" => winpid'[a] = Null
                    /\ winpid'[a] \in Client /\ (state'[a] = "cached" => ~active'[a])
                         => status'[winpid'[a]] # "runs"
  BY DEF Truly, Ended
<1> DEFINE Fine == /\ state'[a] = "free" => winpid'[a] = Null
                   /\ winpid'[a] \in Client /\ (state'[a] = "cached" => ~active'[a])
                        => status'[winpid'[a]] # "runs"
<1>1. /\ state[a] = "free" => winpid[a] = Null
      /\ winpid[a] \in Client /\ (state[a] = "cached" => ~active[a]) => status[winpid[a]] # "runs"
  BY DEF Truly, Ended
<1>2. CASE UNCHANGED <<status, state, winpid, active>>
  BY <1>1, <1>2, Zenon
<1>3. ASSUME NEW t \in Thread, NEW b \in Address, Create(t, b) PROVE Fine
  <2>1. CASE b = a
    <3>1. state'[a] = "cached" /\ active'[a]
      BY <1>3, <2>1 DEF Create, IInv, TypeOK
    <3> QED BY <3>1
  <2>2. CASE b # a
    <3>1. state'[a] = state[a] /\ winpid'[a] = winpid[a] /\ (active'[a] <=> active[a])
          /\ status' = status
      BY <1>3, <2>2 DEF Create, IInv, TypeOK
    <3> QED BY <1>1, <3>1, Zenon
  <2> QED BY <2>1, <2>2
<1>4. ASSUME NEW c \in Client, NEW how \in Statuses, Exit(c, how) PROVE Fine
  <2>1. UNCHANGED <<state, winpid, active>>
    BY <1>4 DEF Exit, objectVars
  <2>2. \A d \in Client : status[d] # "runs" => status'[d] # "runs"
    BY <1>4 DEF Exit, IInv, TypeOK
  <2> QED BY <1>1, <2>1, <2>2, Zenon
<1>5. ASSUME NEW b \in Address, CheckExitCode(b) PROVE Fine
  <2>1. UNCHANGED <<status, state, winpid>>
    BY <1>5 DEF CheckExitCode
  <2>2. b = a \/ (active'[a] <=> active[a])
    BY <1>5 DEF CheckExitCode, IInv, TypeOK
  <2>3. status[winpid[b]] = "exited" \/ (active'[a] <=> active[a])
    BY <1>5 DEF CheckExitCode
  <2>4. CASE active'[a] <=> active[a]
    BY <1>1, <2>1, <2>4, Zenon
  <2>5. CASE status[winpid[a]] = "exited"
    <3>1. status'[winpid'[a]] # "runs"
      BY <2>1, <2>5
    <3> QED BY <1>1, <2>1, <3>1, Zenon
  <2> QED BY <2>2, <2>3, <2>4, <2>5
<1>6. ASSUME NEW b \in Address, RemoveProcess(b) PROVE Fine
  <2>1. UNCHANGED <<status, winpid, active>> /\ state' = [state EXCEPT ![b] = "queued"]
    BY <1>6 DEF RemoveProcess
  <2>2. ~active[b]
    BY <1>6 DEF RemoveProcess, IInv, Exited
  <2>3. state'[a] = IF a = b THEN "queued" ELSE state[a]
    BY <2>1 DEF IInv, TypeOK
  <2>4. state'[a] = "free" => state[a] = "free"
    BY <2>3
  <2>5. (state'[a] = "cached" => ~active[a]) => (state[a] = "cached" => ~active[a])
    BY <2>2, <2>3
  <2> QED BY <1>1, <2>1, <2>4, <2>5, Zenon
<1>7. ASSUME NEW b \in Address, Cleanup(b) PROVE Fine
  <2>1. UNCHANGED <<status, winpid, active>> /\ state' = [state EXCEPT ![b] = "cleaning"]
    BY <1>7 DEF Cleanup
  <2>2. state[b] = "queued"
    BY <1>7 DEF Cleanup
  <2>3. state'[a] = IF a = b THEN "cleaning" ELSE state[a]
    BY <2>1 DEF IInv, TypeOK
  <2>4. state'[a] = "free" => state[a] = "free"
    BY <2>3
  <2>5. (state'[a] = "cached" => ~active[a]) => (state[a] = "cached" => ~active[a])
    BY <2>2, <2>3
  <2> QED BY <1>1, <2>1, <2>4, <2>5, Zenon
<1>8. ASSUME NEW b \in Address, Delete(b) PROVE Fine
  <2>1. UNCHANGED <<status, active>>
    BY <1>8 DEF Delete
  <2>2. CASE b = a
    <3>1. winpid'[a] = Null /\ Null \notin Client
      BY <1>8, <2>2, CacheAssumption DEF Delete, IInv, TypeOK
    <3> QED BY <3>1
  <2>3. CASE b # a
    <3>1. winpid'[a] = winpid[a] /\ state'[a] = state[a]
      BY <1>8, <2>3 DEF Delete, IInv, TypeOK
    <3> QED BY <1>1, <2>1, <3>1, Zenon
  <2> QED BY <2>2, <2>3
<1>9. ASSUME NEW t \in Thread, Arrive(t) \/ Refuse(t) \/ Enter(t) \/ Serve(t)
                                 \/ \E b \in Address : Find(t, b)
      PROVE  Fine
  <2>1. UNCHANGED <<status, state, winpid, active>>
    BY <1>9 DEF Arrive, Refuse, Enter, Serve, ServeOther, AddRoutine, RemoveRoutine, Served,
                Find, objectVars
  <2> QED BY <1>2, <2>1
<1>10. ASSUME SyncWaitArray \/ ProcessEnded \/ ProcessAdded \/ \E b \in Address : RunRoutine(b)
       PROVE  Fine
  <2>1. UNCHANGED <<status, state, winpid, active>>
    BY <1>10 DEF SyncWaitArray, ProcessEnded, ProcessAdded, RunRoutine, objectVars
  <2> QED BY <1>2, <2>1
<1>11. ASSUME UNCHANGED vars PROVE Fine
  <2>1. UNCHANGED <<status, state, winpid, active>>
    BY <1>11 DEF vars, objectVars
  <2> QED BY <1>2, <2>1
<1>12. Fine
  <2> HIDE DEF Fine
  <2>1. ASSUME NEW t \in Thread, Arrive(t) \/ Lookup(t) \/ Enter(t) \/ Serve(t) PROVE Fine
    BY <1>3, <1>9, <2>1, Zenon DEF Lookup
  <2>2. CASE SubmitterStep
    BY <1>5, <1>6, <1>10, <2>2, Zenon DEF SubmitterStep
  <2>3. ASSUME NEW b \in Address, CleanerStep(b) PROVE Fine
    BY <1>7, <1>8, <1>10, <2>3, Zenon DEF CleanerStep
  <2>4. CASE Next
    BY <1>4, <2>1, <2>2, <2>3, <2>4, Zenon DEF Next
  <2> QED BY <1>11, <2>4
<1> QED BY <1>12

\* At first there is no object.
LEMMA TrulyInit == Init => Truly
<1> SUFFICES ASSUME Init PROVE Truly
  OBVIOUS
<1>1. \A a \in Address : winpid[a] = Null /\ Null \notin Client
  BY CacheAssumption DEF Init
<1> QED BY <1>1 DEF Truly

\* A step of a thread, or of its worker, leaves the other threads alone.
Others(t) ==
  /\ status' = status /\ DOMAIN request' = Thread /\ DOMAIN cpc' = Thread
  /\ \A u \in Thread \ {t} :
       cpc'[u] = cpc[u] /\ request'[u] = request[u] /\ rpc'[u] = rpc[u]

\* The worker answers, and the thread goes on.
Mapping(t) == cpc[t] = "attaching" /\ cpc'[t] = "map" /\ request'[t] = request[t]
Back(t) ==
  /\ cpc'[t] = IF cpc[t] = "ended" THEN "ended" ELSE "idle"
  /\ request'[t] = NoRequest

\* An answer concerns the thread that asked, which maps the segment or is done.
LEMMA AnswerOthers ==
  ASSUME IInv, Protocol, NEW t \in Thread, NEW ok, Answer(t, ok), RequestAt(t, "idle"),
         status' = status
  PROVE  Others(t) /\ rpc'[t] = "idle" /\ (Mapping(t) \/ Back(t))
<1>1. /\ DOMAIN request = Thread /\ DOMAIN cpc = Thread
      /\ rpc' = [rpc EXCEPT ![t] = "idle"] /\ DOMAIN rpc = Thread
  BY DEF Protocol, RequestAt, IInv, TypeOK
<1>2. CASE cpc[t] = "attaching" /\ ok
  <2>1. request' = request /\ cpc' = [cpc EXCEPT ![t] = "map"]
    BY <1>2 DEF Answer
  <2> QED BY <1>1, <1>2, <2>1 DEF Others, Mapping
<1>3. CASE ~(cpc[t] = "attaching" /\ ok)
  <2>1. /\ request' = [request EXCEPT ![t] = NoRequest]
        /\ cpc' = [cpc EXCEPT ![t] = IF @ = "ended" THEN "ended" ELSE "idle"]
    BY <1>3 DEF Answer
  <2> QED BY <1>1, <2>1 DEF Others, Back
<1> QED BY <1>2, <1>3

\* The answer says how the thread goes on.
LEMMA AnswerKnown ==
  ASSUME Protocol, NEW t \in Thread
  PROVE  /\ Answer(t, FALSE) => Back(t)
         /\ Answer(t, TRUE) /\ cpc[t] = "attaching" => Mapping(t)
         /\ Answer(t, TRUE) /\ cpc[t] # "attaching" => Back(t)
<1>1. DOMAIN request = Thread /\ DOMAIN cpc = Thread
  BY DEF Protocol
<1>2. ASSUME Answer(t, FALSE) \/ (Answer(t, TRUE) /\ cpc[t] # "attaching") PROVE Back(t)
  <2>1. /\ request' = [request EXCEPT ![t] = NoRequest]
        /\ cpc' = [cpc EXCEPT ![t] = IF @ = "ended" THEN "ended" ELSE "idle"]
    BY <1>2 DEF Answer
  <2> QED BY <1>1, <2>1 DEF Back
<1>3. ASSUME Answer(t, TRUE), cpc[t] = "attaching" PROVE Mapping(t)
  <2>1. request' = request /\ cpc' = [cpc EXCEPT ![t] = "map"]
    BY <1>3 DEF Answer
  <2> QED BY <1>1, <1>3, <2>1 DEF Mapping
<1> QED BY <1>2, <1>3

\* The requests that a worker answers
LEMMA ServedOthers ==
  ASSUME IInv, Protocol, NEW t \in Thread, ShmServe(t) \/ RefuseAndAnswer(t)
  PROVE  Others(t) /\ rpc'[t] = "idle" /\ (Mapping(t) \/ Back(t)) /\ rpc[t] # "idle"
<1>1. RequestAt(t, "idle") /\ status' = status /\ rpc[t] # "idle"
  <2>1. CASE Shmget(t) \/ ShmctlRmid(t) \/ ShmFails(t)
    BY <2>1 DEF Shmget, ShmctlRmid, ShmFails, ServeOther, Served
  <2>2. CASE Shmat(t) \/ Shmdt(t)
    BY <2>2 DEF Shmat, Shmdt, AddRoutine, RemoveRoutine, ServeOther, Served
  <2>3. CASE RefuseAndAnswer(t)
    BY <2>3 DEF RefuseAndAnswer, Refuse, Unknown
  <2> QED BY <2>1, <2>2, <2>3 DEF ShmServe
<1>2. PICK ok : Answer(t, ok)
  <2>1. CASE Shmget(t)
    BY <2>1, Zenon DEF Shmget, NewSegment
  <2>2. CASE Shmat(t) \/ Shmdt(t) \/ ShmctlRmid(t)
    BY <2>2, Zenon DEF Shmat, Shmdt, ShmctlRmid
  <2>3. CASE ShmFails(t) \/ RefuseAndAnswer(t)
    BY <2>3, Zenon DEF ShmFails, RefuseAndAnswer
  <2> QED BY <2>1, <2>2, <2>3 DEF ShmServe
<1> QED BY <1>1, <1>2, AnswerOthers

\* The thread asks.
Asking(t, r, step) ==
  /\ rpc[t] = "idle" /\ ~Ended(Owner[t]) /\ rpc'[t] = "find"
  /\ request'[t] = r /\ cpc'[t] = step

\* A thread that asks (client_request::make_request) leaves the others alone.
LEMMA AsksOthers ==
  ASSUME IInv, Protocol, NEW t \in Thread, NEW r, NEW step, Asks(t, r, step)
  PROVE  Others(t) /\ Asking(t, r, step)
<1>1. DOMAIN request = Thread /\ DOMAIN cpc = Thread /\ DOMAIN rpc = Thread
  BY DEF Protocol, IInv, TypeOK
<1> QED BY <1>1 DEF Asks, Arrive, RequestAt, Others, Asking

\* What a thread asks
LEMMA CallsAsk ==
  ASSUME IInv, Protocol, Lists, NEW t \in Thread, Call(t)
  PROVE  \/ \E k : Others(t) /\ Asking(t, [op |-> "shmget", key |-> k], "asking")
         \/ \E s \in shmids, op \in {"rmid", "shmdt"} :
              /\ Others(t) /\ Asking(t, [op |-> op, shmid |-> s], "asking")
              /\ op = "shmdt" => Live(s)
         \/ \E s \in shmids : Others(t) /\ Asking(t, [op |-> "shmat", shmid |-> s], "attaching")
<1>1. ASSUME NEW k, CallShmget(t, k)
      PROVE  Others(t) /\ Asking(t, [op |-> "shmget", key |-> k], "asking")
  BY <1>1, AsksOthers DEF CallShmget
<1>2. ASSUME NEW s \in Given, CallRmid(t, s)
      PROVE  Others(t) /\ Asking(t, [op |-> "rmid", shmid |-> s], "asking")
  BY <1>2, AsksOthers DEF CallRmid
<1>3. ASSUME NEW s \in Given, CallShmdt(t, s)
      PROVE  Others(t) /\ Asking(t, [op |-> "shmdt", shmid |-> s], "asking") /\ Live(s)
  <2>1. Live(s)
    BY <1>3, CacheAssumption DEF Given, CallShmdt, CallsShmdt, Lists
  <2> QED BY <1>3, <2>1, AsksOthers DEF CallShmdt
<1>4. ASSUME NEW s \in Given, CallShmat(t, s)
      PROVE  Others(t) /\ Asking(t, [op |-> "shmat", shmid |-> s], "attaching")
  BY <1>4, AsksOthers DEF CallShmat
<1>5. Given \subseteq shmids
  BY DEF Given
<1> QED BY <1>1, <1>2, <1>3, <1>4, <1>5 DEF Call

\* A worker that looks for the object and enters it
LEMMA GoesOnOthers ==
  ASSUME IInv, Protocol, NEW t \in Thread, WorkerGoesOn(t)
  PROVE  /\ Others(t) /\ rpc[t] # "idle" /\ rpc'[t] # "idle"
         /\ request' = request /\ cpc' = cpc
<1>1. DOMAIN request = Thread /\ DOMAIN cpc = Thread /\ DOMAIN rpc = Thread
  BY DEF Protocol, IInv, TypeOK
<1>2. /\ status' = status /\ rpc[t] # "idle"
      /\ \E step \in {"enter", "serve"} : rpc' = [rpc EXCEPT ![t] = step]
  BY DEF WorkerGoesOn, Enter, Find, Create, Unknown, RequestAt
<1>3. request' = request /\ cpc' = cpc
  BY DEF WorkerGoesOn, shmClientVars
<1> QED BY <1>1, <1>2, <1>3 DEF Others

\* A view is mapped, or cannot be.
LEMMA MapOthers ==
  ASSUME IInv, Protocol, NEW t \in Thread
  PROVE  /\ Keeps(t) => /\ Others(t) /\ rpc' = rpc /\ cpc[t] = "map" /\ cpc'[t] = "idle"
                        /\ request'[t] = NoRequest
         /\ MapFails(t) => /\ Others(t) /\ cpc[t] = "map"
                           /\ Asking(t, [op |-> "shmdt", shmid |-> request[t].shmid], "undoing")
<1>1. DOMAIN request = Thread /\ DOMAIN cpc = Thread
  BY DEF Protocol
<1>2. ASSUME Keeps(t)
      PROVE  /\ Others(t) /\ rpc' = rpc /\ cpc[t] = "map" /\ cpc'[t] = "idle"
             /\ request'[t] = NoRequest
  <2>1. UNCHANGED <<status, rpc>>
    BY <1>2 DEF Keeps, vars, requestVars
  <2> QED BY <1>1, <1>2, <2>1 DEF Keeps, Others
<1>3. ASSUME MapFails(t)
      PROVE  /\ Others(t) /\ cpc[t] = "map"
             /\ Asking(t, [op |-> "shmdt", shmid |-> request[t].shmid], "undoing")
  BY <1>3, AsksOthers DEF MapFails
<1> QED BY <1>2, <1>3

\* The other threads keep to the protocol.
LEMMA OthersProtocol ==
  ASSUME Protocol, NEW t \in Thread, Others(t), ProtocolOf(t)'
  PROVE  Protocol'
<1>1. ASSUME NEW u \in Thread, u # t PROVE ProtocolOf(u)'
  <2>1. /\ ProtocolOf(u) /\ cpc'[u] = cpc[u] /\ request'[u] = request[u] /\ rpc'[u] = rpc[u]
        /\ status' = status
    BY <1>1 DEF Others, Protocol
  <2> QED BY <2>1 DEF ProtocolOf, Ended
<1>2. DOMAIN request' = Thread /\ DOMAIN cpc' = Thread
  BY DEF Others
<1> QED BY <1>1, <1>2 DEF Protocol

\* A step of a thread or of its worker keeps the thread to the protocol.
LEMMA ProtocolThread ==
  ASSUME IInv, Protocol, Lists, NEW t \in Thread,
         Call(t) \/ Keeps(t) \/ MapFails(t) \/ ShmWorker(t)
  PROVE  Others(t) /\ ProtocolOf(t)'
<1>1. ProtocolOf(t)
  BY DEF Protocol
<1>2. CASE Call(t)
  <2>1. ASSUME NEW r, NEW step \in {"asking", "attaching"}, Others(t), Asking(t, r, step),
               r.op \in {"shmget", "shmat", "shmdt", "rmid"},
               r.op # "shmget" => r.shmid \in shmids, r.op = "shmdt" => Live(r.shmid),
               step = "attaching" <=> r.op = "shmat"
        PROVE  ProtocolOf(t)'
    <3>1. /\ rpc'[t] = "find" /\ cpc'[t] = step /\ request'[t] = r /\ ~Ended(Owner[t])
          /\ status' = status
      BY <2>1 DEF Asking, Others
    <3> QED BY <2>1, <3>1 DEF ProtocolOf, Ended
  <2>2. CASE \E k : Others(t) /\ Asking(t, [op |-> "shmget", key |-> k], "asking")
    <3>1. PICK k : Others(t) /\ Asking(t, [op |-> "shmget", key |-> k], "asking")
      BY <2>2
    <3>2. PICK r : r = [op |-> "shmget", key |-> k]
      OBVIOUS
    <3>3. r.op = "shmget" /\ Asking(t, r, "asking")
      BY <3>1, <3>2
    <3> QED BY <2>1, <3>1, <3>3
  <2>3. CASE \E s \in shmids, op \in {"rmid", "shmdt"} :
               /\ Others(t) /\ Asking(t, [op |-> op, shmid |-> s], "asking")
               /\ op = "shmdt" => Live(s)
    <3>1. PICK s \in shmids, op \in {"rmid", "shmdt"} :
            /\ Others(t) /\ Asking(t, [op |-> op, shmid |-> s], "asking")
            /\ op = "shmdt" => Live(s)
      BY <2>3
    <3>2. PICK r : r = [op |-> op, shmid |-> s]
      OBVIOUS
    <3>3. r.op = op /\ r.shmid = s /\ Asking(t, r, "asking")
      BY <3>1, <3>2
    <3> QED BY <2>1, <3>1, <3>3
  <2>4. CASE \E s \in shmids : Others(t) /\ Asking(t, [op |-> "shmat", shmid |-> s], "attaching")
    <3>1. PICK s \in shmids : Others(t) /\ Asking(t, [op |-> "shmat", shmid |-> s], "attaching")
      BY <2>4
    <3>2. PICK r : r = [op |-> "shmat", shmid |-> s]
      OBVIOUS
    <3>3. r.op = "shmat" /\ r.shmid = s /\ Asking(t, r, "attaching")
      BY <3>1, <3>2
    <3> QED BY <2>1, <3>1, <3>3
  <2> QED BY <1>2, <2>2, <2>3, <2>4, CallsAsk
<1>3. CASE Keeps(t)
  <2>1. /\ Others(t) /\ rpc'[t] = rpc[t] /\ cpc[t] = "map" /\ cpc'[t] = "idle"
        /\ request'[t] = NoRequest
    BY <1>3, MapOthers
  <2>2. status' = status
    BY <2>1 DEF Others
  <2> QED BY <1>1, <2>1, <2>2 DEF ProtocolOf, Ended
<1>4. CASE MapFails(t)
  <2>1. PICK r : r = [op |-> "shmdt", shmid |-> request[t].shmid]
    OBVIOUS
  <2>2. Others(t) /\ cpc[t] = "map" /\ Asking(t, r, "undoing")
    BY <1>4, <2>1, MapOthers
  <2>3. r.op = "shmdt" /\ r.shmid \in shmids /\ Live(r.shmid)
    BY <1>1, <2>1, <2>2 DEF ProtocolOf
  <2>4. /\ rpc'[t] = "find" /\ cpc'[t] = "undoing" /\ request'[t] = r /\ ~Ended(Owner[t])
        /\ status' = status
    BY <2>2 DEF Asking, Others
  <2> QED BY <2>2, <2>3, <2>4 DEF ProtocolOf, Ended
<1>5. CASE ShmServe(t) \/ RefuseAndAnswer(t)
  <2>1. Others(t) /\ rpc'[t] = "idle" /\ (Mapping(t) \/ Back(t)) /\ rpc[t] # "idle"
    BY <1>5, ServedOthers
  <2>2. status' = status
    BY <2>1 DEF Others
  <2>3. CASE Mapping(t)
    <3>1. request[t].op = "shmat" /\ ~Back(t)
      BY <1>1, <2>1, <2>3 DEF ProtocolOf, Mapping, Back
    <3>2. Found(t)
      <4>1. ~ShmFails(t) /\ ~RefuseAndAnswer(t)
        BY <3>1, AnswerKnown DEF ShmFails, RefuseAndAnswer
      <4>2. Shmat(t)
        BY <1>5, <3>1, <4>1 DEF ShmServe, Shmget, Shmdt, ShmctlRmid, Asked
      <4> QED BY <4>2 DEF Shmat
    <3>3. Live(request[t].shmid)
      BY <3>2 DEF Found, Existing, Live
    <3> QED BY <1>1, <2>1, <2>2, <2>3, <3>3 DEF ProtocolOf, Mapping, Ended
  <2>4. CASE Back(t)
    BY <1>1, <2>1, <2>2, <2>4 DEF ProtocolOf, Back, Ended
  <2> QED BY <2>1, <2>3, <2>4
<1>6. CASE WorkerGoesOn(t)
  <2>1. /\ Others(t) /\ rpc[t] # "idle" /\ rpc'[t] # "idle" /\ request'[t] = request[t]
        /\ cpc'[t] = cpc[t]
    BY <1>6, GoesOnOthers
  <2>2. status' = status
    BY <2>1 DEF Others
  <2> QED BY <1>1, <2>1, <2>2 DEF ProtocolOf, Ended
<1> QED BY <1>2, <1>3, <1>4, <1>5, <1>6 DEF ShmWorker

\* The rest of the server has nothing to do with the threads,
LEMMA ServerStepFrame ==
  ASSUME SubmitterGoesOn \/ (\E a \in Address : CleanerGoesOn(a)) \/ Aside
  PROVE  UNCHANGED <<status, rpc, request, cpc, attached>>
<1>1. CASE SubmitterGoesOn
  BY <1>1 DEF SubmitterGoesOn, SubmitterStep, SyncWaitArray, ProcessEnded, ProcessAdded,
              CheckExitCode, RemoveProcess, requestVars, shmClientVars
<1>2. CASE \E a \in Address : CleanerGoesOn(a)
  BY <1>2 DEF CleanerGoesOn, CleanupAttachment, RunRoutine, Cleanup, Delete, requestVars,
              shmClientVars
<1>3. CASE Aside
  BY <1>3 DEF Aside, vars, requestVars
<1> QED BY <1>1, <1>2, <1>3

\* and a process that ends does that to its own threads.
LEMMA ExitFrame ==
  ASSUME IInv, Protocol, NEW c \in Client, NEW how \in Statuses, ClientExit(c, how)
  PROVE  /\ \A d \in Client : Ended(d)' <=> (Ended(d) \/ d = c)
         /\ UNCHANGED <<rpc, request, winpid, segments>> /\ DOMAIN cpc' = Thread
         /\ \A t \in Thread : cpc'[t] = IF Owner[t] = c THEN "ended" ELSE cpc[t]
<1>1. UNCHANGED <<rpc, request, winpid, segments>> /\ DOMAIN cpc' = Thread
      /\ \A t \in Thread : cpc'[t] = IF Owner[t] = c THEN "ended" ELSE cpc[t]
  BY DEF ClientExit, Exit, requestVars, objectVars, serverVars
<1>2. status' = [status EXCEPT ![c] = how] /\ how # "runs" /\ status \in [Client -> Statuses]
  BY DEF ClientExit, Exit, IInv, TypeOK
<1>3. \A d \in Client : Ended(d)' <=> (Ended(d) \/ d = c)
  BY <1>2 DEF Ended
<1> QED BY <1>1, <1>3

\* Every step keeps to the protocol.
LEMMA ProtocolStep == IInv /\ Protocol /\ Lists /\ [ShmNext]_shmVars => Protocol'
<1> SUFFICES ASSUME IInv, Protocol, Lists, StepKind PROVE Protocol'
  BY StepKinds
<1>1. ASSUME NEW t \in Thread, Call(t) \/ Keeps(t) \/ MapFails(t) \/ ShmWorker(t) PROVE Protocol'
  BY <1>1, ProtocolThread, OthersProtocol
<1>2. ASSUME NEW c \in Client, NEW how \in Statuses, ClientExit(c, how) PROVE Protocol'
  <2>1. /\ \A d \in Client : Ended(d)' <=> (Ended(d) \/ d = c)
        /\ UNCHANGED <<rpc, request>> /\ DOMAIN cpc' = Thread
        /\ \A t \in Thread : cpc'[t] = IF Owner[t] = c THEN "ended" ELSE cpc[t]
    BY <1>2, ExitFrame
  <2>2. ASSUME NEW t \in Thread PROVE ProtocolOf(t)'
    <3>1. Owner[t] \in Client /\ ProtocolOf(t)
      BY CacheAssumption DEF Protocol
    <3> QED BY <2>1, <3>1 DEF ProtocolOf
  <2> QED BY <2>1, <2>2 DEF Protocol
<1>3. ASSUME UNCHANGED <<status, rpc, request, cpc, attached>> PROVE Protocol'
  BY <1>3 DEF Protocol, ProtocolOf, Ended
<1> QED BY <1>1, <1>2, <1>3, ServerStepFrame DEF StepKind

\* At first nobody has asked for anything.
LEMMA ProtocolInit == ShmInit => Protocol
<1> SUFFICES ASSUME ShmInit PROVE Protocol
  OBVIOUS
<1>1. DOMAIN request = Thread /\ DOMAIN cpc = Thread
  BY DEF ShmInit
<1>2. ASSUME NEW t \in Thread PROVE ProtocolOf(t)
  <2>1. cpc[t] = "idle" /\ rpc[t] = "idle" /\ ~Ended(Owner[t])
    BY CacheAssumption DEF ShmInit, Init, Ended
  <2> QED BY <2>1 DEF ProtocolOf
<1> QED BY <1>1, <1>2 DEF Protocol
-----------------------------------------------------------------------------
(* Attachments, views and requests in flight *)

\* Is the attachment that t has to do with in flight?
Flies(t, i) ==
  /\ request[t].op \in {"shmat", "shmdt"}
  /\ Ext2Int(request[t].shmid) = i
  /\ \/ request[t].op = "shmat" /\ cpc[t] = "map"
     \/ request[t].op = "shmdt" /\ rpc[t] # "idle"

Flight(t, i) == IF Flies(t, i) THEN 1 ELSE 0

mine(c) == {a \in Address : winpid[a] = c}
ids(i) == {s \in shmids : Ext2Int(s) = i}

OnServer(c, i) == Total(segments[i].refcnt, mine(c))
Mapped(c, i) == Total(attached[c], ids(i))
Flying(c, i) == Cardinality(InFlight(c, i))

AgreedAt(c, i) == OnServer(c, i) = Mapped(c, i) + Flying(c, i)

\* What the clients have mapped, and that it agrees
Agreed ==
  /\ attached \in [Client -> [shmids -> Nat]]
  /\ \A c \in Client, i \in intids : ~Ended(c) => AgreedAt(c, i)

\* The invariant says what the property says.
LEMMA AgreedViews == Agreed => ViewsAgree
BY DEF Agreed, AgreedAt, OnServer, Mapped, Flying, mine, ids, ViewsAgree

\* A thread has an attachment in flight, or not, for its own process.
LEMMA FliesInFlight ==
  ASSUME NEW c, NEW i, NEW t \in Thread
  PROVE  t \in InFlight(c, i) <=> Owner[t] = c /\ Flies(t, i)
BY DEF InFlight, Flies

\* Finitely many attachments are in flight.
LEMMA FlyingType ==
  ASSUME NEW c, NEW i
  PROVE  /\ IsFiniteSet(InFlight(c, i)) /\ Flying(c, i) \in Nat
         /\ IsFiniteSet(InFlight(c, i)') /\ Flying(c, i)' \in Nat
<1>1. InFlight(c, i) \in SUBSET Thread /\ InFlight(c, i)' \in SUBSET Thread
  BY DEF InFlight
<1>2. IsFiniteSet(InFlight(c, i)) /\ IsFiniteSet(InFlight(c, i)')
  BY <1>1, CacheAssumption, FS_Subset
<1> QED BY <1>2, FS_CardinalityType DEF Flying

\* The views of a process can be counted,
LEMMA MappedType ==
  ASSUME Agreed, NEW c \in Client, NEW i
  PROVE  Mapped(c, i) \in Nat /\ IsFiniteSet(ids(i))
<1>1. ids(i) \in SUBSET shmids
  BY DEF ids
<1>2. IsFiniteSet(ids(i))
  BY <1>1, IdsFinite, FS_Subset
<1>3. \A s \in ids(i) : attached[c][s] \in Nat
  BY <1>1 DEF Agreed
<1> QED BY <1>2, <1>3, TotalType DEF Mapped

\* and so can its attachments.
LEMMA OnServerType ==
  ASSUME Counts, NEW c, NEW i \in intids
  PROVE  /\ OnServer(c, i) \in Nat /\ IsFiniteSet(mine(c))
         /\ \A a \in mine(c) : segments[i].refcnt[a] \in Nat
<1>1. mine(c) \in SUBSET Address
  BY DEF mine
<1>2. IsFiniteSet(mine(c))
  BY <1>1, CacheAssumption, FS_Subset
<1>3. \A a \in mine(c) : segments[i].refcnt[a] \in Nat
  BY <1>1, RefcntType
<1> QED BY <1>2, <1>3, TotalType DEF OnServer

\* A step of t changes what is in flight by what it does to t.
LEMMA FlyingChange ==
  ASSUME NEW t \in Thread, Others(t), NEW c, NEW i
  PROVE  Flying(c, i)' = Flying(c, i)
                           + (IF Owner[t] = c THEN Flight(t, i)' - Flight(t, i) ELSE 0)
<1> DEFINE F == InFlight(c, i)
           G == InFlight(c, i)'
<1>1. ASSUME NEW u \in Thread, u # t PROVE u \in G <=> u \in F
  BY <1>1 DEF Others, InFlight
<1>2. F \subseteq Thread /\ G \subseteq Thread
  BY DEF InFlight
<1>3. t \in F <=> Owner[t] = c /\ Flies(t, i)
  BY FliesInFlight
<1>4. t \in G <=> Owner[t] = c /\ Flies(t, i)'
  BY DEF InFlight, Flies
<1>5. IsFiniteSet(F) /\ Flying(c, i) \in Nat /\ Flying(c, i) = Cardinality(F)
      /\ Flying(c, i)' = Cardinality(G)
  BY FlyingType DEF Flying
<1> HIDE DEF F, G
<1>6. CASE t \in F <=> t \in G
  <2>1. F = G
    BY <1>1, <1>2, <1>6
  <2>2. Owner[t] = c => (Flies(t, i) <=> Flies(t, i)')
    BY <1>3, <1>4, <1>6
  <2>3. Owner[t] = c => Flight(t, i)' = Flight(t, i) /\ Flight(t, i) \in Int
    BY <2>2 DEF Flight
  <2> QED BY <1>5, <2>1, <2>3
<1>7. CASE t \in F /\ t \notin G
  <2>1. G = F \ {t}
    BY <1>1, <1>2, <1>7
  <2>2. Cardinality(G) = Cardinality(F) - 1
    BY <1>5, <1>7, <2>1, FS_RemoveElement
  <2>3. Owner[t] = c /\ Flight(t, i) = 1 /\ Flight(t, i)' = 0
    BY <1>3, <1>4, <1>7 DEF Flight
  <2> QED BY <1>5, <2>2, <2>3
<1>8. CASE t \notin F /\ t \in G
  <2>1. G = F \cup {t}
    BY <1>1, <1>2, <1>8
  <2>2. Cardinality(G) = Cardinality(F) + 1
    BY <1>5, <1>8, <2>1, FS_AddElement
  <2>3. Owner[t] = c /\ Flight(t, i) = 0 /\ Flight(t, i)' = 1
    BY <1>3, <1>4, <1>8 DEF Flight
  <2> QED BY <1>5, <2>2, <2>3
<1> QED BY <1>6, <1>7, <1>8

\* What the server counts for a process changes with the attachments of its objects.
LEMMA OnServerEffect ==
  ASSUME Counts, NEW j \in intids, NEW a \in Address, NEW d \in Int, Effect(j, a, d),
         UNCHANGED winpid, NEW c, NEW i \in intids
  PROVE  OnServer(c, i)' = OnServer(c, i) + (IF winpid[a] = c /\ i = j THEN d ELSE 0)
<1> DEFINE f == segments[i].refcnt
           h == segments'[i].refcnt
<1>1. mine(c)' = mine(c) /\ mine(c) \subseteq Address
  BY DEF mine
<1>2. IsFiniteSet(mine(c)) /\ OnServer(c, i) \in Nat /\ \A b \in mine(c) : f[b] \in Nat
  BY OnServerType
<1>3. OnServer(c, i) = Total(f, mine(c)) /\ OnServer(c, i)' = Total(h, mine(c))
  BY <1>1 DEF OnServer
<1>4. \A b \in Address : h[b] \in Nat
  BY DEF Effect, Counts, Exact, Shape
<1>5. \A b \in Address : h[b] = f[b] + (IF i = j /\ b = a THEN d ELSE 0)
  BY DEF Effect
<1> HIDE DEF f, h
<1>6. CASE a \in mine(c) /\ i = j
  <2>1. winpid[a] = c
    BY <1>6 DEF mine
  <2>2. \A b \in mine(c) \ {a} : h[b] = f[b]
    BY <1>1, <1>2, <1>5
  <2>3. h[a] = f[a] + d /\ f[a] \in Nat
    BY <1>2, <1>5, <1>6
  <2>4. Total(h, mine(c)) = Total(f, mine(c)) + h[a] - f[a] /\ Total(f, mine(c)) \in Nat
    BY <1>1, <1>2, <1>4, <1>6, <2>2, TotalChange
  <2> QED BY <1>3, <1>6, <2>1, <2>3, <2>4
<1>7. CASE ~(a \in mine(c) /\ i = j)
  <2>1. ~(winpid[a] = c /\ i = j)
    BY <1>7 DEF mine
  <2>2. \A b \in mine(c) : f[b] \in Nat /\ h[b] = f[b]
    BY <1>1, <1>2, <1>5, <1>7
  <2>3. Total(h, mine(c)) = Total(f, mine(c))
    BY <1>2, <2>2, TotalSame
  <2> QED BY <1>2, <1>3, <2>1, <2>3
<1> QED BY <1>6, <1>7

\* Where no attachments change, those of a process do not.
LEMMA OnServerStill ==
  ASSUME Counts, Still, NEW c, mine(c)' = mine(c), NEW i \in intids
  PROVE  OnServer(c, i)' = OnServer(c, i)
<1> DEFINE f == segments[i].refcnt
           h == segments'[i].refcnt
<1>1. IsFiniteSet(mine(c)) /\ \A b \in mine(c) : f[b] \in Nat
  BY OnServerType
<1>2. \A b \in mine(c) : h[b] = f[b]
  BY DEF Still, mine
<1>3. OnServer(c, i) = Total(f, mine(c)) /\ OnServer(c, i)' = Total(h, mine(c))
  BY DEF OnServer
<1> HIDE DEF f, h
<1> QED BY <1>1, <1>2, <1>3, TotalSame

\* The client e has n views of s from now on.
Views(e, s, n) == attached' = [attached EXCEPT ![e][s] = n]

\* An entry comes to the list of a client, or goes from it.
LEMMA MappedChange ==
  ASSUME Agreed, NEW e \in Client, NEW s \in shmids, NEW n \in Nat, Views(e, s, n), NEW c \in Client, NEW i
  PROVE  /\ attached' \in [Client -> [shmids -> Nat]]
         /\ Mapped(c, i)' = Mapped(c, i)
                              + (IF c = e /\ i = Ext2Int(s) THEN n - attached[e][s] ELSE 0)
<1> DEFINE f == attached[c]
           h == attached'[c]
<1>1. attached \in [Client -> [shmids -> Nat]] /\ attached' \in [Client -> [shmids -> Nat]]
  BY DEF Agreed, Views
<1>2. Mapped(c, i) \in Nat /\ IsFiniteSet(ids(i)) /\ Mapped(c, i) = Total(f, ids(i))
      /\ Mapped(c, i)' = Total(h, ids(i))
  BY MappedType DEF Mapped, ids
<1>3. \A x \in shmids : f[x] \in Nat /\ h[x] \in Nat /\ ((c = e /\ x = s) \/ h[x] = f[x])
  BY <1>1 DEF Views
<1>4. ids(i) \subseteq shmids /\ (s \in ids(i) <=> i = Ext2Int(s))
  BY DEF ids
<1>5. c = e => h[s] = n /\ f[s] = attached[e][s] /\ f[s] \in Nat
  BY <1>1 DEF Views
<1> HIDE DEF f, h
<1>6. CASE c = e /\ s \in ids(i)
  <2>1. Total(h, ids(i)) = Total(f, ids(i)) + h[s] - f[s]
    BY <1>2, <1>3, <1>4, <1>6, TotalChange
  <2> QED BY <1>1, <1>2, <1>4, <1>5, <1>6, <2>1
<1>7. CASE ~(c = e /\ s \in ids(i))
  <2>1. \A x \in ids(i) : f[x] \in Nat /\ h[x] = f[x]
    BY <1>3, <1>4, <1>7
  <2>2. Total(h, ids(i)) = Total(f, ids(i))
    BY <1>2, <2>1, TotalSame
  <2> QED BY <1>1, <1>2, <1>4, <1>7, <2>2
<1> QED BY <1>6, <1>7

\* A process that runs is known by an object in the cache.
LEMMA RunningCached ==
  ASSUME IInv, Truly, NEW a \in Address, winpid[a] \in Client, ~Ended(winpid[a])
  PROVE  a \in Cached /\ active[a]
BY DEF Truly, Cached

\* What a running process has unmapped it is still attached to, so that its shmdt
\* finds the segment and the attachment.
LEMMA DetachFinds ==
  ASSUME IInv, Truly, Counts, Protocol, Agreed, NEW t \in Thread, ~Ended(Owner[t]),
         rpc[t] # "idle", request[t].op = "shmdt"
  PROVE  /\ Ext2Int(request[t].shmid) \in intids
         /\ \E a \in Cached : /\ winpid[a] = Owner[t]
                              /\ segments[Ext2Int(request[t].shmid)].refcnt[a] > 0
<1>1. PICK i \in intids : i = Ext2Int(request[t].shmid)
  BY DEF Protocol, ProtocolOf, Live
<1>2. PICK c \in Client : c = Owner[t]
  BY CacheAssumption
<1>3. Flying(c, i) \in Nat /\ Flying(c, i) # 0
  <2>1. t \in InFlight(c, i)
    BY <1>1, <1>2 DEF InFlight
  <2>2. IsFiniteSet(InFlight(c, i)) /\ Flying(c, i) \in Nat
    BY FlyingType
  <2>3. Cardinality(InFlight(c, i)) # 0
    BY <2>1, <2>2, FS_EmptySet
  <2> QED BY <2>2, <2>3 DEF Flying
<1>4. OnServer(c, i) # 0
  <2>1. Mapped(c, i) \in Nat
    BY MappedType
  <2>2. AgreedAt(c, i)
    BY <1>2 DEF Agreed
  <2> QED BY <1>3, <2>1, <2>2 DEF AgreedAt
<1>5. IsFiniteSet(mine(c)) /\ \A a \in mine(c) : segments[i].refcnt[a] \in Nat
  BY OnServerType
<1>6. PICK a \in mine(c) : segments[i].refcnt[a] # 0
  <2>1. ASSUME \A a \in mine(c) : segments[i].refcnt[a] = 0 PROVE FALSE
    <3>1. PICK f : f = segments[i].refcnt
      OBVIOUS
    <3>2. \A a \in mine(c) : f[a] = 0
      BY <2>1, <3>1
    <3>3. Total(f, mine(c)) = 0
      BY <1>5, <3>2, TotalZero
    <3> QED BY <1>4, <3>1, <3>3 DEF OnServer
  <2> QED BY <2>1
<1>7. a \in Address /\ winpid[a] = c
  BY DEF mine
<1>8. a \in Cached
  BY <1>2, <1>7, RunningCached
<1> QED BY <1>1, <1>2, <1>5, <1>6, <1>7, <1>8

\* A thread's step that changes both sides by the same
LEMMA Balance ==
  ASSUME Counts, Agreed, NEW t \in Thread, Others(t),
         attached' \in [Client -> [shmids -> Nat]],
         \A c \in Client, i \in intids : ~Ended(c) => \E x \in Int, y \in Int :
            /\ OnServer(c, i)' = OnServer(c, i) + x
            /\ Mapped(c, i)' = Mapped(c, i) + y
            /\ x = y + (IF Owner[t] = c THEN Flight(t, i)' - Flight(t, i) ELSE 0)
  PROVE  Agreed'
<1>1. ASSUME NEW c \in Client, NEW i \in intids, ~Ended(c)' PROVE AgreedAt(c, i)'
  <2>1. ~Ended(c)
    BY <1>1 DEF Others, Ended
  <2>2. PICK x \in Int, y \in Int :
            /\ OnServer(c, i)' = OnServer(c, i) + x
            /\ Mapped(c, i)' = Mapped(c, i) + y
            /\ x = y + (IF Owner[t] = c THEN Flight(t, i)' - Flight(t, i) ELSE 0)
    BY <2>1
  <2>3. PICK z \in Int : z = IF Owner[t] = c THEN Flight(t, i)' - Flight(t, i) ELSE 0
    <3>1. Flight(t, i) \in Int
      BY DEF Flight
    <3>2. Flight(t, i)' \in Int
      BY DEF Flight
    <3> QED BY <3>1, <3>2
  <2>4. Flying(c, i)' = Flying(c, i) + z
    BY <2>3, FlyingChange
  <2>5. OnServer(c, i) = Mapped(c, i) + Flying(c, i)
    BY <2>1 DEF Agreed, AgreedAt
  <2>6. Mapped(c, i) \in Nat /\ Flying(c, i) \in Nat
    BY MappedType, FlyingType
  <2>7. x = y + z
    BY <2>2, <2>3
  <2> QED BY <2>2, <2>4, <2>5, <2>6, <2>7 DEF AgreedAt
<1> QED BY <1>1 DEF Agreed

\* A step that changes nothing of the three
LEMMA QuietAgreed ==
  ASSUME Counts, Agreed, Still, UNCHANGED <<winpid, attached>>, NEW t \in Thread, Others(t),
         Ended(Owner[t]) \/ \A i \in intids : Flight(t, i)' = Flight(t, i)
  PROVE  Agreed'
<1>1. attached' \in [Client -> [shmids -> Nat]]
  BY DEF Agreed
<1>2. ASSUME NEW c \in Client, NEW i \in intids, ~Ended(c)
      PROVE  \E x \in Int, y \in Int :
                /\ OnServer(c, i)' = OnServer(c, i) + x
                /\ Mapped(c, i)' = Mapped(c, i) + y
                /\ x = y + (IF Owner[t] = c THEN Flight(t, i)' - Flight(t, i) ELSE 0)
  <2>1. OnServer(c, i)' = OnServer(c, i) /\ OnServer(c, i) \in Nat
    BY OnServerStill, OnServerType DEF mine
  <2>2. Mapped(c, i)' = Mapped(c, i) /\ Mapped(c, i) \in Nat
    <3>1. Mapped(c, i)' = Mapped(c, i)
      BY DEF Mapped, ids
    <3> QED BY <3>1, MappedType
  <2>3. (IF Owner[t] = c THEN Flight(t, i)' - Flight(t, i) ELSE 0) = 0
    <3>1. CASE Owner[t] = c
      <4>1. Flight(t, i)' = Flight(t, i) /\ Flight(t, i) \in Int
        BY <1>2, <3>1 DEF Flight
      <4> QED BY <3>1, <4>1
    <3> QED BY <3>1
  <2>4. /\ 0 \in Int
        /\ OnServer(c, i)' = OnServer(c, i) + 0 /\ Mapped(c, i)' = Mapped(c, i) + 0
        /\ 0 = 0 + (IF Owner[t] = c THEN Flight(t, i)' - Flight(t, i) ELSE 0)
    BY <2>1, <2>2, <2>3
  <2> QED BY <2>4
<1> QED BY <1>1, <1>2, Balance

\* An attachment or a detachment, with its request
LEMMA ServedAgreed ==
  ASSUME Counts, Agreed, NEW t \in Thread, Others(t), UNCHANGED <<winpid, attached>>,
         NEW j \in intids, NEW a \in Address, winpid[a] = Owner[t], NEW d \in Int,
         Effect(j, a, d),
         Ended(Owner[t]) \/ \A i \in intids : Flight(t, i)' = Flight(t, i) + (IF i = j THEN d ELSE 0)
  PROVE  Agreed'
<1>1. attached' \in [Client -> [shmids -> Nat]]
  BY DEF Agreed
<1>2. ASSUME NEW c \in Client, NEW i \in intids, ~Ended(c)
      PROVE  \E x \in Int, y \in Int :
                /\ OnServer(c, i)' = OnServer(c, i) + x
                /\ Mapped(c, i)' = Mapped(c, i) + y
                /\ x = y + (IF Owner[t] = c THEN Flight(t, i)' - Flight(t, i) ELSE 0)
  <2>1. PICK x \in Int : x = IF winpid[a] = c /\ i = j THEN d ELSE 0
    OBVIOUS
  <2>2. OnServer(c, i)' = OnServer(c, i) + x
    BY <2>1, OnServerEffect
  <2>3. Mapped(c, i)' = Mapped(c, i) + 0
    <3>1. Mapped(c, i)' = Mapped(c, i)
      BY DEF Mapped, ids
    <3>2. Mapped(c, i) \in Nat
      BY MappedType
    <3> QED BY <3>1, <3>2
  <2>4. x = 0 + (IF Owner[t] = c THEN Flight(t, i)' - Flight(t, i) ELSE 0)
    <3>1. CASE Owner[t] = c
      <4>1. Flight(t, i)' = Flight(t, i) + (IF i = j THEN d ELSE 0) /\ Flight(t, i) \in Int
        BY <1>2, <3>1 DEF Flight
      <4> QED BY <2>1, <3>1, <4>1
    <3>2. CASE Owner[t] # c
      BY <2>1, <3>2
    <3> QED BY <3>1, <3>2
  <2>5. 0 \in Int
    OBVIOUS
  <2> QED BY <2>2, <2>3, <2>4, <2>5
<1> QED BY <1>1, <1>2, Balance

\* A view comes or goes, with its request
LEMMA MappedAgreed ==
  ASSUME Counts, Agreed, Still, NEW t \in Thread, Others(t), UNCHANGED winpid,
         NEW s \in shmids, NEW n \in Nat, Views(Owner[t], s, n),
         \A i \in intids : Flight(t, i) = Flight(t, i)'
                             + (IF i = Ext2Int(s) THEN n - attached[Owner[t]][s] ELSE 0)
  PROVE  Agreed'
<1>1. PICK e \in Client : e = Owner[t]
  BY CacheAssumption
<1>2. Views(e, s, n) /\ attached[e][s] \in Nat
  BY <1>1 DEF Agreed
<1>3. attached' \in [Client -> [shmids -> Nat]]
  BY <1>2, MappedChange
<1>4. ASSUME NEW c \in Client, NEW i \in intids, ~Ended(c)
      PROVE  \E x \in Int, y \in Int :
                /\ OnServer(c, i)' = OnServer(c, i) + x
                /\ Mapped(c, i)' = Mapped(c, i) + y
                /\ x = y + (IF Owner[t] = c THEN Flight(t, i)' - Flight(t, i) ELSE 0)
  <2>1. PICK y \in Int : y = IF c = e /\ i = Ext2Int(s) THEN n - attached[e][s] ELSE 0
    BY <1>2
  <2>2. Mapped(c, i)' = Mapped(c, i) + y
    <3>1. Mapped(c, i)' = Mapped(c, i)
                            + (IF c = e /\ i = Ext2Int(s) THEN n - attached[e][s] ELSE 0)
      BY <1>2, MappedChange
    <3> QED BY <2>1, <3>1
  <2>3. OnServer(c, i)' = OnServer(c, i) + 0
    <3>1. mine(c)' = mine(c)
      BY DEF mine
    <3>2. OnServer(c, i)' = OnServer(c, i)
      BY <3>1, OnServerStill
    <3>3. OnServer(c, i) \in Nat
      BY OnServerType
    <3> QED BY <3>2, <3>3
  <2>4. 0 = y + (IF Owner[t] = c THEN Flight(t, i)' - Flight(t, i) ELSE 0)
    <3>1. CASE Owner[t] = c
      <4>1. Flight(t, i) = Flight(t, i)' + y /\ Flight(t, i)' \in Int
        BY <1>1, <2>1, <3>1 DEF Flight
      <4> QED BY <3>1, <4>1
    <3>2. CASE Owner[t] # c
      BY <1>1, <2>1, <3>2
    <3> QED BY <3>1, <3>2
  <2>5. 0 \in Int
    OBVIOUS
  <2> QED BY <2>2, <2>3, <2>4, <2>5
<1> QED BY <1>3, <1>4, Balance

\* A thread that has just come back has nothing in flight.
LEMMA FlightBack ==
  ASSUME NEW t, NEW i, request'[t] = NoRequest
  PROVE  Flight(t, i)' = 0
<1>1. request'[t].op = "none"
  BY DEF NoRequest
<1> QED BY <1>1 DEF Flight, Flies

\* Whether a request is in flight, by what it asks for
LEMMA FlightOf ==
  ASSUME NEW t, NEW i
  PROVE  /\ request[t].op \notin {"shmat", "shmdt"} => Flight(t, i) = 0
         /\ request[t].op = "shmat" /\ cpc[t] # "map" => Flight(t, i) = 0
         /\ request[t].op = "shmdt" /\ rpc[t] = "idle" => Flight(t, i) = 0
         /\ request[t].op = "shmat" /\ cpc[t] = "map"
              => Flight(t, i) = IF i = Ext2Int(request[t].shmid) THEN 1 ELSE 0
         /\ request[t].op = "shmdt" /\ rpc[t] # "idle"
              => Flight(t, i) = IF i = Ext2Int(request[t].shmid) THEN 1 ELSE 0
BY DEF Flight, Flies

\* The same of the state after a step
LEMMA FlightNext ==
  ASSUME NEW t, NEW i
  PROVE  /\ request'[t].op \notin {"shmat", "shmdt"} => Flight(t, i)' = 0
         /\ request'[t].op = "shmat" /\ cpc'[t] # "map" => Flight(t, i)' = 0
         /\ request'[t].op = "shmat" /\ cpc'[t] = "map"
              => Flight(t, i)' = IF i = Ext2Int(request'[t].shmid) THEN 1 ELSE 0
         /\ request'[t].op = "shmdt" /\ rpc'[t] # "idle"
              => Flight(t, i)' = IF i = Ext2Int(request'[t].shmid) THEN 1 ELSE 0
BY DEF Flight, Flies

\* Everything the inductive argument knows
ShmInv == IInv /\ SegmentIds /\ Counts /\ Covered /\ Truly /\ Protocol /\ Lists /\ Agreed

\* shmat: the attachment is made, and not mapped yet.
LEMMA ShmatAgreed ==
  ASSUME ShmInv, NEW t \in Thread, Shmat(t)
  PROVE  Agreed'
<1>1. PICK j \in intids : j = Ext2Int(request[t].shmid)
  BY ShmatEffect DEF ShmInv, Existing
<1>2. PICK a \in Address : a = obj[t]
  BY ShmatEffect DEF ShmInv
<1>3. Effect(j, a, 1)
  BY <1>1, <1>2, ShmatEffect DEF ShmInv
<1>4. winpid[a] = Owner[t] /\ UNCHANGED <<winpid, attached>> /\ rpc[t] = "serve"
  BY <1>2 DEF Shmat, Asked, ShmInv, IInv, Held, AddRoutine, Served, Answer
<1>5. Others(t)
  BY ServedOthers DEF ShmInv, ShmServe
<1>6. cpc[t] = "attaching" /\ request[t].op = "shmat"
  BY <1>4 DEF Shmat, Asked, ShmInv, Protocol, ProtocolOf
<1>7. Mapping(t)
  BY <1>6, AnswerKnown DEF Shmat, ShmInv
<1>8. PICK d \in Int : d = 1
  OBVIOUS
<1>9. ASSUME NEW i \in intids PROVE Flight(t, i)' = Flight(t, i) + (IF i = j THEN d ELSE 0)
  <2>1. Flight(t, i) = 0
    BY <1>6, FlightOf
  <2>2. request'[t] = request[t] /\ cpc'[t] = "map"
    BY <1>7 DEF Mapping
  <2>3. Flight(t, i)' = IF i = j THEN 1 ELSE 0
    BY <1>1, <1>6, <2>2, FlightNext
  <2> QED BY <1>8, <2>1, <2>3
<1> QED BY <1>3, <1>4, <1>5, <1>8, <1>9, ServedAgreed DEF ShmInv

\* shmdt: what was unmapped is detached.
LEMMA ShmdtAgreed ==
  ASSUME ShmInv, NEW t \in Thread, Shmdt(t)
  PROVE  Agreed'
<1>1. PICK j \in intids : j = Ext2Int(request[t].shmid)
  BY ShmdtEffect DEF ShmInv, Existing
<1>2. PICK a \in Address : a = obj[t]
  BY ShmdtEffect DEF ShmInv
<1>3. Effect(j, a, -1)
  BY <1>1, <1>2, ShmdtEffect DEF ShmInv
<1>4. rpc[t] = "serve" /\ request[t].op = "shmdt"
  BY DEF Shmdt, Asked
<1>5. winpid[a] = Owner[t] /\ UNCHANGED <<winpid, attached>>
  BY <1>2, <1>4 DEF Shmdt, ShmInv, IInv, Held, RemoveRoutine, ServeOther, Served, Answer
<1>6. Others(t)
  BY ServedOthers DEF ShmInv, ShmServe
<1>7. cpc[t] # "attaching"
  BY <1>4 DEF ShmInv, Protocol, ProtocolOf
<1>8. Back(t)
  BY <1>7, AnswerKnown DEF Shmdt, ShmInv
<1>9. PICK d \in Int : d = -1
  OBVIOUS
<1>10. ASSUME NEW i \in intids PROVE Flight(t, i)' = Flight(t, i) + (IF i = j THEN d ELSE 0)
  <2>1. Flight(t, i) = IF i = j THEN 1 ELSE 0
    BY <1>1, <1>4, FlightOf
  <2>2. Flight(t, i)' = 0
    BY <1>8, FlightBack DEF Back
  <2> QED BY <1>9, <2>1, <2>2
<1> QED BY <1>3, <1>5, <1>6, <1>9, <1>10, ServedAgreed DEF ShmInv

\* A request that fails: that of a running process is no shmdt.
LEMMA FailsAgreed ==
  ASSUME ShmInv, NEW t \in Thread, ShmFails(t) \/ RefuseAndAnswer(t)
  PROVE  Agreed'
<1>1. Others(t) /\ rpc[t] # "idle"
  BY ServedOthers DEF ShmInv, ShmServe
<1>2. Back(t)
  BY AnswerKnown DEF ShmFails, RefuseAndAnswer, ShmInv
<1>3. Still
  BY ThreadStill DEF ShmInv
<1>4. UNCHANGED <<winpid, attached>>
  BY DEF ShmFails, ServeOther, Served, RefuseAndAnswer, Refuse, objectVars, Answer
<1>5. Ended(Owner[t]) \/ request[t].op # "shmdt"
  <2>1. SUFFICES ASSUME ~Ended(Owner[t]), request[t].op = "shmdt" PROVE FALSE
    OBVIOUS
  <2>2. PICK i \in intids : i = Ext2Int(request[t].shmid)
    BY <1>1, <2>1, DetachFinds DEF ShmInv
  <2>3. PICK a \in Cached : winpid[a] = Owner[t] /\ segments[i].refcnt[a] > 0
    BY <1>1, <2>1, <2>2, DetachFinds DEF ShmInv
  <2>4. ~RefuseAndAnswer(t)
    BY <2>3 DEF RefuseAndAnswer, Refuse, Unknown
  <2>5. ShmFails(t) /\ rpc[t] = "serve"
    BY <2>4 DEF ShmFails, ServeOther, Served
  <2>6. obj[t] = a
    <3>1. obj[t] \in Address /\ winpid[obj[t]] = Owner[t] /\ Owner[t] \in Client
      BY <2>5, CacheAssumption DEF ShmInv, IInv, Held
    <3>2. obj[t] \in Cached
      BY <2>1, <3>1, RunningCached DEF ShmInv
    <3> QED BY <2>3, <3>1, <3>2 DEF ShmInv, IInv, OnePerProcess
  <2>7. a \in Address
    BY DEF Cached
  <2>8. i \notin Existing \/ segments[i].refcnt[a] = 0
    BY <2>1, <2>2, <2>5, <2>6 DEF ShmFails, client
  <2>9. segments[i].refcnt[a] = 0
    <3>1. CASE i \notin Existing
      <4>1. segments[i] = NoSegment
        BY <3>1 DEF Existing, Exists
      <4> QED BY <2>7, <4>1, NoSegmentExact
    <3> QED BY <2>8, <3>1
  <2> QED BY <2>3, <2>9
<1>6. ASSUME NEW i \in intids, ~Ended(Owner[t]) PROVE Flight(t, i)' = Flight(t, i)
  <2>1. Flight(t, i)' = 0
    BY <1>2, FlightBack DEF Back
  <2>2. request[t].op = "shmat" => cpc[t] # "map"
    BY <1>1 DEF ShmInv, Protocol, ProtocolOf
  <2>3. Flight(t, i) = 0
    BY <1>5, <1>6, <2>2, FlightOf
  <2> QED BY <2>1, <2>3
<1> QED BY <1>1, <1>3, <1>4, <1>6, QuietAgreed DEF ShmInv

\* shmget and IPC_RMID
LEMMA OtherAgreed ==
  ASSUME ShmInv, NEW t \in Thread, Shmget(t) \/ ShmctlRmid(t)
  PROVE  Agreed'
<1>1. Others(t) /\ (Mapping(t) \/ Back(t))
  BY ServedOthers DEF ShmInv, ShmServe
<1>2. Still
  BY ThreadStill DEF ShmInv
<1>3. UNCHANGED <<winpid, attached>>
  BY DEF Shmget, NewSegment, ShmctlRmid, ServeOther, Served, Answer
<1>4. request[t].op \in {"shmget", "rmid"}
  BY DEF Shmget, ShmctlRmid, Asked
<1>5. ASSUME NEW i \in intids PROVE Flight(t, i)' = Flight(t, i)
  <2>1. Flight(t, i) = 0
    BY <1>4, FlightOf
  <2>2. CASE Mapping(t)
    BY <1>4, <2>1, <2>2, FlightNext DEF Mapping
  <2>3. CASE Back(t)
    BY <2>1, <2>3, FlightBack DEF Back
  <2> QED BY <1>1, <2>2, <2>3
<1> QED BY <1>1, <1>2, <1>3, <1>5, QuietAgreed DEF ShmInv

\* client_shmmgr::shmdt
LEMMA CallShmdtAgreed ==
  ASSUME ShmInv, NEW t \in Thread, NEW s \in Given, CallShmdt(t, s)
  PROVE  Agreed'
<1>1. s \in shmids /\ UNCHANGED <<winpid, segments, sequence, shm_ids, shm_atts>> /\ cpc[t] = "idle"
  BY DEF Given, CallShmdt, CallsShmdt, NewCall, Asks, Arrive, objectVars, serverVars
<1>2. Still
  BY <1>1, ServerUnchanged DEF ShmInv, serverVars
<1>3. PICK r : r = [op |-> "shmdt", shmid |-> s]
  OBVIOUS
<1>4. Others(t) /\ Asking(t, r, "asking") /\ r.op = "shmdt" /\ r.shmid = s
  BY <1>3, AsksOthers DEF CallShmdt, ShmInv
<1>5. PICK m \in Nat : m = attached[Owner[t]][s]
  BY <1>1, CacheAssumption DEF ShmInv, Agreed
<1>6. PICK n \in Nat : n = m - 1
  <2>1. PICK u \in Nat : u = untold[Owner[t]][s]
    BY <1>1, CacheAssumption DEF ShmInv, Lists
  <2>2. m > u
    BY <1>5, <2>1 DEF CallShmdt, CallsShmdt
  <2> QED BY <1>5, <2>2
<1>7. Views(Owner[t], s, n)
  BY <1>5, <1>6 DEF CallShmdt, Views
<1>8. ASSUME NEW i \in intids
      PROVE  Flight(t, i) = Flight(t, i)' + (IF i = Ext2Int(s) THEN n - attached[Owner[t]][s] ELSE 0)
  <2>1. rpc[t] = "idle" /\ rpc'[t] = "find" /\ request'[t] = r
    BY <1>4 DEF Asking
  <2>2. Flight(t, i) = 0
    BY <1>1, <2>1, FlightOf
  <2>3. Flight(t, i)' = IF i = Ext2Int(s) THEN 1 ELSE 0
    BY <1>4, <2>1, FlightNext
  <2> QED BY <1>5, <1>6, <2>2, <2>3
<1> QED BY <1>1, <1>2, <1>4, <1>7, <1>8, MappedAgreed DEF ShmInv

\* A view is mapped: the attachment is in flight no more.
LEMMA MapAgreed ==
  ASSUME ShmInv, NEW t \in Thread, Keeps(t)
  PROVE  Agreed'
<1>1. UNCHANGED <<winpid, serverVars>>
  BY DEF Keeps, vars, objectVars
<1>2. Still
  BY <1>1, ServerUnchanged DEF ShmInv
<1>3. Others(t) /\ cpc[t] = "map" /\ request'[t] = NoRequest
  BY MapOthers DEF ShmInv
<1>4. PICK s \in shmids : s = request[t].shmid
  BY <1>3 DEF ShmInv, Protocol, ProtocolOf
<1>5. request[t].op = "shmat"
  BY <1>3 DEF ShmInv, Protocol, ProtocolOf
<1>6. PICK m \in Nat : m = attached[Owner[t]][s]
  BY CacheAssumption DEF ShmInv, Agreed
<1>7. PICK n \in Nat : n = m + 1
  OBVIOUS
<1>8. Views(Owner[t], s, n)
  BY <1>4, <1>6, <1>7 DEF Keeps, Views
<1>9. ASSUME NEW i \in intids
      PROVE  Flight(t, i) = Flight(t, i)' + (IF i = Ext2Int(s) THEN n - attached[Owner[t]][s] ELSE 0)
  <2>1. Flight(t, i)' = 0
    BY <1>3, FlightBack
  <2>2. Flight(t, i) = IF i = Ext2Int(s) THEN 1 ELSE 0
    BY <1>3, <1>4, <1>5, FlightOf
  <2> QED BY <1>6, <1>7, <2>1, <2>2
<1> QED BY <1>1, <1>2, <1>3, <1>8, <1>9, MappedAgreed DEF ShmInv

\* The calls that do not unmap, and the view that cannot be mapped
LEMMA CallAgreed ==
  ASSUME ShmInv, NEW t \in Thread,
         \/ \E k \in Keys : CallShmget(t, k)
         \/ \E s \in Given : CallShmat(t, s) \/ CallRmid(t, s)
         \/ MapFails(t)
  PROVE  Agreed'
<1>1. PICK r, step : Asks(t, r, step) /\ attached' = attached
                       /\ \/ cpc[t] = "idle" /\ r.op \notin {"shmat", "shmdt"}
                          \/ cpc[t] = "idle" /\ r.op = "shmat" /\ step = "attaching"
                          \/ cpc[t] = "map" /\ r.op = "shmdt" /\ r.shmid = request[t].shmid
  <2>1. ASSUME NEW k \in Keys, CallShmget(t, k)
        PROVE  /\ Asks(t, [op |-> "shmget", key |-> k], "asking") /\ attached' = attached
               /\ cpc[t] = "idle"
    BY <2>1 DEF CallShmget, NewCall
  <2>2. ASSUME NEW s \in Given, CallRmid(t, s)
        PROVE  /\ Asks(t, [op |-> "rmid", shmid |-> s], "asking") /\ attached' = attached
               /\ cpc[t] = "idle"
    BY <2>2 DEF CallRmid, NewCall
  <2>3. ASSUME NEW s \in Given, CallShmat(t, s)
        PROVE  /\ Asks(t, [op |-> "shmat", shmid |-> s], "attaching") /\ attached' = attached
               /\ cpc[t] = "idle"
    BY <2>3 DEF CallShmat, NewCall
  <2>4. ASSUME MapFails(t)
        PROVE  /\ Asks(t, [op |-> "shmdt", shmid |-> request[t].shmid], "undoing")
               /\ attached' = attached /\ cpc[t] = "map"
    BY <2>4 DEF MapFails
  <2>5. \A k : [op |-> "shmget", key |-> k].op = "shmget"
    OBVIOUS
  <2>6. \A op, s : [op |-> op, shmid |-> s].op = op /\ [op |-> op, shmid |-> s].shmid = s
    OBVIOUS
  <2>7. CASE \E k \in Keys : CallShmget(t, k)
    BY <2>1, <2>5, <2>7
  <2>8. CASE \E s \in Given : CallRmid(t, s)
    BY <2>2, <2>6, <2>8
  <2>9. CASE \E s \in Given : CallShmat(t, s)
    BY <2>3, <2>6, <2>9
  <2>10. CASE MapFails(t)
    BY <2>4, <2>6, <2>10
  <2> QED BY <2>7, <2>8, <2>9, <2>10
<1>2. Others(t) /\ Asking(t, r, step)
  BY <1>1, AsksOthers DEF ShmInv
<1>3. UNCHANGED winpid /\ UNCHANGED serverVars
  BY <1>1 DEF Asks, Arrive, objectVars
<1>4. Still
  BY <1>3, ServerUnchanged DEF ShmInv
<1>5. ASSUME NEW i \in intids PROVE Flight(t, i)' = Flight(t, i)
  <2>1. rpc[t] = "idle" /\ rpc'[t] = "find" /\ request'[t] = r /\ cpc'[t] = step
    BY <1>2 DEF Asking
  <2>2. CASE cpc[t] = "idle"
    <3>1. Flight(t, i) = 0
      BY <2>1, <2>2, FlightOf
    <3>2. Flight(t, i)' = 0
      BY <1>1, <2>1, <2>2, FlightNext
    <3> QED BY <3>1, <3>2
  <2>3. CASE cpc[t] = "map"
    <3>1. Flight(t, i) = IF i = Ext2Int(request[t].shmid) THEN 1 ELSE 0
      BY <2>3, FlightOf DEF ShmInv, Protocol, ProtocolOf
    <3>2. Flight(t, i)' = IF i = Ext2Int(request[t].shmid) THEN 1 ELSE 0
      BY <1>1, <2>1, <2>3, FlightNext
    <3> QED BY <3>1, <3>2
  <2> QED BY <1>1, <2>2, <2>3
<1> QED BY <1>1, <1>2, <1>3, <1>4, <1>5, QuietAgreed DEF ShmInv

\* Nobody is attached through an object that is not there.
LEMMA FreeUnattached ==
  ASSUME ShmInv, NEW a \in Address, state[a] = "free", NEW i \in intids
  PROVE  segments[i].refcnt[a] = 0
<1>1. CASE segments[i] = NoSegment
  BY <1>1, NoSegmentExact
<1>2. CASE segments[i] # NoSegment
  <2>1. PICK s \in shmids : s = segments[i].shmid
    BY <1>2 DEF ShmInv, Counts, Identified
  <2>2. CASE Wraps(i)
    BY <1>2, <2>2 DEF ShmInv, Counts, Identified
  <2>3. CASE ~Wraps(i)
    <3>1. Live(s) /\ Ext2Int(s) = i
      BY <1>2, <2>1, <2>3 DEF ShmInv, Counts, Identified, Live
    <3>2. Attachments(a, s) = segments[i].refcnt[a] /\ segments[i].refcnt[a] \in Nat
      BY <2>1, <3>1, RefcntType DEF Attachments, ShmInv
    <3> QED BY <3>2 DEF ShmInv, Covered, CoveredAt
  <2> QED BY <2>2, <2>3
<1> QED BY <1>1, <1>2

\* A worker looks the object up, which may make it.
LEMMA GoesOnAgreed ==
  ASSUME ShmInv, NEW t \in Thread, WorkerGoesOn(t)
  PROVE  Agreed'
<1>1. Others(t) /\ rpc[t] # "idle" /\ rpc'[t] # "idle" /\ request' = request /\ cpc' = cpc
  BY GoesOnOthers DEF ShmInv
<1>2. attached' = attached /\ Still
  BY ThreadStill DEF ShmInv, WorkerGoesOn, shmClientVars
<1>3. ASSUME NEW i PROVE Flight(t, i)' = Flight(t, i)
  BY <1>1 DEF Flight, Flies
<1>4. CASE Enter(t) \/ \E a \in Address : Find(t, a)
  <2>1. UNCHANGED winpid
    BY <1>4 DEF Enter, Find, objectVars
  <2> QED BY <1>1, <1>2, <1>3, <2>1, QuietAgreed DEF ShmInv
<1>5. ASSUME NEW a \in Address, Create(t, a) PROVE Agreed'
  <2>1. state[a] = "free" /\ winpid' = [winpid EXCEPT ![a] = Owner[t]] /\ winpid[a] = Null
    BY <1>5 DEF Create, ShmInv, Truly
  <2>2. ASSUME NEW c \in Client, NEW i \in intids PROVE OnServer(c, i)' = OnServer(c, i)
    <3>1. a \notin mine(c)
      BY <2>1, CacheAssumption DEF mine
    <3>2. CASE c # Owner[t]
      <4>1. mine(c)' = mine(c)
        BY <2>1, <3>1, <3>2 DEF mine, ShmInv, IInv, TypeOK
      <4> QED BY <1>2, <4>1, OnServerStill DEF ShmInv
    <3>3. CASE c = Owner[t]
      <4> DEFINE f == segments[i].refcnt
                 h == segments'[i].refcnt
      <4>1. mine(c)' = mine(c) \cup {a}
        BY <2>1, <3>3 DEF mine, ShmInv, IInv, TypeOK
      <4>2. IsFiniteSet(mine(c)) /\ \A b \in mine(c) : f[b] \in Nat
        BY OnServerType DEF ShmInv
      <4>3. mine(c) \subseteq Address /\ \A b \in Address : h[b] = f[b]
        BY <1>2 DEF Still, mine
      <4>4. f[a] = 0
        BY <2>1, FreeUnattached
      <4>5. OnServer(c, i) = Total(f, mine(c)) /\ OnServer(c, i)' = Total(h, mine(c) \cup {a})
        BY <4>1 DEF OnServer
      <4> HIDE DEF f, h
      <4>6. Total(h, mine(c)) = Total(f, mine(c))
        BY <4>2, <4>3, TotalSame
      <4>7. \A b \in mine(c) : h[b] \in Nat
        BY <4>2, <4>3
      <4>8. h[a] = 0
        BY <4>3, <4>4
      <4>9. Total(h, mine(c) \cup {a}) = Total(h, mine(c)) + h[a] /\ Total(h, mine(c)) \in Nat
        BY <3>1, <4>2, <4>7, <4>8, TotalAdd
      <4> QED BY <4>5, <4>6, <4>8, <4>9
    <3> QED BY <3>2, <3>3
  <2>3. ASSUME NEW c \in Client, NEW i \in intids, ~Ended(c)' PROVE AgreedAt(c, i)'
    <3>1. ~Ended(c)
      BY <1>1, <2>3 DEF Others, Ended
    <3>2. Flying(c, i)' = Flying(c, i)
      <4>1. InFlight(c, i)' = InFlight(c, i)
        BY <1>1 DEF InFlight, Others
      <4> QED BY <4>1 DEF Flying
    <3>3. Mapped(c, i)' = Mapped(c, i)
      BY <1>2 DEF Mapped, ids
    <3> QED BY <2>2, <3>1, <3>2, <3>3 DEF ShmInv, Agreed, AgreedAt
  <2> QED BY <1>2, <2>3 DEF ShmInv, Agreed
<1> QED BY <1>4, <1>5 DEF WorkerGoesOn

\* A step of the server that has to do with no running process
LEMMA AwayAgreed ==
  ASSUME ShmInv, UNCHANGED <<status, rpc, request, cpc, attached>>,
         \A c \in Client, i \in intids : ~Ended(c) => OnServer(c, i)' = OnServer(c, i)
  PROVE  Agreed'
<1>1. ASSUME NEW c \in Client, NEW i \in intids, ~Ended(c)' PROVE AgreedAt(c, i)'
  <2>1. ~Ended(c)
    BY <1>1 DEF Ended
  <2>2. Flying(c, i)' = Flying(c, i)
    BY DEF Flying, InFlight
  <2>3. Mapped(c, i)' = Mapped(c, i)
    BY DEF Mapped, ids
  <2> QED BY <2>1, <2>2, <2>3 DEF ShmInv, Agreed, AgreedAt
<1> QED BY <1>1 DEF ShmInv, Agreed

\* The submitter and the cleanup workers
LEMMA ServerAgreed ==
  ASSUME ShmInv, SubmitterGoesOn \/ (\E a \in Address : CleanerGoesOn(a)) \/ Aside
  PROVE  Agreed'
<1>1. UNCHANGED <<status, rpc, request, cpc, attached>>
  BY ServerStepFrame
<1>2. ASSUME Still, \A c \in Client : ~Ended(c) => mine(c)' = mine(c) PROVE Agreed'
  <2>1. ASSUME NEW c \in Client, NEW i \in intids, ~Ended(c)
        PROVE  OnServer(c, i)' = OnServer(c, i)
    BY <1>2, <2>1, OnServerStill DEF ShmInv
  <2> QED BY <1>1, <2>1, AwayAgreed
<1>3. ASSUME NEW a \in Address, state[a] = "cleaning", NEW c \in Client, ~Ended(c)
      PROVE  winpid[a] # c
  BY <1>3 DEF ShmInv, Truly
<1>4. CASE SubmitterGoesOn \/ Aside
  <2>1. UNCHANGED winpid
    BY <1>4 DEF SubmitterGoesOn, SubmitterStep, SyncWaitArray, ProcessEnded, ProcessAdded,
                CheckExitCode, RemoveProcess, Aside, vars, objectVars
  <2> QED BY <1>2, <1>4, <2>1, OtherStill DEF ShmInv, mine
<1>5. ASSUME NEW a \in Address, Cleanup(a), UNCHANGED serverVars PROVE Agreed'
  <2>1. UNCHANGED winpid
    BY <1>5 DEF Cleanup
  <2> QED BY <1>2, <1>5, <2>1, OtherStill DEF ShmInv, mine
<1>6. ASSUME NEW a \in Address, Delete(a), UNCHANGED serverVars PROVE Agreed'
  <2>1. state[a] = "cleaning" /\ winpid' = [winpid EXCEPT ![a] = Null]
    BY <1>6 DEF Delete
  <2>2. ASSUME NEW c \in Client, ~Ended(c) PROVE mine(c)' = mine(c)
    <3>1. winpid[a] # c /\ c # Null
      BY <1>3, <2>1, <2>2, CacheAssumption
    <3> QED BY <2>1, <3>1 DEF mine, ShmInv, IInv, TypeOK
  <2> QED BY <1>2, <1>6, <2>2, OtherStill DEF ShmInv
<1>7. ASSUME NEW a \in Address, CleanupAttachment(a) PROVE Agreed'
  <2>1. state[a] = "cleaning" /\ UNCHANGED winpid /\ routines[a] # <<>>
    BY <1>7 DEF CleanupAttachment, RunRoutine
  <2>2. CASE Still
    BY <1>2, <2>1, <2>2 DEF mine
  <2>3. PICK j : j = Ext2Int(Head(routines[a]))
    OBVIOUS
  <2>4. CASE j \in Existing /\ Effect(j, a, -1)
    <3>1. PICK d \in Int : d = -1
      OBVIOUS
    <3>2. j \in intids /\ Effect(j, a, d)
      BY <2>4, <3>1 DEF Existing
    <3>3. ASSUME NEW c \in Client, NEW i \in intids, ~Ended(c)
          PROVE  OnServer(c, i)' = OnServer(c, i)
      <4>1. OnServer(c, i)' = OnServer(c, i) + (IF winpid[a] = c /\ i = j THEN d ELSE 0)
        BY <2>1, <3>2, OnServerEffect DEF ShmInv
      <4>2. OnServer(c, i) \in Nat /\ winpid[a] # c
        BY <1>3, <2>1, <3>3, OnServerType DEF ShmInv
      <4> QED BY <4>1, <4>2
    <3> QED BY <1>1, <3>3, AwayAgreed
  <2> QED BY <1>7, <2>2, <2>3, <2>4, CleanupEffect DEF ShmInv
<1> QED BY <1>4, <1>5, <1>6, <1>7 DEF CleanerGoesOn

\* A process that ends takes its views with it.
LEMMA ExitAgreed ==
  ASSUME ShmInv, NEW e \in Client, NEW how \in Statuses, ClientExit(e, how)
  PROVE  Agreed'
<1>1. /\ \A d \in Client : Ended(d)' <=> (Ended(d) \/ d = e)
      /\ UNCHANGED <<rpc, request, winpid, segments>>
      /\ \A t \in Thread : cpc'[t] = IF Owner[t] = e THEN "ended" ELSE cpc[t]
  BY ExitFrame DEF ShmInv
<1>2. attached' = [attached EXCEPT ![e] = [s \in shmids |-> 0]]
  BY DEF ClientExit
<1>3. attached' \in [Client -> [shmids -> Nat]] /\ \A c \in Client \ {e} : attached'[c] = attached[c]
  BY <1>2 DEF ShmInv, Agreed
<1>4. ASSUME NEW c \in Client, NEW i \in intids, ~Ended(c)' PROVE AgreedAt(c, i)'
  <2>1. ~Ended(c) /\ c # e
    BY <1>1, <1>4
  <2>2. InFlight(c, i)' = InFlight(c, i)
    BY <1>1, <2>1 DEF InFlight
  <2>3. Flying(c, i)' = Flying(c, i)
    BY <2>2 DEF Flying
  <2>4. Mapped(c, i)' = Mapped(c, i)
    BY <1>3, <2>1 DEF Mapped, ids
  <2>5. OnServer(c, i)' = OnServer(c, i)
    BY <1>1 DEF OnServer, mine
  <2> QED BY <2>1, <2>3, <2>4, <2>5 DEF ShmInv, Agreed, AgreedAt
<1> QED BY <1>3, <1>4 DEF Agreed

\* Every step keeps clients and server in agreement.
LEMMA AgreedStep == ShmInv /\ [ShmNext]_shmVars => Agreed'
<1> SUFFICES ASSUME ShmInv, StepKind PROVE Agreed'
  BY StepKinds
<1>1. ASSUME NEW t \in Thread, Call(t) PROVE Agreed'
  BY <1>1, CallAgreed, CallShmdtAgreed DEF Call
<1>2. ASSUME NEW t \in Thread, Keeps(t) \/ MapFails(t) PROVE Agreed'
  BY <1>2, MapAgreed, CallAgreed
<1>3. ASSUME NEW t \in Thread, ShmWorker(t) PROVE Agreed'
  BY <1>3, ShmatAgreed, ShmdtAgreed, FailsAgreed, OtherAgreed, GoesOnAgreed DEF ShmWorker, ShmServe
<1> QED BY <1>1, <1>2, <1>3, ExitAgreed, ServerAgreed DEF StepKind

\* A client has one view more, or does not get through with one more.
LEMMA MoreListed ==
  ASSUME NEW f, NEW n, f \in [Client -> [shmids -> Nat]], NEW e \in Client, NEW s \in shmids,
         NEW h, h = [f EXCEPT ![e][s] = @ + n], f[e][s] + n \in Nat
  PROVE  /\ h \in [Client -> [shmids -> Nat]] /\ h[e][s] = f[e][s] + n
         /\ \A c \in Client, x \in shmids : c # e \/ x # s => h[c][x] = f[c][x]
OBVIOUS

\* A client lists what it has attached.
LEMMA ListsStep == ShmInv /\ [ShmNext]_shmVars => Lists'
<1> SUFFICES ASSUME ShmInv, [ShmNext]_shmVars PROVE Lists'
  OBVIOUS
<1>1. /\ untold \in [Client -> [shmids -> Nat]] /\ attached \in [Client -> [shmids -> Nat]]
      /\ \A c \in Client, s \in shmids : attached[c][s] > untold[c][s] => Live(s)
  BY DEF ShmInv, Lists, Agreed
<1>2. ASSUME UNCHANGED <<attached, untold>> PROVE Lists'
  BY <1>1, <1>2 DEF Lists, Live
<1>3. ASSUME NEW t \in Thread, Keeps(t), NEW n \in {0, 1},
             untold' = [untold EXCEPT ![Owner[t]][request[t].shmid] = @ + n]
      PROVE  Lists'
  <2>1. PICK s \in shmids : s = request[t].shmid /\ Live(s)
    BY <1>3 DEF ShmInv, Protocol, ProtocolOf, Keeps
  <2>2. PICK e \in Client : e = Owner[t]
    BY CacheAssumption
  <2>3. attached' = [attached EXCEPT ![e][s] = @ + 1] /\ untold' = [untold EXCEPT ![e][s] = @ + n]
    BY <1>3, <2>1, <2>2 DEF Keeps
  <2>4. attached[e][s] + 1 \in Nat /\ untold[e][s] + n \in Nat
    BY <1>1, <1>3
  <2>5. /\ untold' \in [Client -> [shmids -> Nat]]
        /\ \A c \in Client, x \in shmids :
             c # e \/ x # s => attached'[c][x] = attached[c][x] /\ untold'[c][x] = untold[c][x]
    BY <1>1, <2>3, <2>4, MoreListed
  <2> QED BY <1>1, <2>1, <2>5 DEF Lists, Live
<1>4. ASSUME NEW t \in Thread, Map(t) PROVE Lists'
  <2>1. untold' = untold /\ Keeps(t)
    BY <1>4 DEF Map
  <2>2. attached' = [attached EXCEPT ![Owner[t]][request[t].shmid] = @ + 1]
    BY <2>1 DEF Keeps
  <2>3. PICK s \in shmids : s = request[t].shmid /\ Live(s)
    BY <2>1 DEF ShmInv, Protocol, ProtocolOf, Keeps
  <2>4. PICK e \in Client : e = Owner[t]
    BY CacheAssumption
  <2>5. attached[e][s] + 1 \in Nat
    BY <1>1
  <2>6. \A c \in Client, x \in shmids : c # e \/ x # s => attached'[c][x] = attached[c][x]
    BY <1>1, <2>2, <2>3, <2>4, <2>5, MoreListed
  <2> QED BY <1>1, <2>1, <2>3, <2>6 DEF Lists, Live
<1>5. ASSUME NEW t \in Thread, MapFailsUntold(t) PROVE Lists'
  BY <1>3, <1>5 DEF MapFailsUntold
<1>6. ASSUME NEW t \in Thread, NEW s \in Given, CallShmdt(t, s) \/ CallShmdtUntold(t, s)
      PROVE  Lists'
  <2>1. PICK e \in Client : e = Owner[t]
    BY CacheAssumption
  <2>2. s \in shmids /\ attached[e][s] > untold[e][s]
    BY <1>6, <2>1 DEF Given, CallShmdt, CallShmdtUntold, CallsShmdt
  <2>3. attached[e][s] \in Nat /\ untold[e][s] \in Nat /\ Live(s)
    BY <1>1, <2>2
  <2>4. CASE CallShmdt(t, s)
    <3>1. PICK n \in Int : n = -1
      OBVIOUS
    <3>2. attached[e][s] + n \in Nat /\ attached[e][s] + n = attached[e][s] - 1
      BY <2>2, <2>3, <3>1
    <3>3. attached' = [attached EXCEPT ![e][s] = @ + n] /\ untold' = untold
      BY <1>1, <2>1, <2>2, <2>4, <3>2 DEF CallShmdt
    <3>4. \A c \in Client, x \in shmids : c # e \/ x # s => attached'[c][x] = attached[c][x]
      BY <1>1, <2>2, <3>2, <3>3, MoreListed
    <3> QED BY <1>1, <2>3, <3>3, <3>4 DEF Lists, Live
  <2>5. CASE CallShmdtUntold(t, s)
    <3>1. untold' = [untold EXCEPT ![e][s] = @ + 1] /\ attached' = attached
      BY <2>1, <2>5 DEF CallShmdtUntold
    <3>2. untold[e][s] + 1 \in Nat
      BY <2>3
    <3>3. /\ untold' \in [Client -> [shmids -> Nat]]
          /\ \A c \in Client, x \in shmids : c # e \/ x # s => untold'[c][x] = untold[c][x]
      BY <1>1, <2>2, <3>1, <3>2, MoreListed
    <3> QED BY <1>1, <2>3, <3>1, <3>3 DEF Lists, Live
  <2> QED BY <1>6, <2>4, <2>5
<1>7. ASSUME NEW t \in Thread, Call(t) PROVE Lists'
  <2>1. CASE \E s \in Given : CallShmdt(t, s)
    BY <1>6, <2>1
  <2>2. CASE ~\E s \in Given : CallShmdt(t, s)
    <3>1. UNCHANGED <<attached, untold>>
      BY <1>7, <2>2 DEF Call, CallShmget, CallShmat, CallRmid
    <3> QED BY <1>2, <3>1
  <2> QED BY <2>1, <2>2
<1>8. ASSUME NEW e \in Client, NEW how \in Statuses, ClientExit(e, how) PROVE Lists'
  <2> DEFINE none == [s \in shmids |-> 0]
  <2>1. attached' = [attached EXCEPT ![e] = none] /\ untold' = [untold EXCEPT ![e] = none]
    BY <1>8 DEF ClientExit
  <2>2. none \in [shmids -> Nat] /\ \A s \in shmids : none[s] = 0
    OBVIOUS
  <2> HIDE DEF none
  <2>3. untold' \in [Client -> [shmids -> Nat]]
    BY <1>1, <2>1, <2>2
  <2>4. ASSUME NEW c \in Client, NEW s \in shmids, attached'[c][s] > untold'[c][s] PROVE Live(s)
    <3>1. CASE c = e
      BY <1>1, <2>1, <2>2, <2>4, <3>1
    <3>2. CASE c # e
      BY <1>1, <2>1, <2>4, <3>2
    <3> QED BY <3>1, <3>2
  <2> QED BY <2>3, <2>4 DEF Lists, Live
<1>9. ASSUME NEW t \in Thread, MapFails(t) \/ ShmWorker(t) PROVE Lists'
  <2>1. ASSUME NEW ok, Answer(t, ok) PROVE UNCHANGED <<attached, untold>>
    BY <2>1 DEF Answer
  <2>2. CASE MapFails(t)
    BY <1>2, <2>2 DEF MapFails
  <2>3. CASE ShmServe(t)
    BY <1>2, <2>1, <2>3, Zenon DEF ShmServe, Shmget, NewSegment, Shmat, Shmdt, ShmctlRmid, ShmFails
  <2>4. CASE WorkerGoesOn(t) \/ RefuseAndAnswer(t)
    BY <1>2, <2>1, <2>4 DEF WorkerGoesOn, RefuseAndAnswer, shmClientVars
  <2> QED BY <1>9, <2>2, <2>3, <2>4 DEF ShmWorker
<1>10. CASE SubmitterGoesOn \/ (\E a \in Address : CleanerGoesOn(a)) \/ UNCHANGED shmVars
  BY <1>2, <1>10 DEF SubmitterGoesOn, CleanerGoesOn, CleanupAttachment, shmVars, shmClientVars
<1> QED BY <1>4, <1>5, <1>6, <1>7, <1>8, <1>9, <1>10 DEF ShmNext, Untold

\* At first nobody has attached anything.
LEMMA AgreedInit == ShmInit => Agreed
<1> SUFFICES ASSUME ShmInit PROVE Agreed
  OBVIOUS
<1>1. attached \in [Client -> [shmids -> Nat]] /\ \A c \in Client, s \in shmids : attached[c][s] = 0
  BY DEF ShmInit
<1>2. ASSUME NEW c \in Client, NEW i \in intids PROVE AgreedAt(c, i)
  <2>1. mine(c) = {}
    BY CacheAssumption DEF ShmInit, Init, mine
  <2>2. OnServer(c, i) = 0
    BY <2>1, TotalZero, FS_EmptySet DEF OnServer
  <2>3. InFlight(c, i) = {}
    BY DEF ShmInit, Init, InFlight
  <2>4. Flying(c, i) = 0
    BY <2>3, FS_EmptySet DEF Flying
  <2>5. ids(i) \in SUBSET shmids
    BY DEF ids
  <2>6. IsFiniteSet(ids(i))
    BY <2>5, IdsFinite, FS_Subset
  <2>7. \A s \in ids(i) : attached[c][s] = 0
    BY <1>1, <2>5
  <2>8. Mapped(c, i) = 0
    BY <2>6, <2>7, TotalZero DEF Mapped
  <2> QED BY <2>2, <2>4, <2>8 DEF AgreedAt
<1> QED BY <1>1, <1>2 DEF Agreed

-----------------------------------------------------------------------------
(* The theorems about segments *)

\* Along every behaviour of shared memory (cygserver/shm.cc, cygwin/shm.cc on
\* cygserver/process.cc) the whole invariant holds: that of the cache, and what
\* the segments, the routines and the clients have to do with each other.
THEOREM ShmInductive == ShmSpec => []ShmInv
<1>1. ShmSpec => []IInv
  BY ShmUsesCache, Inductive, PTL DEF UsesCache
<1>2. ShmInit => SegmentIds
  BY NoSegmentShape DEF ShmInit, SegmentIds, Exists
<1>3. ShmInit => Truly /\ Protocol /\ Lists /\ Agreed
  <2>1. ShmInit => Lists
    BY DEF ShmInit, Lists
  <2> QED BY <2>1, TrulyInit, ProtocolInit, AgreedInit DEF ShmInit
<1>4. ShmInv /\ [ShmNext]_shmVars => SegmentIds' /\ Counts' /\ Covered'
  BY SegmentIdsStep, CountsStep, CoveredStep DEF ShmInv
<1>5. ShmInv /\ [ShmNext]_shmVars => Truly' /\ Protocol' /\ Lists' /\ Agreed'
  BY CacheStepOrNone, TrulyStep, ProtocolStep, ListsStep, AgreedStep DEF ShmInv
<1> QED BY <1>1, <1>2, <1>3, <1>4, <1>5, CountsInit, CoveredInit, PTL DEF ShmSpec, ShmInv

\* What the server counts (shm_nattch, _shm_atts, _shm_ids) is what there is, and
\* a segment marked by IPC_RMID is there only while somebody is attached to it.
THEOREM ShmCounts == ShmSpec => []CountsExact
BY ShmInductive, CountsAreExact, PTL DEF ShmInv

\* Every attachment that segment_t::attach made has its cleanup routine for as long
\* as the process object is there, and a running process has no routine too many.
THEOREM ShmAttachments == ShmSpec => []AttachmentsCovered
BY ShmInductive, CoveredAttachments, PTL DEF ShmInv

\* Client and server agree on what a running process has attached, but for what is
\* in flight: the list of client_shmmgr and the attach_t of server_shmmgr.
THEOREM ShmViews == ShmSpec => []ViewsAgree
BY ShmInductive, AgreedViews, PTL DEF ShmInv

=============================================================================
