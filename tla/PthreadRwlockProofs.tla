------------------------- MODULE PthreadRwlockProofs -------------------------
(***************************************************************************)
(* What TLAPS proves of the read-write lock, for any finite set of         *)
(* threads, however reckless, and any number of calls.                     *)
(*                                                                         *)
(* release decides by the counts of waiting readers and writers whom to    *)
(* wake.  They are exact (CountsExact): so a release that finds no waiting *)
(* writer leaves no sleeping one behind, and a destroy that finds no       *)
(* waiter leaves nobody inside, unless another thread uses the lock before *)
(* it is deleted (Deleting).  A fork leaves no reader of another thread    *)
(* (ReadersAlive).                                                         *)
(***************************************************************************)
EXTENDS PthreadRwlock, FiniteSetTheorems, TLAPS

\* The threads inside rdlock and inside wrlock
Rd == {t \in Thread : pc[t] \in ReaderSteps}
Wr == {t \in Thread : pc[t] \in WriterSteps}

ReadersAlive == \A t \in readers : pc[t] # "dead"

\* A sleeping writer has a holder before it, or a writer that will act; a
\* sleeping reader a writer or a waiting writer.
SleepersCovered ==
  /\ \A t \in Thread : pc[t] = "wsleep" =>
       \/ writer # None \/ readers # {}
       \/ \E u \in Thread : pc[u] \in {"wwoken", "wcanceled"}
  /\ \A t \in Thread : pc[t] = "rsleep" => writer # None \/ waiting_writers > 0

Core ==
  TypeOK /\ WriterExcludesReaders /\ ReadersAlive /\ CountsExact /\ SleepersCovered

\* While only one thread is in destroy and no other uses the lock, what destroy
\* has seen is still so.
Deleting ==
  ~late => \A t \in Thread : pc[t] \in DestroySteps =>
    /\ writer = None /\ readers = {}
    /\ \A u \in Thread : u # t => pc[u] \notin DestroySteps
    /\ pc[t] = "deleting" => waiting_readers = 0 /\ waiting_writers = 0

IInv == Core /\ Deleting /\ DestroyedUnused

-----------------------------------------------------------------------------
(* Counting *)

\* The sets that are counted are finite, and a set with a member has a
\* positive count.
LEMMA WaitersFinite ==
  /\ IsFiniteSet(Rd) /\ Cardinality(Rd) \in Nat
  /\ IsFiniteSet(Wr) /\ Cardinality(Wr) \in Nat
  /\ \A t \in Rd : Cardinality(Rd) > 0
  /\ \A t \in Wr : Cardinality(Wr) > 0
  /\ Cardinality(Rd) = 0 => Rd = {}
  /\ Cardinality(Wr) = 0 => Wr = {}
<1>1. IsFiniteSet(Rd) /\ IsFiniteSet(Wr)
  BY ThreadAssumption, FS_Subset DEF Rd, Wr
<1> QED BY <1>1, FS_CardinalityType, FS_EmptySet

\* A thread that joins the waiters adds one, a thread that leaves takes one off.
LEMMA Joins ==
  ASSUME NEW S, NEW t, IsFiniteSet(S), t \notin S
  PROVE  Cardinality(S \cup {t}) = Cardinality(S) + 1
BY FS_AddElement

LEMMA Leaves ==
  ASSUME NEW S, NEW t, IsFiniteSet(S), t \in S
  PROVE  Cardinality(S \ {t}) = Cardinality(S) - 1
BY FS_RemoveElement

-----------------------------------------------------------------------------
(* release *)

\* What release does to the threads: the caller goes on, sleepers are woken or
\* left asleep; with no readers a sleeping writer is woken, if there is one,
\* and with no waiting writer all the sleeping readers.
LEMMA Released ==
  ASSUME TypeOK, NEW t \in Thread, NEW rds, NEW wr \in Int, NEW ww \in Int,
         Release(t, "idle", rds, wr, ww)
  PROVE  /\ pc' \in [Thread -> Steps]
         /\ pc'[t] = "idle"
         /\ \A u \in Thread : u # t =>
              \/ pc'[u] = pc[u]
              \/ pc[u] = "wsleep" /\ pc'[u] = "wwoken"
              \/ pc[u] = "rsleep" /\ pc'[u] = "rwoken"
         /\ ww > 0 /\ rds = {} =>
              \/ \A u \in Thread : pc'[u] # "wsleep"
              \/ \E u \in Thread : pc'[u] = "wwoken"
         /\ ww = 0 /\ wr > 0 => \A u \in Thread : pc'[u] # "rsleep"
         /\ ww > 0 \/ ww = 0
<1>1. ASSUME NEW u \in At("wsleep") \ {t},
             pc' = [pc EXCEPT ![t] = "idle", ![u] = "wwoken"], ww > 0
      PROVE  /\ pc' \in [Thread -> Steps]
             /\ pc'[t] = "idle" /\ pc'[u] = "wwoken" /\ pc[u] = "wsleep"
             /\ \A v \in Thread : v # t /\ v # u => pc'[v] = pc[v]
  BY <1>1 DEF TypeOK, At, Steps, WriterSteps, ReaderSteps
<1>2. ASSUME Goto(t, "idle")
      PROVE  /\ pc' \in [Thread -> Steps]
             /\ pc'[t] = "idle"
             /\ \A v \in Thread : v # t => pc'[v] = pc[v]
  BY <1>2 DEF TypeOK, Goto, Steps
<1>3. CASE ww > 0 /\ rds = {} /\ At("wsleep") \ {t} # {}
  <2>1. PICK u \in At("wsleep") \ {t} : pc' = [pc EXCEPT ![t] = "idle", ![u] = "wwoken"]
    BY <1>3 DEF Release
  <2>2. u \in Thread
    BY DEF At
  <2>3. /\ pc' \in [Thread -> Steps]
        /\ pc'[t] = "idle" /\ pc'[u] = "wwoken" /\ pc[u] = "wsleep"
        /\ \A v \in Thread : v # t /\ v # u => pc'[v] = pc[v]
    BY <1>1, <1>3, <2>1
  <2> QED BY <1>3, <2>2, <2>3
<1>4. CASE ww > 0 /\ (rds # {} \/ At("wsleep") \ {t} = {})
  <2>1. Goto(t, "idle")
    BY <1>4 DEF Release
  <2>2. rds = {} => \A u \in Thread : u # t => pc[u] # "wsleep"
    BY <1>4 DEF At
  <2> QED BY <1>2, <1>4, <2>1, <2>2
<1>5. CASE ww = 0 /\ wr > 0
  <2>1. pc' = [u \in Thread |-> IF u = t THEN "idle"
                                ELSE IF pc[u] = "rsleep" THEN "rwoken" ELSE pc[u]]
    BY <1>5 DEF Release
  <2> QED BY <1>5, <2>1 DEF TypeOK, Steps, ReaderSteps
<1>6. CASE ww = 0 /\ wr = 0
  BY <1>2, <1>6 DEF Release
<1> QED BY <1>3, <1>4, <1>5, <1>6 DEF Release

\* A release leaves the sets of waiters as they are, but for the caller.
LEMMA ReleasedSets ==
  ASSUME TypeOK, NEW t \in Thread, pc'[t] = "idle",
         \A u \in Thread : u # t =>
              \/ pc'[u] = pc[u]
              \/ pc[u] = "wsleep" /\ pc'[u] = "wwoken"
              \/ pc[u] = "rsleep" /\ pc'[u] = "rwoken"
  PROVE  Rd' = Rd \ {t} /\ Wr' = Wr \ {t}
BY DEF Rd, Wr, ReaderSteps, WriterSteps

-----------------------------------------------------------------------------
(* The steps *)

\* The counts of a step in which one thread goes to sleep, or stays where it
\* is with respect to the counts.
LEMMA Moved ==
  ASSUME Core, NEW t \in Thread, NEW step \in Steps, pc' = [pc EXCEPT ![t] = step]
  PROVE  /\ Rd' = IF step \in ReaderSteps THEN Rd \cup {t} ELSE Rd \ {t}
         /\ Wr' = IF step \in WriterSteps THEN Wr \cup {t} ELSE Wr \ {t}
         /\ pc' \in [Thread -> Steps]
         /\ pc'[t] = step
         /\ \A u \in Thread : u # t => pc'[u] = pc[u]
BY DEF Core, TypeOK, Rd, Wr

\* The first time through the loop of rdlock, and again after a wakeup.
LEMMA ReadStep ==
  ASSUME Core, NEW t \in Thread, t \notin Wr, pc[t] # "dead",
         \/ t \notin Rd /\ ReadOrSleep(t, waiting_readers, waiting_writers)
         \/ t \in Rd /\ ReadOrSleep(t, waiting_readers - 1, waiting_writers),
         UNCHANGED <<writer, waiting_writers, rwlock>>, calls' \in [Thread -> Nat],
         late' \in BOOLEAN
  PROVE  Core'
<1> DEFINE wr == Cardinality(Rd \ {t})
<1>1. /\ wr \in Nat /\ Cardinality(Rd \cup {t}) = wr + 1
      /\ ReadOrSleep(t, wr, waiting_writers)
  <2>1. waiting_readers = Cardinality(Rd)
    BY DEF Core, CountsExact, Rd
  <2>2. CASE t \notin Rd
    <3>1. Rd \ {t} = Rd
      BY <2>2
    <3>2. Cardinality(Rd) \in Nat /\ Cardinality(Rd \cup {t}) = Cardinality(Rd) + 1
      BY <2>2, Joins, WaitersFinite
    <3> QED BY <2>1, <2>2, <3>1, <3>2 DEF ReadOrSleep, WriteOrSleep
  <2>3. CASE t \in Rd
    <3>1. Rd \cup {t} = Rd
      BY <2>3
    <3>2. wr = waiting_readers - 1 /\ wr \in Nat
      BY <2>1, <2>3, Leaves, WaitersFinite, FS_RemoveElement, FS_CardinalityType
    <3>3. Cardinality(Rd \cup {t}) = wr + 1
      <4>1. Cardinality(Rd \cup {t}) = waiting_readers /\ waiting_readers \in Nat
        BY <2>1, <3>1, WaitersFinite
      <4> QED BY <3>2, <4>1
    <3>4. ReadOrSleep(t, wr, waiting_writers)
      BY <2>3, <3>2 DEF ReadOrSleep
    <3> QED BY <3>2, <3>3, <3>4
  <2> QED BY <2>2, <2>3
<1> HIDE DEF wr
<1>2. CASE /\ writer # None \/ waiting_writers > 0
           /\ waiting_readers' = wr + 1
           /\ Goto(t, "rsleep")
           /\ UNCHANGED <<readers, ret>>
  <2>1. /\ Rd' = Rd \cup {t} /\ Wr' = Wr /\ pc' \in [Thread -> Steps]
        /\ pc'[t] = "rsleep" /\ \A u \in Thread : u # t => pc'[u] = pc[u]
    <3>1. "rsleep" \in Steps /\ "rsleep" \in ReaderSteps /\ "rsleep" \notin WriterSteps
      BY DEF Steps, ReaderSteps, WriterSteps
    <3>2. pc' = [pc EXCEPT ![t] = "rsleep"]
      BY <1>2 DEF Goto
    <3>3. Wr \ {t} = Wr
      OBVIOUS
    <3> QED BY <3>1, <3>2, <3>3, Moved
  <2>2. TypeOK'
    BY <1>1, <1>2, <2>1 DEF Core, TypeOK
  <2>3. CountsExact'
    BY <1>1, <1>2, <2>1 DEF Core, CountsExact, Rd, Wr
  <2>4. SleepersCovered'
    BY <1>2, <2>1 DEF Core, TypeOK, SleepersCovered, Wr, WriterSteps
  <2> QED BY <1>2, <2>1, <2>2, <2>3, <2>4
          DEF Core, TypeOK, WriterExcludesReaders, ReadersAlive
<1>3. CASE /\ writer = None /\ waiting_writers = 0
           /\ waiting_readers' = wr
           /\ readers' = readers \cup {t}
           /\ Answer(t, "OK")
           /\ Goto(t, "idle")
  <2>1. /\ Rd' = Rd \ {t} /\ Wr' = Wr /\ pc' \in [Thread -> Steps]
        /\ pc'[t] = "idle" /\ \A u \in Thread : u # t => pc'[u] = pc[u]
    <3>1. "idle" \in Steps /\ "idle" \notin ReaderSteps /\ "idle" \notin WriterSteps
      BY DEF Steps, ReaderSteps, WriterSteps
    <3>2. pc' = [pc EXCEPT ![t] = "idle"]
      BY <1>3 DEF Goto
    <3>3. Wr \ {t} = Wr
      OBVIOUS
    <3> QED BY <3>1, <3>2, <3>3, Moved
  <2>2. TypeOK'
    BY <1>1, <1>3, <2>1 DEF Core, TypeOK, Answer, Codes
  <2>3. CountsExact'
    BY <1>3, <2>1 DEF Core, CountsExact, Rd, Wr, wr
  <2>4. SleepersCovered'
    BY <1>3, <2>1 DEF Core, TypeOK, SleepersCovered
  <2> QED BY <1>3, <2>1, <2>2, <2>3, <2>4
          DEF Core, TypeOK, WriterExcludesReaders, ReadersAlive
<1> QED BY <1>1, <1>2, <1>3 DEF ReadOrSleep

\* The same for wrlock.
LEMMA WriteStep ==
  ASSUME Core, NEW t \in Thread, t \notin Rd, pc[t] # "dead",
         \/ t \notin Wr /\ WriteOrSleep(t, waiting_writers)
         \/ t \in Wr /\ WriteOrSleep(t, waiting_writers - 1),
         UNCHANGED <<readers, waiting_readers, rwlock>>, calls' \in [Thread -> Nat],
         late' \in BOOLEAN
  PROVE  Core'
<1> DEFINE ww == Cardinality(Wr \ {t})
<1>1. /\ ww \in Nat /\ Cardinality(Wr \cup {t}) = ww + 1 /\ WriteOrSleep(t, ww)
      /\ waiting_writers = ww \/ waiting_writers = ww + 1
  <2>1. waiting_writers = Cardinality(Wr)
    BY DEF Core, CountsExact, Wr
  <2>2. CASE t \notin Wr
    <3>1. Wr \ {t} = Wr
      BY <2>2
    <3>2. Cardinality(Wr) \in Nat /\ Cardinality(Wr \cup {t}) = Cardinality(Wr) + 1
      BY <2>2, Joins, WaitersFinite
    <3> QED BY <2>1, <2>2, <3>1, <3>2 DEF ReadOrSleep, WriteOrSleep
  <2>3. CASE t \in Wr
    <3>1. Wr \cup {t} = Wr
      BY <2>3
    <3>2. ww = waiting_writers - 1 /\ ww \in Nat
      BY <2>1, <2>3, Leaves, WaitersFinite, FS_RemoveElement, FS_CardinalityType
    <3>3. Cardinality(Wr \cup {t}) = ww + 1 /\ waiting_writers = ww + 1
      <4>1. Cardinality(Wr \cup {t}) = waiting_writers /\ waiting_writers \in Nat
        BY <2>1, <3>1, WaitersFinite
      <4> QED BY <3>2, <4>1
    <3>4. WriteOrSleep(t, ww)
      BY <2>3, <3>2 DEF WriteOrSleep
    <3> QED BY <3>2, <3>3, <3>4
  <2> QED BY <2>2, <2>3
<1> HIDE DEF ww
<1>2. CASE /\ writer # None \/ readers # {}
           /\ waiting_writers' = ww + 1
           /\ Goto(t, "wsleep")
           /\ UNCHANGED <<writer, ret>>
  <2>1. /\ Wr' = Wr \cup {t} /\ Rd' = Rd /\ pc' \in [Thread -> Steps]
        /\ pc'[t] = "wsleep" /\ \A u \in Thread : u # t => pc'[u] = pc[u]
    <3>1. "wsleep" \in Steps /\ "wsleep" \notin ReaderSteps /\ "wsleep" \in WriterSteps
      BY DEF Steps, ReaderSteps, WriterSteps
    <3>2. pc' = [pc EXCEPT ![t] = "wsleep"]
      BY <1>2 DEF Goto
    <3>3. Rd \ {t} = Rd
      OBVIOUS
    <3> QED BY <3>1, <3>2, <3>3, Moved
  <2>2. TypeOK'
    BY <1>1, <1>2, <2>1 DEF Core, TypeOK
  <2>3. CountsExact'
    BY <1>1, <1>2, <2>1 DEF Core, CountsExact, Rd, Wr
  <2>4. SleepersCovered'
    BY <1>1, <1>2, <2>1 DEF Core, TypeOK, SleepersCovered
  <2> QED BY <1>2, <2>1, <2>2, <2>3, <2>4
          DEF Core, TypeOK, WriterExcludesReaders, ReadersAlive
<1>3. CASE /\ writer = None /\ readers = {}
           /\ waiting_writers' = ww
           /\ writer' = t
           /\ Answer(t, "OK")
           /\ Goto(t, "idle")
  <2>1. /\ Wr' = Wr \ {t} /\ Rd' = Rd /\ pc' \in [Thread -> Steps]
        /\ pc'[t] = "idle" /\ \A u \in Thread : u # t => pc'[u] = pc[u]
    <3>1. "idle" \in Steps /\ "idle" \notin ReaderSteps /\ "idle" \notin WriterSteps
      BY DEF Steps, ReaderSteps, WriterSteps
    <3>2. pc' = [pc EXCEPT ![t] = "idle"]
      BY <1>3 DEF Goto
    <3>3. Rd \ {t} = Rd
      OBVIOUS
    <3> QED BY <3>1, <3>2, <3>3, Moved
  <2>2. TypeOK'
    BY <1>1, <1>3, <2>1 DEF Core, TypeOK, Answer, Codes
  <2>3. CountsExact'
    BY <1>3, <2>1 DEF Core, CountsExact, Rd, Wr, ww
  <2>4. SleepersCovered'
    BY <1>3, <2>1, ThreadAssumption DEF Core, TypeOK, SleepersCovered
  <2> QED BY <1>3, <2>1, <2>2, <2>3, <2>4
          DEF Core, TypeOK, WriterExcludesReaders, ReadersAlive
<1> QED BY <1>1, <1>2, <1>3 DEF WriteOrSleep

\* A call that leaves the threads and the counts alone.
LEMMA CallStepKeeps ==
  ASSUME Core, UNCHANGED <<waits, rwlock, pc>>,
         writer' \in Thread \cup {None}, readers' \in SUBSET Thread,
         calls' \in [Thread -> Nat], ret' \in [Thread -> Codes], late' \in BOOLEAN,
         WriterExcludesReaders', ReadersAlive',
         writer # None => writer' # None, readers \subseteq readers'
  PROVE  Core'
<1>1. TypeOK'
  BY DEF Core, TypeOK, waits
<1>2. CountsExact'
  BY DEF Core, CountsExact, waits
<1>3. SleepersCovered'
  BY DEF Core, SleepersCovered, waits
<1> QED BY <1>1, <1>2, <1>3 DEF Core

\* A step that ends in release, by thread t, which is counted no longer.
LEMMA ReleaseStep ==
  ASSUME Core, NEW t \in Thread, pc[t] # "dead",
         waiting_readers' = Cardinality(Rd \ {t}),
         waiting_writers' = Cardinality(Wr \ {t}),
         Release(t, "idle", readers', waiting_readers', waiting_writers'),
         writer' \in {writer, None}, readers' \subseteq readers,
         writer' = writer => readers' = readers \/ writer = None,
         UNCHANGED <<rwlock, calls>>, ret' \in [Thread -> Codes], late' \in BOOLEAN
  PROVE  Core'
<1>1. waiting_readers' \in Nat /\ waiting_writers' \in Nat
  BY WaitersFinite, FS_RemoveElement, FS_CardinalityType
<1>2. /\ pc' \in [Thread -> Steps]
      /\ pc'[t] = "idle"
      /\ \A u \in Thread : u # t =>
           \/ pc'[u] = pc[u]
           \/ pc[u] = "wsleep" /\ pc'[u] = "wwoken"
           \/ pc[u] = "rsleep" /\ pc'[u] = "rwoken"
      /\ waiting_writers' > 0 /\ readers' = {} =>
           \/ \A u \in Thread : pc'[u] # "wsleep"
           \/ \E u \in Thread : pc'[u] = "wwoken"
      /\ waiting_writers' = 0 /\ waiting_readers' > 0 =>
           \A u \in Thread : pc'[u] # "rsleep"
  BY <1>1, Released DEF Core
<1>3. Rd' = Rd \ {t} /\ Wr' = Wr \ {t}
  BY <1>2, ReleasedSets DEF Core
<1>4. TypeOK'
  BY <1>1, <1>2 DEF Core, TypeOK
<1>5. CountsExact'
  BY <1>3 DEF CountsExact, Rd, Wr
<1>6. ReadersAlive'
  BY <1>2 DEF Core, TypeOK, ReadersAlive
<1>7. \A u \in Thread : pc'[u] = "wsleep" => waiting_writers' > 0
  <2>1. \A u \in Thread : pc'[u] = "wsleep" => u \in Wr \ {t}
    <3>1. \A u \in Thread : pc'[u] = "wsleep" => u \in Wr'
      BY DEF Wr, WriterSteps
    <3> QED BY <1>3, <3>1
  <2>2. IsFiniteSet(Wr \ {t})
    BY WaitersFinite, FS_RemoveElement
  <2>3. Wr \ {t} # {} => Cardinality(Wr \ {t}) # 0
    BY <2>2, FS_EmptySet
  <2> QED BY <1>1, <2>1, <2>3
<1>8. \A u \in Thread : pc'[u] = "rsleep" => waiting_readers' > 0
  <2>1. \A u \in Thread : pc'[u] = "rsleep" => u \in Rd \ {t}
    <3>1. \A u \in Thread : pc'[u] = "rsleep" => u \in Rd'
      BY DEF Rd, ReaderSteps
    <3> QED BY <1>3, <3>1
  <2>2. IsFiniteSet(Rd \ {t})
    BY WaitersFinite, FS_RemoveElement
  <2>3. Rd \ {t} # {} => Cardinality(Rd \ {t}) # 0
    BY <2>2, FS_EmptySet
  <2> QED BY <1>1, <2>1, <2>3
<1>9. SleepersCovered'
  BY <1>1, <1>2, <1>7, <1>8 DEF SleepersCovered
<1> QED BY <1>4, <1>5, <1>6, <1>9 DEF Core, WriterExcludesReaders

\* fork leaves the child one thread, which waits for nothing.
LEMMA ForkStep ==
  ASSUME Core, NEW t \in Thread, Fork(t)
  PROVE  Core'
<1>1. pc' = [u \in Thread |-> IF u = t THEN "idle" ELSE "dead"]
  BY DEF Fork
<1>2. Rd' = {} /\ Wr' = {}
  BY <1>1 DEF Rd, Wr, ReaderSteps, WriterSteps
<1>3. TypeOK'
  BY <1>1 DEF Core, TypeOK, Fork, Steps
<1>4. CountsExact'
  BY <1>2, FS_EmptySet DEF Fork, CountsExact, Rd, Wr
<1>5. ReadersAlive'
  BY <1>1 DEF Fork, ReadersAlive
<1>6. SleepersCovered'
  BY <1>1 DEF SleepersCovered
<1> QED BY <1>3, <1>4, <1>5, <1>6 DEF Core, Fork, WriterExcludesReaders

\* A cancelled sleeper is still counted.
LEMMA CancelStep ==
  ASSUME Core, NEW t \in Thread, Cancel(t), late' \in BOOLEAN
  PROVE  Core'
<1>1. /\ pc' \in [Thread -> Steps]
      /\ \A u \in Thread : u # t => pc'[u] = pc[u]
      /\ \/ pc[t] = "rsleep" /\ pc'[t] = "rcanceled"
         \/ pc[t] = "wsleep" /\ pc'[t] = "wcanceled"
  BY DEF Cancel, Goto, Core, TypeOK, Steps, ReaderSteps, WriterSteps
<1>2. Rd' = Rd /\ Wr' = Wr
  BY <1>1 DEF Rd, Wr, ReaderSteps, WriterSteps
<1>3. TypeOK'
  BY <1>1 DEF Core, TypeOK, Cancel, waits
<1>4. CountsExact'
  BY <1>2 DEF Core, Cancel, waits, CountsExact, Rd, Wr
<1>5. ReadersAlive'
  BY <1>1 DEF Core, TypeOK, Cancel, ReadersAlive
<1>6. SleepersCovered'
  BY <1>1 DEF Core, Cancel, waits, SleepersCovered
<1> QED BY <1>1, <1>3, <1>4, <1>5, <1>6
        DEF Core, Cancel, WriterExcludesReaders

\* destroy and its steps change none of what the others wait for.
LEMMA DestroyStepCore ==
  ASSUME Core, NEW t \in Thread, DestroyStep(t)
  PROVE  Core'
<1>1. \E step \in {"idle", "checking", "deleting"} : pc' = [pc EXCEPT ![t] = step]
  BY DEF Core, TypeOK, DestroyStep, Destroy, DestroyWaits, Delete, Goto
<1>2. pc[t] \in {"idle", "checking", "deleting"}
  BY DEF DestroyStep, Destroy, DestroyWaits, Delete
<1>3. /\ pc' \in [Thread -> Steps]
      /\ \A u \in Thread : u # t => pc'[u] = pc[u]
      /\ pc'[t] \in {"idle", "checking", "deleting"}
  BY <1>1 DEF Core, TypeOK, Steps, DestroySteps
<1>4. Rd' = Rd /\ Wr' = Wr
  BY <1>2, <1>3 DEF Rd, Wr, ReaderSteps, WriterSteps
<1>5. UNCHANGED <<writer, readers, waits, calls>>
  BY DEF DestroyStep, Destroy, DestroyWaits, Delete
<1>6. rwlock' \in {"object", "null"} /\ late' \in BOOLEAN /\ ret' \in [Thread -> Codes]
  BY DEF Core, TypeOK, DestroyStep, Destroy, DestroyWaits, Delete, Answer, Codes
<1>7. TypeOK'
  BY <1>3, <1>5, <1>6 DEF Core, TypeOK, waits
<1>8. CountsExact'
  BY <1>4, <1>5 DEF Core, waits, CountsExact, Rd, Wr
<1>9. ReadersAlive' /\ WriterExcludesReaders'
  BY <1>3, <1>5 DEF Core, TypeOK, ReadersAlive, WriterExcludesReaders
<1>10. SleepersCovered'
  BY <1>2, <1>3, <1>5 DEF Core, waits, SleepersCovered
<1> QED BY <1>7, <1>8, <1>9, <1>10 DEF Core

\* destroy has seen nobody hold the lock and then nobody wait for it, and knows
\* it while it is alone.
LEMMA DestroyStepDeleting ==
  ASSUME IInv, NEW t \in Thread, DestroyStep(t)
  PROVE  Deleting' /\ DestroyedUnused'
<1>1. TypeOK /\ rwlock = "object"
  BY DEF IInv, Core, DestroyStep, Destroy, DestroyWaits, Delete
<1>2. CASE Destroy(t)
  <2>1. late' = FALSE => \A u \in Thread : pc[u] \notin DestroySteps
    BY <1>2 DEF Destroy, At, DestroySteps
  <2>2. /\ UNCHANGED <<writer, readers, rwlock>>
        /\ \A u \in Thread : u # t => pc'[u] = pc[u]
        /\ (pc'[t] = "checking" /\ writer = None /\ readers = {}) \/ pc'[t] = pc[t]
    BY <1>1, <1>2 DEF Destroy, Goto, TypeOK
  <2> QED BY <1>1, <2>1, <2>2 DEF Deleting, DestroyedUnused, DestroySteps
<1>3. CASE DestroyWaits(t)
  <2>1. /\ UNCHANGED <<writer, readers, waits, rwlock, late>>
        /\ \A u \in Thread : u # t => pc'[u] = pc[u]
        /\ \/ pc'[t] = "deleting" /\ waiting_readers = 0 /\ waiting_writers = 0
           \/ pc'[t] = "idle"
        /\ pc[t] = "checking"
    BY <1>1, <1>3 DEF DestroyWaits, Goto, TypeOK
  <2> QED BY <1>1, <2>1 DEF IInv, Deleting, DestroyedUnused, DestroySteps, waits
<1>4. CASE Delete(t)
  <2>1. /\ UNCHANGED <<writer, readers, waits, late>>
        /\ \A u \in Thread : u # t => pc'[u] = pc[u]
        /\ pc'[t] = "idle" /\ pc[t] = "deleting"
    BY <1>1, <1>4 DEF Delete, Goto, TypeOK
  <2>2. CASE ~late
    <3>1. /\ writer = None /\ readers = {}
          /\ \A u \in Thread : u # t => pc[u] \notin DestroySteps
          /\ waiting_readers = 0 /\ waiting_writers = 0
      BY <2>1, <2>2 DEF IInv, Deleting, DestroySteps
    <3>2. Rd = {} /\ Wr = {}
      BY <3>1, WaitersFinite DEF IInv, Core, CountsExact, Rd, Wr
    <3>3. \A u \in Thread : u # t => pc[u] \in {"idle", "dead"}
      BY <1>1, <3>1, <3>2 DEF TypeOK, Rd, Wr, Steps
    <3> QED BY <2>1, <3>1, <3>3 DEF Deleting, DestroyedUnused, DestroySteps
  <2>3. CASE late
    BY <2>1, <2>3 DEF Deleting, DestroyedUnused
  <2> QED BY <2>2, <2>3
<1> QED BY <1>2, <1>3, <1>4 DEF DestroyStep

\* Nobody gets into destroy by another call, and if somebody is in it then that
\* call is noted.
LEMMA UseStepDeleting ==
  ASSUME IInv, NEW t \in Thread, UseStep(t)
  PROVE  Deleting' /\ DestroyedUnused'
<1>1. TypeOK /\ rwlock = "object"
  BY DEF IInv, Core, UseStep
<1>2. late' = FALSE => \A u \in Thread : pc[u] \notin DestroySteps
  BY DEF UseStep, At, DestroySteps
<1>3. \A u \in Thread : pc'[u] \in DestroySteps => pc[u] \in DestroySteps
  <2>1. ASSUME NEW step \in Steps \ DestroySteps, Goto(t, step)
        PROVE  \A u \in Thread : pc'[u] \in DestroySteps => pc[u] \in DestroySteps
    BY <1>1, <2>1 DEF Goto, TypeOK
  <2>2. {"idle", "rsleep", "wsleep", "rcanceled", "wcanceled"} \subseteq Steps \ DestroySteps
    BY DEF Steps, DestroySteps, ReaderSteps, WriterSteps
  <2>3. ASSUME NEW rds, NEW wr \in Int, NEW ww \in Int, Release(t, "idle", rds, wr, ww)
        PROVE  \A u \in Thread : pc'[u] \in DestroySteps => pc[u] \in DestroySteps
    BY <1>1, <2>3, Released DEF DestroySteps
  <2>4. waiting_readers - 1 \in Int /\ waiting_writers - 1 \in Int
        /\ waiting_readers \in Int /\ waiting_writers \in Int
    BY <1>1 DEF TypeOK
  <2>5. CASE Rdlock(t) \/ Tryrdlock(t) \/ RdWoken(t)
    BY <2>1, <2>2, <2>5 DEF Rdlock, Tryrdlock, RdWoken, ReadOrSleep
  <2>6. CASE Wrlock(t) \/ Trywrlock(t) \/ WrWoken(t)
    BY <2>1, <2>2, <2>6 DEF Wrlock, Trywrlock, WrWoken, WriteOrSleep
  <2>7. CASE Unlock(t)
    BY <2>3, <2>4, <2>7 DEF Unlock
  <2>8. CASE RdlockCleanup(t) \/ WrlockCleanup(t)
    BY <2>3, <2>4, <2>8 DEF RdlockCleanup, WrlockCleanup
  <2>9. CASE Cancel(t)
    BY <2>1, <2>2, <2>9 DEF Cancel
  <2> QED BY <2>5, <2>6, <2>7, <2>8, <2>9 DEF UseStep, CallStep, WaitStep
<1>4. rwlock' = "object"
  BY <1>1 DEF UseStep, CallStep, WaitStep, Rdlock, Tryrdlock, Wrlock, Trywrlock, Unlock,
              RdWoken, WrWoken, RdlockCleanup, WrlockCleanup, Cancel
<1>5. late' \in BOOLEAN
  BY <1>1 DEF UseStep, TypeOK
<1> QED BY <1>2, <1>3, <1>4, <1>5 DEF Deleting, DestroyedUnused

\* A call, a woken or a cancelled thread.
LEMMA UseStepCore ==
  ASSUME Core, NEW t \in Thread, UseStep(t)
  PROVE  Core'
<1>0. late' \in BOOLEAN
  BY DEF Core, TypeOK, UseStep
<1>1. ASSUME Call(t)
      PROVE  /\ t \notin Rd /\ t \notin Wr /\ pc[t] # "dead"
             /\ calls' \in [Thread -> Nat]
  BY <1>1 DEF Core, TypeOK, Call, Rd, Wr, ReaderSteps, WriterSteps
<1>2. \A code \in Codes : Answer(t, code) => ret' \in [Thread -> Codes]
  BY DEF Core, TypeOK, Answer
<1>3. {"OK", "EDEADLK", "EBUSY", "EPERM", "EAGAIN", "CANCELED"} \subseteq Codes
  BY DEF Codes
<1>4. CASE Rdlock(t)
  <2>1. CASE t \in readers
    <3>1. UNCHANGED <<writer, readers, waits, rwlock, pc>> /\ Answer(t, "EDEADLK")
      BY <1>4, <2>1 DEF Rdlock, waits
    <3> QED BY <1>0, <1>1, <1>2, <1>3, <1>4, <3>1, CallStepKeeps
            DEF Core, TypeOK, Rdlock, WriterExcludesReaders, ReadersAlive
  <2>2. CASE /\ t \notin readers /\ Answer(t, "EAGAIN")
             /\ UNCHANGED <<readers, waiting_readers, pc>>
    <3>1. UNCHANGED <<writer, readers, waits, rwlock, pc>>
      BY <1>4, <2>2 DEF Rdlock, waits
    <3> QED BY <1>0, <1>1, <1>2, <1>3, <1>4, <2>2, <3>1, CallStepKeeps
            DEF Core, TypeOK, Rdlock, WriterExcludesReaders, ReadersAlive
  <2>3. CASE t \notin readers /\ ReadOrSleep(t, waiting_readers, waiting_writers)
    BY <1>0, <1>1, <1>4, <2>3, ReadStep DEF Rdlock
  <2> QED BY <1>4, <2>1, <2>2, <2>3 DEF Rdlock
<1>5. CASE Tryrdlock(t)
  <2>1. WriterExcludesReaders' /\ ReadersAlive' /\ readers \subseteq readers'
    BY <1>1, <1>5 DEF Core, Tryrdlock, WriterExcludesReaders, ReadersAlive
  <2>2. readers' \in SUBSET Thread /\ ret' \in [Thread -> Codes]
    BY <1>2, <1>3, <1>5 DEF Core, TypeOK, Tryrdlock
  <2> QED BY <1>0, <1>1, <1>5, <2>1, <2>2, CallStepKeeps DEF Core, TypeOK, Tryrdlock
<1>6. CASE Wrlock(t)
  <2>1. CASE writer = t \/ t \in readers
    <3>1. UNCHANGED <<writer, readers, waits, rwlock, pc>> /\ Answer(t, "EDEADLK")
      BY <1>6, <2>1 DEF Wrlock, waits
    <3> QED BY <1>0, <1>1, <1>2, <1>3, <1>6, <3>1, CallStepKeeps
            DEF Core, TypeOK, Wrlock, WriterExcludesReaders, ReadersAlive
  <2>2. CASE ~(writer = t \/ t \in readers)
    BY <1>0, <1>1, <1>6, <2>2, WriteStep DEF Wrlock
  <2> QED BY <2>1, <2>2
<1>7. CASE Trywrlock(t)
  <2>1. WriterExcludesReaders' /\ ReadersAlive'
    BY <1>7 DEF Core, Trywrlock, WriterExcludesReaders, ReadersAlive
  <2>2. /\ writer' \in Thread \cup {None} /\ ret' \in [Thread -> Codes]
        /\ writer # None => writer' # None
    BY <1>2, <1>3, <1>7 DEF Core, TypeOK, Trywrlock
  <2> QED BY <1>0, <1>1, <1>7, <2>1, <2>2, CallStepKeeps DEF Core, TypeOK, Trywrlock
<1>8. CASE Unlock(t)
  <2>1. Rd \ {t} = Rd /\ Wr \ {t} = Wr /\ pc[t] # "dead"
    BY <1>8 DEF Unlock, Rd, Wr, ReaderSteps, WriterSteps
  <2>2. waiting_readers' = Cardinality(Rd \ {t}) /\ waiting_writers' = Cardinality(Wr \ {t})
    BY <1>8, <2>1 DEF Unlock, waits, Core, CountsExact, Rd, Wr
  <2>3. ret' \in [Thread -> Codes]
    BY <1>2, <1>3, <1>8 DEF Unlock
  <2>4. CASE writer # t /\ (writer # None \/ t \notin readers)
    <3>1. UNCHANGED <<writer, readers, waits, rwlock, pc, calls>>
      BY <1>8, <2>4, ThreadAssumption DEF Unlock
    <3> QED BY <1>0, <2>1, <2>3, <3>1, CallStepKeeps
            DEF Core, TypeOK, WriterExcludesReaders, ReadersAlive
  <2>5. CASE writer = t \/ (writer = None /\ t \in readers)
    <3>1. /\ Release(t, "idle", readers', waiting_readers', waiting_writers')
          /\ writer' \in {writer, None} /\ readers' \subseteq readers
          /\ writer' = writer => readers' = readers \/ writer = None
          /\ UNCHANGED <<rwlock, calls>>
      BY <1>8, <2>5, ThreadAssumption DEF Unlock, waits, Release, Goto
    <3> QED BY <1>0, <2>1, <2>2, <2>3, <3>1, ReleaseStep
  <2> QED BY <2>4, <2>5
<1>10. CASE RdWoken(t)
  <2>1. t \in Rd /\ t \notin Wr /\ pc[t] # "dead"
    BY <1>10 DEF RdWoken, Rd, Wr, ReaderSteps, WriterSteps
  <2> QED BY <1>0, <1>10, <2>1, ReadStep DEF Core, TypeOK, RdWoken
<1>11. CASE WrWoken(t)
  <2>1. t \in Wr /\ t \notin Rd /\ pc[t] # "dead"
    BY <1>11 DEF WrWoken, Rd, Wr, ReaderSteps, WriterSteps
  <2> QED BY <1>0, <1>11, <2>1, WriteStep DEF Core, TypeOK, WrWoken
<1>12. CASE RdlockCleanup(t)
  <2>1. t \in Rd /\ Wr \ {t} = Wr /\ pc[t] # "dead"
    BY <1>12 DEF RdlockCleanup, Rd, Wr, ReaderSteps, WriterSteps
  <2>2. waiting_readers = Cardinality(Rd) /\ waiting_writers = Cardinality(Wr)
    BY DEF Core, CountsExact, Rd, Wr
  <2>3. waiting_readers' = Cardinality(Rd \ {t}) /\ waiting_writers' = Cardinality(Wr \ {t})
    BY <1>12, <2>1, <2>2, WaitersFinite, Leaves DEF RdlockCleanup
  <2>4. Release(t, "idle", readers', waiting_readers', waiting_writers')
    BY <1>12 DEF RdlockCleanup, Release, Goto
  <2> QED BY <1>0, <1>2, <1>3, <1>12, <2>1, <2>3, <2>4, ReleaseStep DEF RdlockCleanup
<1>13. CASE WrlockCleanup(t)
  <2>1. t \in Wr /\ Rd \ {t} = Rd /\ pc[t] # "dead"
    BY <1>13 DEF WrlockCleanup, Rd, Wr, ReaderSteps, WriterSteps
  <2>2. waiting_readers = Cardinality(Rd) /\ waiting_writers = Cardinality(Wr)
    BY DEF Core, CountsExact, Rd, Wr
  <2>3. waiting_readers' = Cardinality(Rd \ {t}) /\ waiting_writers' = Cardinality(Wr \ {t})
    BY <1>13, <2>1, <2>2, WaitersFinite, Leaves DEF WrlockCleanup
  <2>4. Release(t, "idle", readers', waiting_readers', waiting_writers')
    BY <1>13 DEF WrlockCleanup, Release, Goto
  <2> QED BY <1>0, <1>2, <1>3, <1>13, <2>1, <2>3, <2>4, ReleaseStep DEF WrlockCleanup
<1>14. CASE Cancel(t)
  BY <1>0, <1>14, CancelStep
<1> QED BY <1>4, <1>5, <1>6, <1>7, <1>8, <1>10, <1>11, <1>12, <1>13, <1>14
        DEF UseStep, CallStep, WaitStep

\* Every step of every thread preserves the invariant.
LEMMA StepInv == IInv /\ [Next]_vars => IInv'
<1> SUFFICES ASSUME IInv, [Next]_vars PROVE IInv'
  OBVIOUS
<1>1. CASE UNCHANGED vars
  BY <1>1 DEF vars, lock, IInv, Core, TypeOK, WriterExcludesReaders, ReadersAlive,
              CountsExact, SleepersCovered, Deleting, DestroyedUnused
<1>2. ASSUME NEW t \in Thread, UseStep(t) PROVE IInv'
  BY <1>2, UseStepCore, UseStepDeleting DEF IInv
<1>3. ASSUME NEW t \in Thread, DestroyStep(t) PROVE IInv'
  BY <1>3, DestroyStepCore, DestroyStepDeleting DEF IInv
<1>4. ASSUME NEW t \in Thread, Fork(t) PROVE IInv'
  <2>1. \A u \in Thread : pc'[u] \notin DestroySteps
    BY <1>4 DEF Fork, DestroySteps
  <2>2. rwlock' = "object"
    BY <1>4 DEF Fork
  <2> QED BY <1>4, <2>1, <2>2, ForkStep DEF IInv, Deleting, DestroyedUnused
<1> QED BY <1>1, <1>2, <1>3, <1>4 DEF Next

LEMMA InitInv == Init => IInv
<1> SUFFICES ASSUME Init PROVE IInv
  OBVIOUS
<1>1. TypeOK /\ WriterExcludesReaders /\ ReadersAlive /\ DestroyedUnused /\ SleepersCovered
  BY DEF Init, TypeOK, WriterExcludesReaders, ReadersAlive, DestroyedUnused,
         SleepersCovered, Steps, Codes
<1>2. /\ {t \in Thread : pc[t] \in ReaderSteps} = {}
      /\ {t \in Thread : pc[t] \in WriterSteps} = {}
  BY DEF Init, ReaderSteps, WriterSteps
<1>3. CountsExact
  BY <1>2, FS_EmptySet DEF Init, CountsExact
<1>4. Deleting
  BY DEF Init, Deleting, DestroySteps
<1> QED BY <1>1, <1>3, <1>4 DEF IInv, Core

-----------------------------------------------------------------------------
(* The theorems *)

\* The inductive invariant: exact counts, no reader beside a writer, somebody to
\* wake every sleeper, and what destroy knows while it is alone.
THEOREM Inductive == Spec => []IInv
BY InitInv, StepInv, PTL DEF Spec

\* The lock's fields, the threads' places and their results keep their types;
\* in particular the counts of waiters never go below zero.
THEOREM TypeCorrect == Spec => []TypeOK
<1>1. IInv => TypeOK
  BY DEF IInv, Core
<1> QED BY <1>1, Inductive, PTL

\* No reader is on the list while a writer holds the lock, whatever wakeups,
\* cancellations and forks happen.
THEOREM WriterSafe == Spec => []WriterExcludesReaders
<1>1. IInv => WriterExcludesReaders
  BY DEF IInv, Core
<1> QED BY <1>1, Inductive, PTL

\* Nobody sleeps on a free lock: release always finds whom to wake, for the
\* counts it decides by are those of the threads inside rdlock and wrlock.
THEOREM WakeupSafe == Spec => []NoLostWakeup
<1>1. IInv => NoLostWakeup
  BY DEF IInv, Core, TypeOK, SleepersCovered, ReadersAlive, NoLostWakeup, At
<1> QED BY <1>1, Inductive, PTL

\* destroy takes no mutex.  While no other thread uses the lock it deletes none
\* that somebody holds or waits for: a woken and a cancelled thread, which sleep
\* no longer, are in the counts it looks at.
THEOREM DestroySafe == Spec => []DestroyedUnused
<1>1. IInv => DestroyedUnused
  BY DEF IInv
<1> QED BY <1>1, Inductive, PTL

=============================================================================
