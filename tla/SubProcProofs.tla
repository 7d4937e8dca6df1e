--------------------------- MODULE SubProcProofs ---------------------------
(***************************************************************************)
(* What TLAPS proves of child processes, for any children, any waiting     *)
(* threads, any arguments of wait4 and any sizes of the tables: a child is *)
(* in exactly one place until a wait takes it, the index wait_subproc uses *)
(* is the one of the child that ended, what was taken for a thread reaches *)
(* that thread, and ECHILD is told only when there is no child.            *)
(*                                                                         *)
(* The scan of the queue is a loop whose turns change what is looped over. *)
(* The first part shows that Turns is what its recursion says, then what   *)
(* one turn keeps (Keep), then, by induction over the turns, what a whole  *)
(* scan keeps.  The second part is the invariant of the specification:     *)
(* who is in the queue and why, what is in the arrays, what wait_subproc   *)
(* knows of them, and whom a child that was taken has been taken for.      *)
(***************************************************************************)
EXTENDS SubProc, FiniteSetTheorems, SequenceTheorems, WellFoundedInduction, TLAPS

-----------------------------------------------------------------------------
(* The scan of the queue *)

\* Induction over the natural numbers, for a set rather than a predicate
LEMMA Induction ==
  ASSUME NEW S, 0 \in S, \A n \in Nat : n \in S => n + 1 \in S
  PROVE  Nat \subseteq S
<1> DEFINE B == Nat \ S
<1> SUFFICES ASSUME B # {} PROVE FALSE
  OBVIOUS
<1>1. PICK n \in B : \A m \in B : ~(<<m, n>> \in OpToRel(<, Nat))
  <2>1. B \subseteq Nat
    OBVIOUS
  <2> HIDE DEF B
  <2> QED BY <2>1, WFMin, NatLessThanWellFounded, Zenon
<1>2. n - 1 \in Nat /\ n - 1 \in S => n \in S
  OBVIOUS
<1>3. n - 1 \in B
  BY <1>2
<1>4. <<n - 1, n>> \in OpToRel(<, Nat)
  BY <1>2 DEF OpToRel
<1> QED BY <1>1, <1>3, <1>4

\* A turn of the loop, when g has the turns before it
Turn(g, s, k, clearing) ==
  IF k = 0 THEN s ELSE IF k <= Len(g[k - 1].q) THEN ScanOne(g[k - 1], k, clearing) ELSE g[k - 1]

\* For every number of turns there is a function that is as the recursion says.
LEMMA TurnsExist ==
  ASSUME NEW s, NEW clearing
  PROVE  \A n \in Nat : \E g : g = [k \in 0 .. n |-> Turn(g, s, k, clearing)]
<1> DEFINE S == {n \in Nat : \E g : g = [k \in 0 .. n |-> Turn(g, s, k, clearing)]}
<1>1. 0 \in S
  <2> DEFINE g == [k \in 0 .. 0 |-> s]
  <2>1. g = [k \in 0 .. 0 |-> Turn(g, s, k, clearing)]
    BY DEF Turn
  <2> QED BY <2>1
<1>2. ASSUME NEW n \in Nat, n \in S PROVE n + 1 \in S
  <2>1. PICK g : g = [k \in 0 .. n |-> Turn(g, s, k, clearing)]
    BY <1>2
  <2> DEFINE h == [k \in 0 .. n + 1 |-> IF k = n + 1 THEN Turn(g, s, k, clearing) ELSE g[k]]
  <2>2. \A k \in 0 .. n : h[k] = g[k]
    OBVIOUS
  <2>3. ASSUME NEW k \in 0 .. n + 1 PROVE Turn(h, s, k, clearing) = Turn(g, s, k, clearing)
    BY <2>2 DEF Turn
  <2>4. ASSUME NEW k \in 0 .. n + 1 PROVE h[k] = Turn(h, s, k, clearing)
    BY <2>1, <2>3
  <2>5. h = [k \in 0 .. n + 1 |-> Turn(h, s, k, clearing)]
    BY <2>4
  <2> HIDE DEF h
  <2>6. \E f : f = [k \in 0 .. n + 1 |-> Turn(f, s, k, clearing)]
    BY <2>5
  <2> QED BY <2>6
<1> HIDE DEF S
<1>3. Nat \subseteq S
  BY <1>1, <1>2, Induction
<1> QED BY <1>3 DEF S

\* Turns is such a function: turn k is made from turn k - 1, as in scan_wait.
LEMMA TurnsDef ==
  ASSUME NEW s, NEW clearing, Len(s.q) \in Nat
  PROVE  \A k \in 0 .. Len(s.q) :
           Turns(s, clearing)[k] = Turn(Turns(s, clearing), s, k, clearing)
<1> DEFINE F(g) == [k \in 0 .. Len(s.q) |-> Turn(g, s, k, clearing)]
<1>1. Turns(s, clearing) = CHOOSE g : g = F(g)
  BY DEF Turns, Turn
<1>2. \E g : g = F(g)
  BY TurnsExist
<1>3. Turns(s, clearing) = F(Turns(s, clearing))
  BY <1>1, <1>2
<1> QED BY <1>3

\* A set of numbers has a least one: the search for the first match finds it.
LEMMA LeastExists ==
  ASSUME NEW B, B \subseteq Nat, B # {}
  PROVE  \E n \in B : \A m \in B : n <= m
<1>1. PICK n \in B : \A m \in B : ~(<<m, n>> \in OpToRel(<, Nat))
  BY WFMin, NatLessThanWellFounded, Zenon
<1>2. ASSUME NEW m \in B PROVE n <= m
  <2>1. m \in Nat /\ n \in Nat
    OBVIOUS
  <2>2. m < n => <<m, n>> \in OpToRel(<, Nat)
    BY <2>1 DEF OpToRel
  <2>3. ~(m < n)
    BY <1>1, <2>2, Zenon
  <2> QED BY <2>1, <2>3
<1> QED BY <1>2

\* What is left of a queue when the k-th thread is unlinked
LEMMA RemoveAtFacts ==
  ASSUME NEW T, NEW q \in Seq(T), NEW k \in 1 .. Len(q)
  PROVE  /\ RemoveAt(q, k) \in Seq(T) /\ Len(RemoveAt(q, k)) = Len(q) - 1
         /\ \A i \in 1 .. Len(q) - 1 : RemoveAt(q, k)[i] = IF i < k THEN q[i] ELSE q[i + 1]
<1> DEFINE a == SubSeq(q, 1, k - 1)
           b == SubSeq(q, k + 1, Len(q))
<1>1. a \in Seq(T) /\ Len(a) = k - 1 /\ \A i \in 1 .. k - 1 : a[i] = q[i]
  BY SubSeqProperties
<1>2. b \in Seq(T) /\ Len(b) = Len(q) - k /\ \A i \in 1 .. Len(q) - k : b[i] = q[k + i]
  BY SubSeqProperties
<1> HIDE DEF a, b
<1>3. /\ a \o b \in Seq(T) /\ Len(a \o b) = Len(a) + Len(b)
      /\ \A i \in 1 .. Len(a) + Len(b) : (a \o b)[i] = IF i <= Len(a) THEN a[i] ELSE b[i - Len(a)]
  BY <1>1, <1>2, ConcatProperties
<1>4. RemoveAt(q, k) = a \o b
  BY DEF RemoveAt, a, b
<1>5. ASSUME NEW i \in 1 .. Len(q) - 1
      PROVE  (a \o b)[i] = IF i < k THEN q[i] ELSE q[i + 1]
  <2>1. CASE i < k
    BY <1>1, <1>2, <1>3, <2>1
  <2>2. CASE ~(i < k)
    <3>1. i - (k - 1) \in 1 .. Len(q) - k /\ k + (i - (k - 1)) = i + 1
      BY <2>2
    <3>2. (a \o b)[i] = b[i - (k - 1)]
      BY <1>1, <1>2, <1>3, <2>2
    <3> QED BY <1>2, <2>2, <3>1, <3>2
  <2> QED BY <2>1, <2>2
<1>6. Len(a) + Len(b) = Len(q) - 1
  BY <1>1, <1>2
<1> HIDE DEF a, b
<1> QED BY <1>3, <1>4, <1>5, <1>6

\* An array without its i-th entry: the last one takes its place
Swapped(q, i) == SubSeq([q EXCEPT ![i] = q[Len(q)]], 1, Len(q) - 1)

\* What is left of an array when its last entry takes the place of the i-th
LEMMA SwappedFacts ==
  ASSUME NEW T, NEW q \in Seq(T), NEW i \in 1 .. Len(q)
  PROVE  /\ Swapped(q, i) \in Seq(T) /\ Len(Swapped(q, i)) = Len(q) - 1
         /\ \A j \in 1 .. Len(q) - 1 : Swapped(q, i)[j] = IF j = i THEN q[Len(q)] ELSE q[j]
<1> DEFINE p == [q EXCEPT ![i] = q[Len(q)]]
<1>1. p \in Seq(T) /\ Len(p) = Len(q) /\ \A j \in 1 .. Len(q) : p[j] = IF j = i THEN q[Len(q)] ELSE q[j]
  <2>1. Len(q) \in 1 .. Len(q) /\ q[Len(q)] \in T
    OBVIOUS
  <2> QED BY <2>1, ExceptSeq
<1> HIDE DEF p
<1>2. /\ SubSeq(p, 1, Len(q) - 1) \in Seq(T) /\ Len(SubSeq(p, 1, Len(q) - 1)) = Len(q) - 1
      /\ \A j \in 1 .. Len(q) - 1 : SubSeq(p, 1, Len(q) - 1)[j] = p[j]
  BY <1>1, SubSeqProperties
<1>3. Swapped(q, i) = SubSeq(p, 1, Len(q) - 1)
  BY DEF Swapped, p
<1> QED BY <1>1, <1>2, <1>3

\* remove_zombie fills the hole that way,
LEMMA ZombieSwapped == \A zs, i : RemoveZombie(zs, i) = Swapped(zs, i)
BY DEF RemoveZombie, Swapped

\* and so does PROC_CHILDTERMINATED.
LEMMA ChildSwapped == \A i : Without(i) = Swapped(children, i)
BY DEF Without, Swapped

\* The types of the records
WaitRec == [pid : Target \cup {None}, nohang : BOOLEAN, untraced : BOOLEAN,
            status : {"none", "signal", "exited", "stopped"}, ev : BOOLEAN, set : BOOLEAN]
Fate == {"unborn", "child", "reaped", "returned", "discarded", "disowned"}
Kid == [pid : Child, h : {1, 2}]

TableType == [q : Seq(Waiter), w : [Waiter -> WaitRec], zs : Seq(Child),
              stop : [Child -> {0, 1}], fate : [Child -> Fate]]

\* The record of the k-th thread names the child and what has become of it.
Answered(s, k, c, status) ==
  [s.w EXCEPT ![s.q[k]] = [@ EXCEPT !.pid = c, !.status = status, !.set = TRUE]]

\* What a turn of the loop makes of the tables s, as r: the k-th thread is served
\* with the i-th zombie,
Served(s, k, r, i) ==
  r = [q |-> RemoveAt(s.q, k), w |-> Answered(s, k, s.zs[i], "exited"),
       zs |-> RemoveZombie(s.zs, i), stop |-> s.stop,
       fate |-> [s.fate EXCEPT ![s.zs[i]] = "reaped"]]

\* with a child c that has stopped,
Told(s, k, r, c) ==
  r = [q |-> RemoveAt(s.q, k), w |-> Answered(s, k, c, "stopped"), zs |-> s.zs,
       stop |-> [s.stop EXCEPT ![c] = 0], fate |-> s.fate]

\* or is sent away.
Dismissed(s, k, r, status, ev) ==
  r = [q |-> RemoveAt(s.q, k),
       w |-> [s.w EXCEPT ![s.q[k]] =
                [@ EXCEPT !.pid = None, !.status = status, !.ev = ev, !.set = TRUE]],
       zs |-> s.zs, stop |-> s.stop, fate |-> s.fate]

\* stopped_or_terminated changes the queue and the record of one thread.
LEMMA FoundFacts ==
  ASSUME NEW s \in TableType, NEW k \in 1 .. Len(s.q), NEW c, NEW status,
         NEW f, f = Found(s, k, c, status)
  PROVE  f = [q |-> RemoveAt(s.q, k), w |-> Answered(s, k, c, status), zs |-> s.zs,
              stop |-> s.stop, fate |-> s.fate]
<1>1. s.q[k] \in Waiter /\ s.w \in [Waiter -> WaitRec]
  BY DEF TableType
<1> QED BY <1>1 DEF Found, Answered, TableType, WaitRec

\* So does the end of checkstate when nothing was found.
LEMMA NotFoundFacts ==
  ASSUME NEW s \in TableType, NEW k \in 1 .. Len(s.q), NEW clearing \in BOOLEAN, NEW some \in BOOLEAN
  PROVE  LET x == s.w[s.q[k]]
         IN  Dismissed(s, k, NotFound(s, k, clearing, some),
                       IF clearing THEN "signal" ELSE x.status,
                       IF clearing \/ (some /\ x.nohang) THEN x.ev ELSE FALSE)
<1> DEFINE x == s.w[s.q[k]]
           v == [s.w EXCEPT ![s.q[k]] =
                   [@ EXCEPT !.pid = None, !.status = IF clearing THEN "signal" ELSE x.status,
                             !.ev = IF clearing \/ (some /\ x.nohang) THEN x.ev ELSE FALSE,
                             !.set = TRUE]]
<1>1. s.q[k] \in Waiter /\ s.w \in [Waiter -> WaitRec]
  BY DEF TableType
<1>2. PICK f : f = NotFound(s, k, clearing, some)
  OBVIOUS
<1>3. f.w = v
  BY <1>1, <1>2 DEF NotFound, TableType, WaitRec
<1> HIDE DEF v
<1>4. f.q = RemoveAt(s.q, k) /\ f.zs = s.zs /\ f.stop = s.stop /\ f.fate = s.fate
  BY <1>1, <1>2 DEF NotFound, TableType
<1>5. f = [q |-> f.q, w |-> f.w, zs |-> f.zs, stop |-> f.stop, fate |-> f.fate]
  BY <1>2 DEF NotFound, TableType
<1>6. f = [q |-> RemoveAt(s.q, k), w |-> v, zs |-> s.zs, stop |-> s.stop, fate |-> s.fate]
  BY <1>3, <1>4, <1>5, Zenon
<1> QED BY <1>2, <1>6 DEF Dismissed, v

\* A turn serves the k-th thread with a zombie that matches, if there is one; if
\* none does it tells the thread of a stopped child, leaves it, or sends it away,
\* with ECHILD only if no child matches either.
LEMMA OneTurn ==
  ASSUME NEW s \in TableType, NEW k \in 1 .. Len(s.q), NEW clearing \in BOOLEAN, children \in Seq(Kid)
  PROVE  LET r == ScanOne(s, k, clearing)
             x == s.w[s.q[k]]
         IN  \/ \E i \in 1 .. Len(s.zs) : Match(x.pid, s.zs[i]) /\ Served(s, k, r, i)
             \/ /\ \A i \in 1 .. Len(s.zs) : ~Match(x.pid, s.zs[i])
                /\ \/ \E c \in Child : Told(s, k, r, c)
                   \/ r = s /\ ~clearing
                   \/ Dismissed(s, k, r, IF clearing THEN "signal" ELSE x.status, x.ev)
                   \/ /\ Dismissed(s, k, r, x.status, FALSE) /\ ~clearing
                      /\ \A i \in DOMAIN children : ~Match(x.pid, children[i].pid)
<1> DEFINE t == s.q[k]
           x == s.w[t]
           dying(i) == Match(x.pid, s.zs[i])
           stopped(i) == /\ Match(x.pid, children[i].pid)
                         /\ x.untraced /\ s.stop[children[i].pid] # 0
           alive == \E i \in DOMAIN children : Match(x.pid, children[i].pid)
           z == FirstMatch(s.zs, dying)
           y == FirstMatch(children, stopped)
<1>1. /\ t \in Waiter /\ x \in WaitRec /\ s.zs \in Seq(Child)
      /\ DOMAIN s.stop = Child /\ DOMAIN s.fate = Child
  BY DEF TableType
<1>2. PICK r : r = ScanOne(s, k, clearing)
  OBVIOUS
<1>3. r = IF \E i \in DOMAIN s.zs : dying(i)
            THEN [Found(s, k, s.zs[z], "exited") EXCEPT !.zs = RemoveZombie(s.zs, z),
                                                        !.fate[s.zs[z]] = "reaped"]
          ELSE IF \E i \in DOMAIN children : stopped(i)
            THEN [Found(s, k, children[y].pid, "stopped") EXCEPT !.stop[children[y].pid] = 0]
          ELSE IF ~clearing /\ ~x.nohang /\ alive THEN s ELSE NotFound(s, k, clearing, alive)
  BY <1>2 DEF ScanOne
<1>4. CASE \E i \in DOMAIN s.zs : dying(i)
  <2>1. \E i \in DOMAIN s.zs : dying(i) /\ \A j \in 1 .. i - 1 : ~dying(j)
    <3> DEFINE B == {i \in DOMAIN s.zs : dying(i)}
    <3>1. B \subseteq Nat /\ B # {}
      BY <1>1, <1>4
    <3>2. PICK n \in B : \A m \in B : n <= m
      BY <3>1, LeastExists
    <3>3. n \in DOMAIN s.zs /\ dying(n) /\ \A j \in 1 .. n - 1 : ~dying(j)
      BY <1>1, <3>2
    <3> QED BY <3>3
  <2>2. z \in DOMAIN s.zs /\ dying(z)
    BY <2>1 DEF FirstMatch
  <2>3. r = [Found(s, k, s.zs[z], "exited") EXCEPT !.zs = RemoveZombie(s.zs, z),
                                                   !.fate[s.zs[z]] = "reaped"]
    BY <1>3, <1>4
  <2> HIDE DEF z
  <2>4. Served(s, k, r, z)
    <3>1. PICK f : f = Found(s, k, s.zs[z], "exited")
      OBVIOUS
    <3>2. r = [f EXCEPT !.zs = RemoveZombie(s.zs, z), !.fate[s.zs[z]] = "reaped"]
      BY <2>3, <3>1
    <3>3. f = [q |-> RemoveAt(s.q, k), w |-> Answered(s, k, s.zs[z], "exited"), zs |-> s.zs,
               stop |-> s.stop, fate |-> s.fate]
      BY <3>1, FoundFacts
    <3> QED BY <3>2, <3>3 DEF Served
  <2>5. z \in 1 .. Len(s.zs) /\ Match(x.pid, s.zs[z])
    BY <1>1, <2>2
  <2> QED BY <1>2, <2>4, <2>5
<1>5. CASE ~(\E i \in DOMAIN s.zs : dying(i)) /\ \E i \in DOMAIN children : stopped(i)
  <2>1. \E i \in DOMAIN children : stopped(i) /\ \A j \in 1 .. i - 1 : ~stopped(j)
    <3> DEFINE B == {i \in DOMAIN children : stopped(i)}
    <3>1. B \subseteq Nat /\ B # {}
      BY <1>1, <1>5
    <3>2. PICK n \in B : \A m \in B : n <= m
      BY <3>1, LeastExists
    <3>3. n \in DOMAIN children /\ stopped(n) /\ \A j \in 1 .. n - 1 : ~stopped(j)
      BY <1>1, <3>2
    <3> QED BY <3>3
  <2>2. y \in DOMAIN children
    BY <2>1 DEF FirstMatch
  <2>3. r = [Found(s, k, children[y].pid, "stopped") EXCEPT !.stop[children[y].pid] = 0]
    BY <1>3, <1>5
  <2> HIDE DEF y
  <2>4. children[y].pid \in Child
    <3>1. children[y] \in Kid
      BY <2>2
    <3> QED BY <3>1 DEF Kid
  <2>5. Told(s, k, r, children[y].pid)
    <3>1. PICK f : f = Found(s, k, children[y].pid, "stopped")
      OBVIOUS
    <3>2. r = [f EXCEPT !.stop[children[y].pid] = 0]
      BY <2>3, <3>1
    <3>3. f = [q |-> RemoveAt(s.q, k), w |-> Answered(s, k, children[y].pid, "stopped"), zs |-> s.zs,
               stop |-> s.stop, fate |-> s.fate]
      BY <3>1, FoundFacts
    <3> QED BY <3>2, <3>3 DEF Told
  <2>6. \A i \in 1 .. Len(s.zs) : ~Match(x.pid, s.zs[i])
    BY <1>1, <1>5
  <2> QED BY <1>2, <2>4, <2>5, <2>6
<1>6. CASE ~(\E i \in DOMAIN s.zs : dying(i)) /\ ~(\E i \in DOMAIN children : stopped(i))
  <2>1. r = IF ~clearing /\ ~x.nohang /\ alive THEN s ELSE NotFound(s, k, clearing, alive)
    BY <1>3, <1>6
  <2>2. \A i \in 1 .. Len(s.zs) : ~Match(x.pid, s.zs[i])
    BY <1>1, <1>6
  <2>3. CASE ~clearing /\ ~x.nohang /\ alive
    BY <1>2, <2>1, <2>2, <2>3
  <2>4. CASE ~(~clearing /\ ~x.nohang /\ alive)
    <3>1. Dismissed(s, k, r, IF clearing THEN "signal" ELSE x.status,
                    IF clearing \/ (alive /\ x.nohang) THEN x.ev ELSE FALSE)
      BY <2>1, <2>4, NotFoundFacts
    <3>2. CASE clearing
      BY <1>2, <2>2, <3>1, <3>2
    <3>3. CASE ~clearing /\ alive
      BY <1>2, <2>2, <2>4, <3>1, <3>3
    <3>4. CASE ~clearing /\ ~alive
      BY <1>2, <2>2, <3>1, <3>4
    <3> QED BY <3>2, <3>3, <3>4
  <2> QED BY <2>3, <2>4
<1> QED BY <1>4, <1>5, <1>6

\* The thread is in the queue; the child is among the zombies.
InQ(s, t) == \E i \in 1 .. Len(s.q) : s.q[i] = t
InZ(s, c) == \E i \in 1 .. Len(s.zs) : s.zs[i] = c

\* What the loop keeps to, from the tables s0 before it to s after some turns: the
\* threads still in the queue, and those that never were, are untouched;
KeepQ(s0, s) ==
  /\ \A i, j \in 1 .. Len(s.q) : s.q[i] = s.q[j] => i = j
  /\ \A i \in 1 .. Len(s.q) : InQ(s0, s.q[i]) /\ s.w[s.q[i]] = s0.w[s.q[i]]
  /\ \A t \in Waiter : ~InQ(s0, t) => s.w[t] = s0.w[t]

\* zombies only leave their table, by which the others keep one place each;
KeepZ(s0, s) ==
  /\ Len(s.zs) <= Len(s0.zs)
  /\ \A i, j \in 1 .. Len(s.zs) : s.zs[i] = s.zs[j] => i = j
  /\ \A i \in 1 .. Len(s.zs) : InZ(s0, s.zs[i])

\* The thread has been told of the end of the child.
HasExit(s, t, c) == s.w[t].pid = c /\ s.w[t].status = "exited" /\ s.w[t].set

\* one that has left was reaped for a thread that has left the queue with it;
KeepF(s0, s) ==
  \A c \in Child :
    /\ InZ(s, c) \/ ~InZ(s0, c) => s.fate[c] = s0.fate[c]
    /\ InZ(s0, c) /\ ~InZ(s, c) =>
         /\ s.fate[c] = "reaped"
         /\ \E t \in Waiter : /\ InQ(s0, t) /\ ~InQ(s, t)
                              /\ HasExit(s, t, c) /\ (s0.w[t].ev => s.w[t].ev)

\* and ECHILD for any child is only for a thread that has found no child at all.
KeepE(s0, s) ==
  \A t \in Waiter :
    InQ(s0, t) /\ s0.w[t].pid = "any" /\ s0.w[t].ev /\ ~s.w[t].ev => children = <<>> /\ s.zs = <<>>

\* Whoever is told of an end now is told of a zombie that has left.
KeepX(s0, s) ==
  \A t \in Waiter :
    s.w[t].status = "exited" =>
      \/ s.w[t] = s0.w[t]
      \/ /\ InQ(s0, t) /\ (s0.w[t].ev => s.w[t].ev) /\ s.w[t].pid \in Child
         /\ InZ(s0, s.w[t].pid) /\ ~InZ(s, s.w[t].pid)

Keep(s0, s) ==
  /\ s \in TableType
  /\ KeepQ(s0, s) /\ KeepZ(s0, s) /\ KeepF(s0, s) /\ KeepE(s0, s) /\ KeepX(s0, s)

\* Nobody in the queue has been told of an end.
Fresh(s0) == \A t \in Waiter : InQ(s0, t) => s0.w[t].status # "exited"

\* The k-th thread is out of the queue, with x for its record.
Unlinked(s0, s, r, k, x) ==
  /\ r.q \in Seq(Waiter) /\ r.w \in [Waiter -> WaitRec] /\ KeepQ(s0, r)
  /\ s.q[k] \in Waiter /\ InQ(s0, s.q[k]) /\ s.w[s.q[k]] = s0.w[s.q[k]]
  /\ ~InQ(r, s.q[k]) /\ r.w[s.q[k]] = x
  /\ \A t \in Waiter : ~InQ(s, t) => ~InQ(r, t)
  /\ \A t \in Waiter : t # s.q[k] => r.w[t] = s.w[t]

\* Unlinking one thread leaves the others, and what they wait for, alone.
LEMMA Unlinks ==
  ASSUME NEW s0 \in TableType, NEW s \in TableType, KeepQ(s0, s), NEW k \in 1 .. Len(s.q),
         NEW r, r.q = RemoveAt(s.q, k), NEW x \in WaitRec, r.w = [s.w EXCEPT ![s.q[k]] = x]
  PROVE  Unlinked(s0, s, r, k, x)
<1>1. s.q \in Seq(Waiter) /\ s.q[k] \in Waiter /\ s.w \in [Waiter -> WaitRec]
  BY DEF TableType
<1>2. /\ r.q \in Seq(Waiter) /\ Len(r.q) = Len(s.q) - 1
      /\ \A i \in 1 .. Len(s.q) - 1 : r.q[i] = IF i < k THEN s.q[i] ELSE s.q[i + 1]
  <2>1. PICK q : q = s.q
    OBVIOUS
  <2>2. q \in Seq(Waiter) /\ k \in 1 .. Len(q)
    BY <1>1, <2>1
  <2>3. /\ RemoveAt(q, k) \in Seq(Waiter) /\ Len(RemoveAt(q, k)) = Len(q) - 1
        /\ \A i \in 1 .. Len(q) - 1 : RemoveAt(q, k)[i] = IF i < k THEN q[i] ELSE q[i + 1]
    BY <2>2, RemoveAtFacts
  <2> QED BY <2>1, <2>3, Zenon
<1>3. /\ r.w \in [Waiter -> WaitRec] /\ r.w[s.q[k]] = x
      /\ \A t \in Waiter : t # s.q[k] => r.w[t] = s.w[t]
  BY <1>1
<1>4. \A i \in 1 .. Len(r.q) :
        r.q[i] # s.q[k] /\ \E j \in 1 .. Len(s.q) : r.q[i] = s.q[j]
  BY <1>1, <1>2 DEF KeepQ
<1>5. \A i, j \in 1 .. Len(r.q) : r.q[i] = r.q[j] => i = j
  BY <1>1, <1>2 DEF KeepQ
<1>6. InQ(s0, s.q[k]) /\ s.w[s.q[k]] = s0.w[s.q[k]]
  BY DEF KeepQ
<1>7. ~InQ(r, s.q[k]) /\ \A t \in Waiter : ~InQ(s, t) => ~InQ(r, t)
  BY <1>4 DEF InQ
<1>8. \A i \in 1 .. Len(r.q) : InQ(s0, r.q[i]) /\ r.w[r.q[i]] = s0.w[r.q[i]]
  <2> SUFFICES ASSUME NEW i \in 1 .. Len(r.q)
               PROVE  InQ(s0, r.q[i]) /\ r.w[r.q[i]] = s0.w[r.q[i]]
    OBVIOUS
  <2>1. PICK j \in 1 .. Len(s.q) : r.q[i] = s.q[j]
    BY <1>4
  <2>2. InQ(s0, s.q[j]) /\ s.w[s.q[j]] = s0.w[s.q[j]]
    BY DEF KeepQ
  <2>3. r.q[i] \in Waiter
    BY <1>1, <2>1
  <2>4. r.q[i] # s.q[k]
    BY <1>4
  <2> QED BY <1>3, <2>1, <2>2, <2>3, <2>4
<1>9. ASSUME NEW t \in Waiter, ~InQ(s0, t) PROVE r.w[t] = s0.w[t]
  BY <1>3, <1>6, <1>9 DEF KeepQ
<1>10. KeepQ(s0, r)
  BY <1>5, <1>8, <1>9 DEF KeepQ
<1> QED BY <1>1, <1>2, <1>3, <1>6, <1>7, <1>10 DEF Unlinked

\* Removing one zombie leaves each of the others in one place.
LEMMA Buries ==
  ASSUME NEW s0 \in TableType, NEW s \in TableType, KeepZ(s0, s), NEW i \in 1 .. Len(s.zs),
         NEW r, r.zs = RemoveZombie(s.zs, i)
  PROVE  /\ r.zs \in Seq(Child) /\ KeepZ(s0, r) /\ s.zs[i] \in Child /\ InZ(s0, s.zs[i])
         /\ \A c \in Child : InZ(r, c) <=> InZ(s, c) /\ c # s.zs[i]
<1>1. PICK z : z = s.zs
  OBVIOUS
<1>2. z \in Seq(Child) /\ i \in 1 .. Len(z) /\ s0.zs \in Seq(Child)
  BY <1>1 DEF TableType
<1>3. /\ r.zs \in Seq(Child) /\ Len(r.zs) = Len(z) - 1
      /\ \A j \in 1 .. Len(z) - 1 : r.zs[j] = IF j = i THEN z[Len(z)] ELSE z[j]
  <2>1. r.zs = Swapped(z, i)
    BY <1>1, ZombieSwapped
  <2> QED BY <1>2, <2>1, SwappedFacts
<1>4. /\ Len(z) <= Len(s0.zs) /\ (\A m, n \in 1 .. Len(z) : z[m] = z[n] => m = n)
      /\ \A m \in 1 .. Len(z) : InZ(s0, z[m])
  BY <1>1 DEF KeepZ
<1>5. ASSUME NEW j \in 1 .. Len(r.zs)
      PROVE  r.zs[j] # z[i] /\ \E m \in 1 .. Len(z) : r.zs[j] = z[m]
  <2>1. j \in 1 .. Len(z) - 1 /\ j \in 1 .. Len(z) /\ Len(z) \in 1 .. Len(z)
    BY <1>2, <1>3
  <2>2. CASE j = i
    <3>1. r.zs[j] = z[Len(z)] /\ Len(z) # i
      BY <1>2, <1>3, <2>1, <2>2, SMTT(20)
    <3> QED BY <1>2, <1>4, <2>1, <3>1
  <2>3. CASE j # i
    <3>1. r.zs[j] = z[j]
      BY <1>3, <2>1, <2>3
    <3> QED BY <1>2, <1>4, <2>1, <2>3, <3>1
  <2> QED BY <2>2, <2>3
<1>6. \A m, n \in 1 .. Len(r.zs) : r.zs[m] = r.zs[n] => m = n
  BY <1>2, <1>3, <1>4
<1>7. KeepZ(s0, r)
  <2>1. Len(r.zs) <= Len(s0.zs)
    BY <1>2, <1>3, <1>4
  <2>2. \A j \in 1 .. Len(r.zs) : InZ(s0, r.zs[j])
    BY <1>4, <1>5
  <2> QED BY <1>6, <2>1, <2>2 DEF KeepZ
<1>8. ASSUME NEW c \in Child, c # z[i], NEW m \in 1 .. Len(z), z[m] = c
      PROVE  \E j \in 1 .. Len(r.zs) : r.zs[j] = c
  <2>1. CASE m = Len(z)
    <3>1. i \in 1 .. Len(r.zs) /\ r.zs[i] = c
      BY <1>2, <1>3, <1>8, <2>1
    <3> QED BY <3>1
  <2>2. CASE m # Len(z)
    <3>1. m \in 1 .. Len(r.zs) /\ r.zs[m] = c
      BY <1>2, <1>3, <1>8, <2>2
    <3> QED BY <3>1
  <2> QED BY <2>1, <2>2
<1>9. \A c \in Child : InZ(r, c) <=> InZ(s, c) /\ c # s.zs[i]
  BY <1>1, <1>5, <1>8 DEF InZ
<1> QED BY <1>1, <1>2, <1>3, <1>4, <1>7, <1>9

\* The record of a thread that is told of a child is one of the type.
LEMMA AnsweredRec ==
  ASSUME NEW s \in TableType, NEW k \in 1 .. Len(s.q), NEW c \in Child,
         NEW status \in {"exited", "stopped"}
  PROVE  \E x \in WaitRec :
           /\ Answered(s, k, c, status) = [s.w EXCEPT ![s.q[k]] = x]
           /\ x.pid = c /\ x.status = status /\ x.set /\ (x.ev <=> s.w[s.q[k]].ev)
<1> DEFINE x == [s.w[s.q[k]] EXCEPT !.pid = c, !.status = status, !.set = TRUE]
<1>1. s.q[k] \in Waiter /\ s.w \in [Waiter -> WaitRec] /\ s.w[s.q[k]] \in WaitRec
  BY DEF TableType
<1>2. x \in WaitRec
  BY <1>1 DEF WaitRec, Target
<1>3. x.pid = c /\ x.status = status /\ x.set /\ x.ev = s.w[s.q[k]].ev
  BY <1>1 DEF WaitRec
<1>4. Answered(s, k, c, status) = [s.w EXCEPT ![s.q[k]] = x]
  BY DEF Answered
<1> HIDE DEF x
<1> QED BY <1>2, <1>3, <1>4

\* A turn that takes a zombie keeps to Keep: the thread goes with the child.
LEMMA ServedKeeps ==
  ASSUME NEW s0 \in TableType, NEW s, Keep(s0, s), NEW k \in 1 .. Len(s.q),
         NEW i \in 1 .. Len(s.zs), NEW r, Served(s, k, r, i)
  PROVE  Keep(s0, r)
<1> DEFINE t == s.q[k]
           c == s.zs[i]
<1>1. s \in TableType /\ c \in Child
  BY DEF Keep, TableType
<1>2. /\ r = [q |-> r.q, w |-> r.w, zs |-> r.zs, stop |-> r.stop, fate |-> r.fate]
      /\ r.w = Answered(s, k, c, "exited") /\ r.q = RemoveAt(s.q, k) /\ r.zs = RemoveZombie(s.zs, i)
      /\ r.stop = s.stop /\ r.fate = [s.fate EXCEPT ![c] = "reaped"]
  BY DEF Served
<1>3. \E x \in WaitRec :
        /\ Answered(s, k, c, "exited") = [s.w EXCEPT ![t] = x]
        /\ x.pid = c /\ x.status = "exited" /\ x.set /\ (x.ev <=> s.w[t].ev)
  BY <1>1, AnsweredRec
<1>4. PICK x \in WaitRec :
        /\ r.w = [s.w EXCEPT ![t] = x]
        /\ x.pid = c /\ x.status = "exited" /\ x.set /\ (x.ev <=> s.w[t].ev)
  BY <1>2, <1>3
<1>5. /\ r.q \in Seq(Waiter) /\ r.w \in [Waiter -> WaitRec] /\ KeepQ(s0, r)
      /\ t \in Waiter /\ InQ(s0, t) /\ s.w[t] = s0.w[t] /\ ~InQ(r, t) /\ r.w[t] = x
      /\ \A u \in Waiter : ~InQ(s, u) => ~InQ(r, u)
      /\ \A u \in Waiter : u # t => r.w[u] = s.w[u]
  <2>1. KeepQ(s0, s)
    BY DEF Keep
  <2>2. r.q = RemoveAt(s.q, k) /\ r.w = [s.w EXCEPT ![s.q[k]] = x]
    BY <1>4, <1>2
  <2>3. Unlinked(s0, s, r, k, x)
    BY <1>1, <2>1, <2>2, Unlinks
  <2> QED BY <2>3 DEF Unlinked
<1>6. /\ r.zs \in Seq(Child) /\ KeepZ(s0, r) /\ InZ(s0, c)
      /\ \A d \in Child : InZ(r, d) <=> InZ(s, d) /\ d # c
  BY <1>1, <1>2, Buries DEF Keep
<1>7. r.fate \in [Child -> Fate] /\ r.fate[c] = "reaped" /\ \A d \in Child : d # c => r.fate[d] = s.fate[d]
  BY <1>1, <1>2 DEF TableType, Fate
<1>8. r \in TableType
  <2>1. r.stop \in [Child -> {0, 1}]
    BY <1>1, <1>2 DEF TableType
  <2> QED BY <1>5, <1>6, <1>7, <1>2, <2>1 DEF TableType
<1>9. KeepF(s0, r)
  <2> SUFFICES ASSUME NEW d \in Child
               PROVE  /\ InZ(r, d) \/ ~InZ(s0, d) => r.fate[d] = s0.fate[d]
                      /\ InZ(s0, d) /\ ~InZ(r, d) =>
                           /\ r.fate[d] = "reaped"
                           /\ \E u \in Waiter : /\ InQ(s0, u) /\ ~InQ(r, u)
                                                /\ HasExit(r, u, d) /\ (s0.w[u].ev => r.w[u].ev)
    BY DEF KeepF
  <2>1. CASE d = c
    <3>1. HasExit(r, t, d) /\ (s0.w[t].ev => r.w[t].ev)
      BY <1>4, <1>5, <2>1 DEF HasExit
    <3> QED BY <1>5, <1>6, <1>7, <2>1, <3>1
  <2>2. CASE d # c
    <3>1. ASSUME NEW u \in Waiter, InQ(s0, u), ~InQ(s, u), HasExit(s, u, d), s0.w[u].ev => s.w[u].ev
          PROVE  ~InQ(r, u) /\ HasExit(r, u, d) /\ (s0.w[u].ev => r.w[u].ev)
      <4>1. u # t
        BY <3>1 DEF InQ
      <4> QED BY <1>5, <3>1, <4>1 DEF HasExit
    <3> QED BY <1>6, <1>7, <2>2, <3>1 DEF Keep, KeepF
  <2> QED BY <2>1, <2>2
<1>10. KeepE(s0, r)
  <2> SUFFICES ASSUME NEW u \in Waiter, InQ(s0, u), s0.w[u].pid = "any", s0.w[u].ev, ~r.w[u].ev
               PROVE  FALSE
    BY DEF KeepE
  <2>1. u # t
    BY <1>4, <1>5
  <2>2. s.zs = <<>>
    BY <1>5, <2>1 DEF Keep, KeepE
  <2> QED BY <2>2
<1>11. KeepX(s0, r)
  <2> SUFFICES ASSUME NEW u \in Waiter, r.w[u].status = "exited"
               PROVE  \/ r.w[u] = s0.w[u]
                      \/ /\ InQ(s0, u) /\ (s0.w[u].ev => r.w[u].ev) /\ r.w[u].pid \in Child
                         /\ InZ(s0, r.w[u].pid) /\ ~InZ(r, r.w[u].pid)
    BY DEF KeepX
  <2>1. CASE u = t
    BY <1>1, <1>4, <1>5, <1>6, <2>1
  <2>2. CASE u # t
    <3>1. r.w[u] = s.w[u]
      BY <1>5, <2>2
    <3> QED BY <1>6, <3>1 DEF Keep, KeepX
  <2> QED BY <2>1, <2>2
<1> QED BY <1>5, <1>6, <1>8, <1>9, <1>10, <1>11 DEF Keep

\* So does a turn that takes none,
LEMMA AsideKeeps ==
  ASSUME NEW s0 \in TableType, NEW s, Keep(s0, s), NEW k \in 1 .. Len(s.q),
         NEW x \in WaitRec, x.status # "exited", NEW stop \in [Child -> {0, 1}],
         s.w[s.q[k]].pid = "any" /\ s.w[s.q[k]].ev /\ ~x.ev => children = <<>> /\ s.zs = <<>>,
         NEW r, r = [q |-> RemoveAt(s.q, k), w |-> [s.w EXCEPT ![s.q[k]] = x], zs |-> s.zs,
                     stop |-> stop, fate |-> s.fate]
  PROVE  Keep(s0, r)
<1> DEFINE t == s.q[k]
<1>1. s \in TableType /\ KeepQ(s0, s)
  BY DEF Keep
<1>2. r.q = RemoveAt(s.q, k) /\ r.w = [s.w EXCEPT ![s.q[k]] = x] /\ r.zs = s.zs /\ r.fate = s.fate
  OBVIOUS
<1>3. Unlinked(s0, s, r, k, x)
  BY <1>1, <1>2, Unlinks
<1>4. /\ r.q \in Seq(Waiter) /\ r.w \in [Waiter -> WaitRec] /\ KeepQ(s0, r)
      /\ t \in Waiter /\ InQ(s0, t) /\ s.w[t] = s0.w[t] /\ ~InQ(r, t) /\ r.w[t] = x
      /\ \A u \in Waiter : ~InQ(s, u) => ~InQ(r, u)
      /\ \A u \in Waiter : u # t => r.w[u] = s.w[u]
  BY <1>3 DEF Unlinked
<1>5. r \in TableType
  <2>1. s.zs \in Seq(Child) /\ s.fate \in [Child -> Fate]
    BY <1>1 DEF TableType
  <2> QED BY <1>4, <2>1 DEF TableType
<1>6. KeepZ(s0, r)
  BY <1>2 DEF Keep, KeepZ
<1>7. \A c \in Child : InZ(r, c) <=> InZ(s, c)
  BY <1>2 DEF InZ
<1>8. KeepF(s0, r)
  <2> SUFFICES ASSUME NEW d \in Child
               PROVE  /\ InZ(r, d) \/ ~InZ(s0, d) => r.fate[d] = s0.fate[d]
                      /\ InZ(s0, d) /\ ~InZ(r, d) =>
                           /\ r.fate[d] = "reaped"
                           /\ \E u \in Waiter : /\ InQ(s0, u) /\ ~InQ(r, u)
                                                /\ HasExit(r, u, d) /\ (s0.w[u].ev => r.w[u].ev)
    BY DEF KeepF
  <2>1. ASSUME NEW u \in Waiter, InQ(s0, u), ~InQ(s, u), HasExit(s, u, d), s0.w[u].ev => s.w[u].ev
        PROVE  ~InQ(r, u) /\ HasExit(r, u, d) /\ (s0.w[u].ev => r.w[u].ev)
    <3>1. u # t
      BY <2>1 DEF InQ
    <3> QED BY <1>4, <2>1, <3>1 DEF HasExit
  <2> QED BY <1>2, <1>7, <2>1 DEF Keep, KeepF
<1>9. KeepE(s0, r)
  <2> SUFFICES ASSUME NEW u \in Waiter, InQ(s0, u), s0.w[u].pid = "any", s0.w[u].ev, ~r.w[u].ev
               PROVE  children = <<>> /\ r.zs = <<>>
    BY DEF KeepE
  <2>1. CASE u = t
    BY <1>2, <1>4, <2>1
  <2>2. CASE u # t
    BY <1>2, <1>4, <2>2 DEF Keep, KeepE
  <2> QED BY <2>1, <2>2
<1>10. KeepX(s0, r)
  <2> SUFFICES ASSUME NEW u \in Waiter, r.w[u].status = "exited"
               PROVE  \/ r.w[u] = s0.w[u]
                      \/ /\ InQ(s0, u) /\ (s0.w[u].ev => r.w[u].ev) /\ r.w[u].pid \in Child
                         /\ InZ(s0, r.w[u].pid) /\ ~InZ(r, r.w[u].pid)
    BY DEF KeepX
  <2>1. u # t
    BY <1>4
  <2>2. r.w[u] = s.w[u]
    BY <1>4, <2>1
  <2> QED BY <1>7, <2>2 DEF Keep, KeepX
<1> QED BY <1>4, <1>5, <1>6, <1>8, <1>9, <1>10 DEF Keep

\* as when a thread is told of a stopped child,
LEMMA ToldKeeps ==
  ASSUME NEW s0 \in TableType, NEW s, Keep(s0, s), NEW k \in 1 .. Len(s.q),
         NEW c \in Child, NEW r, Told(s, k, r, c)
  PROVE  Keep(s0, r)
<1>1. s \in TableType
  BY DEF Keep
<1>2. PICK x \in WaitRec :
        /\ Answered(s, k, c, "stopped") = [s.w EXCEPT ![s.q[k]] = x]
        /\ x.pid = c /\ x.status = "stopped" /\ x.set /\ (x.ev <=> s.w[s.q[k]].ev)
  BY <1>1, AnsweredRec
<1>3. PICK stop : stop = [s.stop EXCEPT ![c] = 0]
  OBVIOUS
<1>4. stop \in [Child -> {0, 1}]
  BY <1>1, <1>3 DEF TableType
<1>5. r = [q |-> RemoveAt(s.q, k), w |-> [s.w EXCEPT ![s.q[k]] = x], zs |-> s.zs,
           stop |-> stop, fate |-> s.fate]
  BY <1>2, <1>3 DEF Told
<1> QED BY <1>2, <1>4, <1>5, AsideKeeps

\* or when it is sent away.
LEMMA DismissedKeeps ==
  ASSUME NEW s0 \in TableType, Fresh(s0), NEW s, Keep(s0, s), NEW k \in 1 .. Len(s.q),
         NEW status, status \in {"signal", s.w[s.q[k]].status}, NEW ev \in BOOLEAN,
         NEW r, Dismissed(s, k, r, status, ev),
         s.w[s.q[k]].pid = "any" /\ s.w[s.q[k]].ev /\ ~ev => children = <<>> /\ s.zs = <<>>
  PROVE  Keep(s0, r)
<1> DEFINE t == s.q[k]
           y == [s.w[t] EXCEPT !.pid = None, !.status = status, !.ev = ev, !.set = TRUE]
<1>1. s \in TableType
  BY DEF Keep
<1>2. t \in Waiter /\ s.w[t] \in WaitRec /\ s.stop \in [Child -> {0, 1}]
  BY <1>1 DEF TableType
<1>3. InQ(s0, t) /\ s.w[t] = s0.w[t]
  BY DEF Keep, KeepQ
<1>4. y \in WaitRec /\ y.status = status /\ (y.ev <=> ev)
  BY <1>2 DEF WaitRec
<1>5. status # "exited"
  BY <1>2, <1>3 DEF Fresh
<1>6. r = [q |-> RemoveAt(s.q, k), w |-> [s.w EXCEPT ![s.q[k]] = y], zs |-> s.zs,
           stop |-> s.stop, fate |-> s.fate]
  BY DEF Dismissed
<1> HIDE DEF y
<1>7. PICK x : x = y
  OBVIOUS
<1>8. PICK stop : stop = s.stop
  OBVIOUS
<1>9. /\ x \in WaitRec /\ x.status # "exited" /\ stop \in [Child -> {0, 1}]
      /\ r = [q |-> RemoveAt(s.q, k), w |-> [s.w EXCEPT ![s.q[k]] = x], zs |-> s.zs,
              stop |-> stop, fate |-> s.fate]
      /\ s.w[s.q[k]].pid = "any" /\ s.w[s.q[k]].ev /\ ~x.ev => children = <<>> /\ s.zs = <<>>
  BY <1>2, <1>4, <1>5, <1>6, <1>7, <1>8
<1> QED BY <1>9, AsideKeeps

\* Whatever a turn of scan_wait does, it keeps to Keep.
LEMMA TurnKeeps ==
  ASSUME NEW s0 \in TableType, Fresh(s0), NEW s, Keep(s0, s), NEW k \in 1 .. Len(s.q),
         NEW clearing \in BOOLEAN, children \in Seq(Kid)
  PROVE  Keep(s0, ScanOne(s, k, clearing))
<1>1. PICK r : r = ScanOne(s, k, clearing)
  OBVIOUS
<1> DEFINE x == s.w[s.q[k]]
<1>2. s \in TableType
  BY DEF Keep
<1>3. s.q[k] \in Waiter /\ x \in WaitRec /\ x.ev \in BOOLEAN
  BY <1>2 DEF TableType, WaitRec
<1>4. \/ \E i \in 1 .. Len(s.zs) : Match(x.pid, s.zs[i]) /\ Served(s, k, r, i)
      \/ /\ \A i \in 1 .. Len(s.zs) : ~Match(x.pid, s.zs[i])
         /\ \/ \E c \in Child : Told(s, k, r, c)
            \/ r = s /\ ~clearing
            \/ Dismissed(s, k, r, IF clearing THEN "signal" ELSE x.status, x.ev)
            \/ /\ Dismissed(s, k, r, x.status, FALSE) /\ ~clearing
               /\ \A i \in DOMAIN children : ~Match(x.pid, children[i].pid)
  BY <1>1, <1>2, OneTurn
<1>5. CASE \E i \in 1 .. Len(s.zs) : Served(s, k, r, i)
  BY <1>1, <1>5, ServedKeeps
<1>6. CASE \E c \in Child : Told(s, k, r, c)
  BY <1>1, <1>6, ToldKeeps
<1>7. CASE r = s
  BY <1>1, <1>7
<1>8. CASE Dismissed(s, k, r, IF clearing THEN "signal" ELSE x.status, x.ev)
  <2>1. PICK ev : ev = x.ev
    OBVIOUS
  <2>2. PICK status : status = IF clearing THEN "signal" ELSE x.status
    OBVIOUS
  <2>3. /\ status \in {"signal", s.w[s.q[k]].status} /\ ev \in BOOLEAN
        /\ Dismissed(s, k, r, status, ev)
        /\ ~(s.w[s.q[k]].ev /\ ~ev)
    BY <1>3, <1>8, <2>1, <2>2
  <2> QED BY <1>1, <2>3, DismissedKeeps
<1>9. CASE /\ Dismissed(s, k, r, x.status, FALSE)
           /\ \A i \in 1 .. Len(s.zs) : ~Match(x.pid, s.zs[i])
           /\ \A i \in DOMAIN children : ~Match(x.pid, children[i].pid)
  <2>1. ASSUME x.pid = "any" PROVE children = <<>> /\ s.zs = <<>>
    <3>1. \A i \in DOMAIN children : FALSE
      BY <1>9, <2>1 DEF Match
    <3>2. \A i \in 1 .. Len(s.zs) : FALSE
      BY <1>9, <2>1 DEF Match
    <3>3. s.zs \in Seq(Child)
      BY <1>2 DEF TableType
    <3>4. Len(s.zs) = 0 /\ Len(children) = 0
      BY <3>1, <3>2, <3>3
    <3> QED BY <3>3, <3>4
  <2>2. PICK status : status = x.status
    OBVIOUS
  <2>3. status \in {"signal", s.w[s.q[k]].status} /\ Dismissed(s, k, r, status, FALSE)
    BY <1>9, <2>2
  <2> QED BY <1>1, <2>1, <2>3, DismissedKeeps
<1> QED BY <1>4, <1>5, <1>6, <1>7, <1>8, <1>9

\* The tables before a scan: nobody is in the queue twice, nobody in it has been
\* told of an end, and no zombie is there twice.
Ready(s0) ==
  /\ s0 \in TableType /\ Fresh(s0)
  /\ \A i, j \in 1 .. Len(s0.q) : s0.q[i] = s0.q[j] => i = j
  /\ \A i, j \in 1 .. Len(s0.zs) : s0.zs[i] = s0.zs[j] => i = j

\* No turn at all keeps to it.
LEMMA ReadyKeeps ==
  ASSUME NEW s0, Ready(s0)
  PROVE  Keep(s0, s0)
<1>1. s0.q \in Seq(Waiter) /\ s0.zs \in Seq(Child)
  BY DEF Ready, TableType
<1>2. KeepQ(s0, s0)
  BY DEF Ready, KeepQ, InQ
<1>3. KeepZ(s0, s0)
  BY <1>1 DEF Ready, KeepZ, InZ
<1>4. KeepF(s0, s0)
  BY DEF KeepF
<1>5. KeepE(s0, s0) /\ KeepX(s0, s0)
  BY DEF KeepE, KeepX
<1> QED BY <1>2, <1>3, <1>4, <1>5 DEF Keep, Ready

\* By induction, all the turns of the loop keep to it,
LEMMA TurnsKeep ==
  ASSUME NEW s0, Ready(s0), NEW clearing \in BOOLEAN, children \in Seq(Kid)
  PROVE  Keep(s0, Turns(s0, clearing)[Len(s0.q)])
<1> DEFINE n == Len(s0.q)
           g == Turns(s0, clearing)
           S == {k \in Nat : k <= n => Keep(s0, g[k])}
<1>1. n \in Nat /\ s0 \in TableType /\ Fresh(s0)
  BY DEF Ready, TableType
<1>2. \A k \in 0 .. n : g[k] = Turn(g, s0, k, clearing)
  BY <1>1, TurnsDef
<1> HIDE DEF g, n
<1>3. 0 \in S
  <2>1. g[0] = s0
    BY <1>1, <1>2 DEF Turn
  <2> QED BY <2>1, ReadyKeeps
<1>4. ASSUME NEW k \in Nat, k \in S PROVE k + 1 \in S
  <2> SUFFICES ASSUME k + 1 <= n PROVE Keep(s0, g[k + 1])
    OBVIOUS
  <2>1. Keep(s0, g[k])
    BY <1>1, <1>4
  <2>2. g[k + 1] = IF k + 1 <= Len(g[k].q) THEN ScanOne(g[k], k + 1, clearing) ELSE g[k]
    <3>1. k + 1 \in 0 .. n /\ k + 1 # 0 /\ (k + 1) - 1 = k
      BY <1>1
    <3> QED BY <1>2, <3>1 DEF Turn
  <2>3. CASE k + 1 <= Len(g[k].q)
    <3>1. PICK s : s = g[k]
      OBVIOUS
    <3>2. Keep(s0, s) /\ k + 1 \in 1 .. Len(s.q)
      <4>1. g[k].q \in Seq(Waiter)
        BY <2>1 DEF Keep, TableType
      <4> QED BY <2>1, <2>3, <3>1, <4>1
    <3>3. Keep(s0, ScanOne(s, k + 1, clearing))
      BY <1>1, <3>2, TurnKeeps
    <3> QED BY <2>2, <2>3, <3>1, <3>3
  <2>4. CASE ~(k + 1 <= Len(g[k].q))
    BY <2>1, <2>2, <2>4
  <2> QED BY <2>3, <2>4
<1> HIDE DEF S
<1>5. Nat \subseteq S
  BY <1>3, <1>4, Induction
<1>6. n \in S
  BY <1>1, <1>5
<1> QED BY <1>1, <1>6 DEF S, n, g

\* and a whole scan does, which leaves nobody in the queue if it clears it.
LEMMA ScanKeeps ==
  ASSUME NEW s0, Ready(s0), NEW clearing \in BOOLEAN, children \in Seq(Kid)
  PROVE  Keep(s0, Scan(s0, clearing)) /\ (clearing => Scan(s0, clearing).q = <<>>)
<1>1. PICK s : s = Turns(s0, clearing)[Len(s0.q)]
  OBVIOUS
<1>2. Keep(s0, s)
  BY <1>1, TurnsKeep
<1>3. Scan(s0, clearing) = IF clearing THEN [s EXCEPT !.q = <<>>] ELSE s
  BY <1>1 DEF Scan
<1>4. CASE ~clearing
  BY <1>2, <1>3, <1>4
<1>5. CASE clearing
  <2>1. PICK r : r = Scan(s0, clearing)
    OBVIOUS
  <2>2. s \in TableType
    BY <1>2 DEF Keep
  <2>3. /\ r \in TableType /\ r.q = <<>> /\ r.w = s.w /\ r.zs = s.zs
        /\ r.stop = s.stop /\ r.fate = s.fate
    <3>0. r = [s EXCEPT !.q = <<>>]
      BY <1>3, <1>5, <2>1, Zenon
    <3>1. r = [s EXCEPT !.q = <<>>] /\ <<>> \in Seq(Waiter)
      BY <3>0
    <3>2. r.q = <<>> /\ r.w = s.w /\ r.zs = s.zs /\ r.stop = s.stop /\ r.fate = s.fate
      BY <2>2, <3>1 DEF TableType
    <3>3. r = [q |-> r.q, w |-> r.w, zs |-> r.zs, stop |-> r.stop, fate |-> r.fate]
      BY <2>2, <3>1 DEF TableType
    <3>4. /\ s.w \in [Waiter -> WaitRec] /\ s.zs \in Seq(Child)
          /\ s.stop \in [Child -> {0, 1}] /\ s.fate \in [Child -> Fate]
      BY <2>2 DEF TableType
    <3> QED BY <3>1, <3>2, <3>3, <3>4 DEF TableType
  <2>4. KeepQ(s0, r)
    BY <1>2, <2>3 DEF Keep, KeepQ
  <2>5. \A c \in Child : InZ(r, c) <=> InZ(s, c)
    BY <2>3 DEF InZ
  <2>6. \A t \in Waiter : ~InQ(r, t)
    BY <2>3 DEF InQ
  <2>7. KeepZ(s0, r)
    BY <1>2, <2>3 DEF Keep, KeepZ
  <2>8. KeepF(s0, r)
    BY <1>2, <2>3, <2>5, <2>6 DEF Keep, KeepF, HasExit
  <2>9. KeepE(s0, r) /\ KeepX(s0, r)
    BY <1>2, <2>3, <2>5 DEF Keep, KeepE, KeepX
  <2> QED BY <2>1, <2>3, <2>4, <2>7, <2>8, <2>9 DEF Keep
<1> QED BY <1>4, <1>5

\* With a single thread no thread is passed over: when the scan is done, the
\* thread is not in the queue, or no zombie is what it waits for.
LEMMA ScanAlone ==
  ASSUME NEW s0, Ready(s0), NEW t, Waiter = {t}, NEW clearing \in BOOLEAN, children \in Seq(Kid)
  PROVE  LET s == Scan(s0, clearing)
         IN  \A u \in Waiter, c \in Child : InQ(s, u) /\ InZ(s, c) => ~Match(s.w[u].pid, c)
<1>1. PICK s : s = Scan(s0, clearing)
  OBVIOUS
<1>2. Keep(s0, s) /\ (clearing => s.q = <<>>)
  BY <1>1, ScanKeeps
<1> SUFFICES ASSUME NEW u \in Waiter, NEW c \in Child, InQ(s, u), InZ(s, c)
             PROVE  ~Match(s.w[u].pid, c)
  BY <1>1
<1>3. s0 \in TableType /\ s0.q \in Seq(Waiter) /\ s.q \in Seq(Waiter) /\ s0.zs \in Seq(Child)
  BY <1>2 DEF Ready, Keep, TableType
<1>4. ~clearing
  BY <1>2 DEF InQ
<1>5. InQ(s0, u)
  BY <1>2 DEF InQ, Keep, KeepQ
<1>6. Len(s0.q) = 1 /\ s0.q[1] = u
  <2>1. \A i \in 1 .. Len(s0.q) : s0.q[i] = t
    BY <1>3
  <2>2. Len(s0.q) \in Nat /\ \A i, j \in 1 .. Len(s0.q) : i = j
    <3>1. Len(s0.q) \in Nat
      BY <1>3
    <3>2. \A i, j \in 1 .. Len(s0.q) : s0.q[i] = s0.q[j] => i = j
      BY DEF Ready
    <3> QED BY <2>1, <3>1, <3>2
  <2>3. Len(s0.q) # 0
    BY <1>5 DEF InQ
  <2>4. 1 \in 1 .. Len(s0.q) /\ Len(s0.q) \in 1 .. Len(s0.q)
    BY <2>2, <2>3
  <2>5. Len(s0.q) = 1
    BY <2>2, <2>4
  <2> QED BY <2>1, <2>4, <2>5
<1>7. s = ScanOne(s0, 1, FALSE)
  <2>1. s = Turns(s0, clearing)[1]
    BY <1>1, <1>4, <1>6 DEF Scan
  <2>2. /\ Turns(s0, clearing)[0] = Turn(Turns(s0, clearing), s0, 0, clearing)
        /\ Turns(s0, clearing)[1] = Turn(Turns(s0, clearing), s0, 1, clearing)
    BY <1>6, TurnsDef
  <2>3. Turns(s0, clearing)[0] = s0
    BY <2>2 DEF Turn
  <2>4. Turn(Turns(s0, clearing), s0, 1, clearing) = ScanOne(s0, 1, clearing)
    BY <1>6, <2>3 DEF Turn
  <2> QED BY <1>4, <2>1, <2>2, <2>4
<1> DEFINE x == s0.w[s0.q[1]]
<1>8. \/ \E i \in 1 .. Len(s0.zs) : Match(x.pid, s0.zs[i]) /\ Served(s0, 1, s, i)
      \/ /\ \A i \in 1 .. Len(s0.zs) : ~Match(x.pid, s0.zs[i])
         /\ \/ \E d \in Child : Told(s0, 1, s, d)
            \/ s = s0 /\ ~FALSE
            \/ Dismissed(s0, 1, s, IF FALSE THEN "signal" ELSE x.status, x.ev)
            \/ /\ Dismissed(s0, 1, s, x.status, FALSE) /\ ~FALSE
               /\ \A i \in DOMAIN children : ~Match(x.pid, children[i].pid)
  <2>1. 1 \in 1 .. Len(s0.q)
    BY <1>6
  <2> QED BY <1>3, <1>7, <2>1, OneTurn
<1>9. s.q # RemoveAt(s0.q, 1)
  <2>1. PICK q : q = s0.q
    OBVIOUS
  <2>2. q \in Seq(Waiter) /\ 1 \in 1 .. Len(q) /\ Len(q) = 1
    BY <1>3, <1>6, <2>1
  <2>3. Len(RemoveAt(q, 1)) = Len(q) - 1
    BY <2>2, RemoveAtFacts
  <2>4. Len(s.q) # 0
    BY DEF InQ
  <2> QED BY <2>1, <2>2, <2>3, <2>4
<1>10. (\A i \in 1 .. Len(s0.zs) : ~Match(x.pid, s0.zs[i])) /\ s = s0
  <2>1. ASSUME NEW i, Served(s0, 1, s, i) PROVE FALSE
    BY <1>9, <2>1 DEF Served
  <2>2. ASSUME NEW d, Told(s0, 1, s, d) PROVE FALSE
    BY <1>9, <2>2 DEF Told
  <2>3. ASSUME NEW status, NEW ev, Dismissed(s0, 1, s, status, ev) PROVE FALSE
    BY <1>9, <2>3 DEF Dismissed
  <2> HIDE DEF x
  <2> QED BY <1>8, <2>1, <2>2, <2>3
<1>11. ASSUME Match(s.w[u].pid, c) PROVE FALSE
  <2>1. PICK i \in 1 .. Len(s0.zs) : s0.zs[i] = c
    BY <1>10 DEF InZ
  <2> QED BY <1>6, <1>10, <1>11, <2>1
<1> QED BY <1>11

-----------------------------------------------------------------------------
(* The invariant *)

\* A thread is in the queue at most once, blocked in the call it made.
Queue ==
  /\ \A i, j \in 1 .. Len(waitq) : waitq[i] = waitq[j] => i = j
  /\ \A i \in 1 .. Len(waitq) :
       LET t == waitq[i]
       IN  /\ pc[t] = "wait" /\ w[t].ev /\ ~w[t].set
           /\ w[t].status # "exited" /\ w[t].pid = args[t].pid

\* The arrays hold each child that has not been waited for, in one place.
Arrays ==
  /\ \A i, j \in 1 .. Len(children) : children[i].pid = children[j].pid => i = j
  /\ \A i, j \in 1 .. Len(zombies) : zombies[i] = zombies[j] => i = j
  /\ \A i \in 1 .. Len(children), j \in 1 .. Len(zombies) : children[i].pid # zombies[j]
  /\ \A c \in Child :
       fate[c] = "child" <=> \/ \E i \in 1 .. Len(children) : children[i].pid = c
                             \/ \E i \in 1 .. Len(zombies) : zombies[i] = c

\* Every child in the array has a process; what wait_subproc waits for is how the
\* array begins, and what it goes on to report has ended.
Events ==
  /\ \A i \in 1 .. Len(children) : hProcess[children[i].pid] # 0
  /\ subproc.at \in {"wait", "term"} =>
       /\ Len(subproc.events) <= Len(children)
       /\ \A i \in 1 .. Len(subproc.events) : children[i] = subproc.events[i]
  /\ subproc.at = "term" =>
       subproc.val \in 1 .. Len(subproc.events) /\ Dead(subproc.events[subproc.val])

\* Only a thread that is still in wait4 has been told of an end, and of one that
\* no other thread will be told of.
Reported ==
  \A t \in Waiter :
    w[t].status = "exited" =>
      pc[t] = "wait" /\ w[t].pid \in Child /\ fate[w[t].pid] \in {"reaped", "returned"}

\* The invariant
IInv ==
  /\ TypeOK /\ Queue /\ Arrays /\ Events /\ Reported
  /\ FoundIsKept /\ OnlyDeadReaped /\ ZombiesFit

\* A step that leaves alone what a part of the invariant is about keeps it.
LEMMA QueueSame ==
  ASSUME Queue, UNCHANGED <<waitq, w, pc, args>>
  PROVE  Queue'
BY DEF Queue

\* The same, for the arrays
LEMMA ArraysSame ==
  ASSUME Arrays, ZombiesFit, UNCHANGED <<children, zombies, fate>>
  PROVE  Arrays' /\ ZombiesFit'
BY DEF Arrays, ZombiesFit

\* The same, for what wait_subproc knows
LEMMA EventsSame ==
  ASSUME Events, UNCHANGED <<children, hProcess, dead, subproc>>
  PROVE  Events'
BY DEF Events, Dead

\* The same, for what threads have been told
LEMMA FoundSame ==
  ASSUME Reported, FoundIsKept, UNCHANGED <<w, pc, fate>>
  PROVE  Reported' /\ FoundIsKept'
BY DEF Reported, FoundIsKept

\* The same, for who may be reaped
LEMMA DeadSame ==
  ASSUME OnlyDeadReaped, UNCHANGED <<zombies, fate, hProcess, dead>>
  PROVE  OnlyDeadReaped'
BY DEF OnlyDeadReaped, Running, Range

\* A zombie is one at some index.
LEMMA ZombieRange ==
  ASSUME TypeOK
  PROVE  \A c : c \in Range(zombies) <=> \E i \in 1 .. Len(zombies) : zombies[i] = c
BY DEF TypeOK, Range

\* A child is one at some index.
LEMMA PidRange ==
  ASSUME TypeOK
  PROVE  \A c : c \in Pids <=> \E i \in 1 .. Len(children) : children[i].pid = c
BY DEF TypeOK, Pids

\* What the invariant says of the tables s with p for where the threads are
Sound(s, p) ==
  /\ s \in TableType
  /\ \A c \in Child : s.fate[c] = "reaped" =>
       \E t \in Waiter : p[t] = "wait" /\ HasExit(s, t, c) /\ s.w[t].ev
  /\ \A t \in Waiter : s.w[t].status = "exited" =>
       p[t] = "wait" /\ s.w[t].pid \in Child /\ s.fate[s.w[t].pid] \in {"reaped", "returned"}
  /\ \A c \in Child : s.fate[c] = "child" <=> c \in Pids \/ InZ(s, c)
  /\ \A i, j \in 1 .. Len(s.zs) : s.zs[i] = s.zs[j] => i = j
  /\ \A i \in 1 .. Len(children), j \in 1 .. Len(s.zs) : children[i].pid # s.zs[j]
  /\ \A c \in Child : InZ(s, c) \/ s.fate[c] \in {"reaped", "returned", "discarded"} => ~Running(c)
  /\ Len(s.zs) < NZOMBIES

\* The tables s0 that a scan starts from, and p for where the threads are after
\* it if it makes s of them.
Start(s0, s, p) ==
  /\ Ready(s0) /\ s0.zs = zombies /\ s0.fate = fate
  /\ \A t \in Waiter : InQ(s0, t) => s0.w[t].ev /\ ~(pc[t] = "wait" /\ w[t].set)
  /\ \A t \in Waiter : InQ(s0, t) /\ s.w[t].ev => p[t] = "wait"
  /\ \A t \in Waiter : ~InQ(s0, t) => s0.w[t] = w[t] /\ (pc[t] = "wait" => p[t] = "wait")

\* The tables that a scan makes are as the invariant wants them.
LEMMA ScanSound ==
  ASSUME IInv, NEW s0, NEW s, NEW p, Start(s0, s, p), Keep(s0, s)
  PROVE  Sound(s, p)
<1>1. s \in TableType /\ s0 \in TableType /\ Fresh(s0) /\ s0.zs = zombies /\ s0.fate = fate
  BY DEF Keep, Start, Ready
<1>2. \A c \in Child : InZ(s0, c) <=> c \in Range(zombies)
  BY <1>1, ZombieRange DEF InZ, IInv
<1>3. \A c \in Child : InZ(s0, c) => fate[c] = "child"
  BY <1>1 DEF InZ, IInv, Arrays
<1>4. ASSUME NEW c \in Child, s.fate[c] = "reaped"
      PROVE  \E t \in Waiter : p[t] = "wait" /\ HasExit(s, t, c) /\ s.w[t].ev
  <2>1. CASE InZ(s0, c) /\ ~InZ(s, c)
    <3>1. PICK t \in Waiter : /\ InQ(s0, t) /\ ~InQ(s, t)
                              /\ HasExit(s, t, c) /\ (s0.w[t].ev => s.w[t].ev)
      BY <2>1 DEF Keep, KeepF
    <3>2. s.w[t].ev /\ p[t] = "wait"
      BY <3>1 DEF Start
    <3> QED BY <3>1, <3>2
  <2>2. CASE ~(InZ(s0, c) /\ ~InZ(s, c))
    <3>1. fate[c] = "reaped"
      BY <1>1, <1>4, <2>2 DEF Keep, KeepF
    <3>2. PICK t \in Waiter : /\ pc[t] = "wait" /\ w[t].pid = c
                              /\ w[t].status = "exited" /\ w[t].ev /\ w[t].set
      BY <3>1 DEF IInv, FoundIsKept
    <3>3. ~InQ(s0, t)
      BY <3>2 DEF Start
    <3>4. s.w[t] = w[t] /\ p[t] = "wait"
      BY <3>2, <3>3 DEF Start, Keep, KeepQ
    <3> QED BY <3>2, <3>4 DEF HasExit
  <2> QED BY <2>1, <2>2
<1>5. ASSUME NEW t \in Waiter, s.w[t].status = "exited"
      PROVE  p[t] = "wait" /\ s.w[t].pid \in Child /\ s.fate[s.w[t].pid] \in {"reaped", "returned"}
  <2>1. CASE /\ InQ(s0, t) /\ (s0.w[t].ev => s.w[t].ev) /\ s.w[t].pid \in Child
             /\ InZ(s0, s.w[t].pid) /\ ~InZ(s, s.w[t].pid)
    <3>1. p[t] = "wait"
      BY <2>1 DEF Start
    <3>2. s.fate[s.w[t].pid] = "reaped"
      BY <2>1 DEF Keep, KeepF
    <3> QED BY <2>1, <3>1, <3>2
  <2>2. CASE s.w[t] = s0.w[t]
    <3>1. ~InQ(s0, t)
      BY <1>1, <1>5, <2>2 DEF Fresh
    <3>2. s.w[t] = w[t] /\ (pc[t] = "wait" => p[t] = "wait")
      BY <2>2, <3>1 DEF Start
    <3>3. p[t] = "wait" /\ w[t].pid \in Child /\ fate[w[t].pid] \in {"reaped", "returned"}
      BY <1>5, <3>2 DEF IInv, Reported
    <3>4. ~InZ(s0, w[t].pid)
      BY <1>3, <3>3
    <3>5. s.fate[w[t].pid] = fate[w[t].pid]
      BY <1>1, <3>3, <3>4 DEF Keep, KeepF
    <3> QED BY <3>2, <3>3, <3>5
  <2> QED BY <1>5, <2>1, <2>2 DEF Keep, KeepX
<1>6. ASSUME NEW c \in Child
      PROVE  s.fate[c] = "child" <=> c \in Pids \/ InZ(s, c)
  <2>1. fate[c] = "child" <=> c \in Pids \/ InZ(s0, c)
    BY <1>1, PidRange DEF IInv, Arrays, InZ
  <2>2. InZ(s, c) => InZ(s0, c)
    BY DEF InZ, Keep, KeepZ
  <2>3. InZ(s0, c) => c \notin Pids
    BY <1>1, PidRange DEF IInv, Arrays, InZ
  <2>4. CASE InZ(s0, c) /\ ~InZ(s, c)
    BY <2>3, <2>4 DEF Keep, KeepF
  <2>5. CASE InZ(s, c) \/ ~InZ(s0, c)
    BY <1>1, <2>1, <2>2, <2>5 DEF Keep, KeepF
  <2> QED BY <2>4, <2>5
<1>7. ASSUME NEW i \in 1 .. Len(children), NEW j \in 1 .. Len(s.zs)
      PROVE  children[i].pid # s.zs[j]
  <2>1. PICK m \in 1 .. Len(zombies) : zombies[m] = s.zs[j]
    BY <1>1 DEF InZ, Keep, KeepZ
  <2> QED BY <2>1 DEF IInv, Arrays
<1>8. ASSUME NEW c \in Child, InZ(s, c) \/ s.fate[c] \in {"reaped", "returned", "discarded"}
      PROVE  ~Running(c)
  <2>1. InZ(s, c) => InZ(s0, c)
    BY DEF InZ, Keep, KeepZ
  <2>2. CASE InZ(s0, c)
    BY <1>2, <2>2 DEF IInv, OnlyDeadReaped
  <2>3. CASE ~InZ(s0, c)
    <3>1. s.fate[c] = fate[c]
      BY <1>1, <2>3 DEF Keep, KeepF
    <3> QED BY <1>8, <2>1, <2>3, <3>1 DEF IInv, OnlyDeadReaped
  <2> QED BY <2>2, <2>3
<1>9. Len(s.zs) < NZOMBIES
  <2>1. Len(s.zs) <= Len(zombies) /\ Len(zombies) < NZOMBIES
    BY <1>1 DEF Keep, KeepZ, IInv, ZombiesFit
  <2>2. s.zs \in Seq(Child) /\ zombies \in Seq(Child)
    BY <1>1 DEF TableType
  <2> QED BY <2>1, <2>2, SizeAssumption
<1>10. \A i, j \in 1 .. Len(s.zs) : s.zs[i] = s.zs[j] => i = j
  BY DEF Keep, KeepZ
<1> QED BY <1>1, <1>4, <1>5, <1>6, <1>7, <1>8, <1>9, <1>10 DEF Sound

\* The type of the tables
TablesOK ==
  /\ zombies \in Seq(Child) /\ waitq \in Seq(Waiter) /\ w \in [Waiter -> WaitRec]
  /\ stopsig \in [Child -> {0, 1}] /\ fate \in [Child -> Fate]

\* TypeOK says so of the tables.
LEMMA TypeParts == TypeOK => TablesOK /\ children \in Seq(Kid)
BY DEF TypeOK, TablesOK, WaitRec, Fate, Kid

\* A step that installs tables as the invariant wants them keeps the invariant.
LEMMA SoundKeeps ==
  ASSUME IInv, NEW s, Sound(s, pc'), SetTables(s), UNCHANGED <<children, hProcess, dead>>
  PROVE  TablesOK' /\ Arrays' /\ Reported' /\ FoundIsKept' /\ OnlyDeadReaped' /\ ZombiesFit'
<1>1. waitq' = s.q /\ w' = s.w /\ zombies' = s.zs /\ stopsig' = s.stop /\ fate' = s.fate
  BY DEF SetTables
<1>2. TablesOK'
  BY <1>1 DEF Sound, TableType, TablesOK
<1>3. Arrays'
  <2>1. \A c \in Child : InZ(s, c) <=> \E i \in 1 .. Len(zombies') : zombies'[i] = c
    BY <1>1 DEF InZ
  <2>2. \A c \in Child : c \in Pids <=> \E i \in 1 .. Len(children') : children'[i].pid = c
    BY PidRange DEF IInv
  <2>3. \A i, j \in 1 .. Len(children') : children'[i].pid = children'[j].pid => i = j
    BY DEF IInv, Arrays
  <2>4. \A i, j \in 1 .. Len(zombies') : zombies'[i] = zombies'[j] => i = j
    BY <1>1 DEF Sound
  <2>5. \A i \in 1 .. Len(children'), j \in 1 .. Len(zombies') : children'[i].pid # zombies'[j]
    BY <1>1 DEF Sound
  <2>6. \A c \in Child : fate'[c] = "child" <=> c \in Pids \/ InZ(s, c)
    BY <1>1 DEF Sound
  <2> QED BY <2>1, <2>2, <2>3, <2>4, <2>5, <2>6 DEF Arrays
<1>4. Reported' /\ FoundIsKept'
  BY <1>1 DEF Sound, Reported, FoundIsKept, HasExit
<1>5. OnlyDeadReaped'
  <2>1. \A c \in Child : c \in Range(zombies') => InZ(s, c)
    BY <1>1, <1>2 DEF InZ, Range, TablesOK
  <2>2. \A c \in Child : Running(c)' <=> Running(c)
    BY DEF Running
  <2> QED BY <1>1, <2>1, <2>2 DEF Sound, OnlyDeadReaped
<1>6. ZombiesFit'
  BY <1>1 DEF Sound, ZombiesFit
<1> QED BY <1>2, <1>3, <1>4, <1>5, <1>6

\* After a scan, who is still in the queue is there for a reason.
LEMMA QueueAfter ==
  ASSUME NEW s0, NEW s, Keep(s0, s), waitq' = s.q, w' = s.w,
         \A t \in Waiter : InQ(s0, t) =>
           /\ s0.w[t].ev /\ ~s0.w[t].set /\ s0.w[t].status # "exited"
           /\ s0.w[t].pid = args'[t].pid /\ (s.w[t].ev => pc'[t] = "wait")
  PROVE  Queue'
<1>1. s.q \in Seq(Waiter)
  BY DEF Keep, TableType
<1>2. \A i, j \in 1 .. Len(waitq') : waitq'[i] = waitq'[j] => i = j
  BY DEF Keep, KeepQ
<1>3. ASSUME NEW i \in 1 .. Len(waitq'), NEW t, t = waitq'[i]
      PROVE  /\ pc'[t] = "wait" /\ w'[t].ev /\ ~w'[t].set
             /\ w'[t].status # "exited" /\ w'[t].pid = args'[t].pid
  <2>1. t \in Waiter
    BY <1>1, <1>3
  <2>2. InQ(s0, t) /\ s.w[t] = s0.w[t]
    BY <1>3 DEF Keep, KeepQ
  <2> QED BY <2>1, <2>2
<1> QED BY <1>2, <1>3 DEF Queue

\* The tables are fit for a scan at any time.
LEMMA TablesReady ==
  ASSUME IInv
  PROVE  /\ Ready(Tables) /\ Tables.zs = zombies /\ Tables.fate = fate /\ Tables.w = w
         /\ \A t : InQ(Tables, t) => /\ pc[t] = "wait" /\ w[t].ev /\ ~w[t].set
                                     /\ w[t].status # "exited" /\ w[t].pid = args[t].pid
<1>1. Tables = [q |-> waitq, w |-> w, zs |-> zombies, stop |-> stopsig, fate |-> fate]
  BY DEF Tables
<1>2. Tables \in TableType
  BY <1>1, TypeParts DEF IInv, TablesOK, TableType
<1>3. Tables.q = waitq /\ Tables.zs = zombies /\ Tables.fate = fate /\ Tables.w = w
  BY <1>1
<1>4. \A t : InQ(Tables, t) => /\ pc[t] = "wait" /\ w[t].ev /\ ~w[t].set
                               /\ w[t].status # "exited" /\ w[t].pid = args[t].pid
  BY <1>3 DEF InQ, IInv, Queue
<1>5. Fresh(Tables)
  BY <1>3, <1>4 DEF Fresh
<1> QED BY <1>2, <1>3, <1>4, <1>5 DEF Ready, IInv, Queue, Arrays

\* proc_subproc (PROC_CLEARWAIT) keeps the invariant, clearing or not.
LEMMA ClearKeeps ==
  ASSUME IInv, NEW clearing \in BOOLEAN, ClearWait(clearing),
         UNCHANGED <<hProcess, dead, subproc, pc, args>>
  PROVE  /\ TablesOK' /\ Queue' /\ Arrays' /\ Events' /\ Reported' /\ FoundIsKept'
         /\ OnlyDeadReaped' /\ ZombiesFit'
<1>1. PICK s : s = Scan(Tables, clearing)
  OBVIOUS
<1>2. SetTables(s) /\ children' = children
  BY <1>1 DEF ClearWait
<1>3. PICK s0 : s0 = Tables
  OBVIOUS
<1>4. /\ Ready(s0) /\ s0.zs = zombies /\ s0.fate = fate /\ s0.w = w
      /\ \A t : InQ(s0, t) => /\ pc[t] = "wait" /\ w[t].ev /\ ~w[t].set
                              /\ w[t].status # "exited" /\ w[t].pid = args[t].pid
  BY <1>3, TablesReady
<1>5. Keep(s0, s)
  BY <1>1, <1>3, <1>4, ScanKeeps, TypeParts DEF IInv
<1>6. Start(s0, s, pc')
  BY <1>4 DEF Start
<1>7. Sound(s, pc')
  BY <1>5, <1>6, ScanSound
<1>8. Queue'
  BY <1>2, <1>4, <1>5, QueueAfter DEF SetTables
<1>9. Events'
  BY <1>2, EventsSame DEF IInv
<1> QED BY <1>2, <1>7, <1>8, <1>9, SoundKeeps

\* The type of the rest
RestOK ==
  /\ children \in Seq(Kid)
  /\ hProcess \in [Child -> {0, 1, 2}]
  /\ dead \in [Child -> SUBSET {1, 2}]
  /\ telling \subseteq Child
  /\ subproc \in [at : {"loop", "wait", "term", "send", "done"},
                  events : Seq(Kid), val : Nat, wake : {0, 1}]
  /\ sigtodo \in Nat /\ nosync \in {0, 1}
  /\ sigpc \in {"idle", "scan", "clear", "clearmore"}
  /\ blocked \in BOOLEAN /\ sigsave \in BOOLEAN
  /\ action \in {"default", "ignore", "handler"}
  /\ pc \in [Waiter -> {"idle", "call", "wait", "nochild", "gone"}]
  /\ args \in [Waiter -> [pid : Target \cup {None}, nohang : BOOLEAN, untraced : BOOLEAN]]

\* TypeOK is the two parts together.
LEMMA TypeSplit == TypeOK <=> TablesOK /\ RestOK
BY DEF TypeOK, TablesOK, RestOK, WaitRec, Fate, Kid

\* All of the invariant but the types
Facts ==
  /\ Queue /\ Arrays /\ Events /\ Reported /\ FoundIsKept /\ OnlyDeadReaped /\ ZombiesFit

\* The parts make the invariant.
LEMMA Recombine == (TablesOK' /\ RestOK' /\ Facts') => IInv'
BY DEF IInv, Facts, TypeOK, TablesOK, RestOK, WaitRec, Fate, Kid

\* A step that touches neither the tables, the processes, wait_subproc nor a call
LEMMA Elsewhere ==
  ASSUME IInv, UNCHANGED <<tables, hProcess, dead, subproc, calls>>
  PROVE  TablesOK' /\ Facts'
<1>1. TablesOK'
  BY TypeSplit DEF IInv, TablesOK, tables
<1>2. Queue' /\ Arrays' /\ ZombiesFit' /\ Events' /\ Reported' /\ FoundIsKept' /\ OnlyDeadReaped'
  BY QueueSame, ArraysSame, EventsSame, FoundSame, DeadSame DEF IInv, tables, calls
<1> QED BY <1>1, <1>2 DEF Facts

\* sigaction keeps the invariant.
LEMMA SigactionKeeps == ASSUME IInv, NEW a \in Dispositions, Sigaction(a) PROVE IInv'
<1>1. TablesOK' /\ Facts'
  BY Elsewhere DEF Sigaction, procs
<1>2. RestOK'
  <2>1. RestOK
    BY TypeSplit DEF IInv
  <2>2. a \in {"default", "ignore", "handler"}
    BY SignalAssumption
  <2> QED BY <2>1, <2>2 DEF RestOK, Sigaction, tables, procs, calls
<1> QED BY <1>1, <1>2, Recombine

\* sigprocmask keeps the invariant.
LEMMA SigprocmaskKeeps == ASSUME IInv, Sigprocmask PROVE IInv'
<1>1. TablesOK' /\ Facts'
  BY Elsewhere DEF Sigprocmask, procs
<1>2. RestOK'
  BY TypeSplit DEF IInv, RestOK, Sigprocmask, tables, procs, calls
<1> QED BY <1>1, <1>2, Recombine

\* wait_sig wakes up: the invariant is kept.
LEMMA SigWakeKeeps == ASSUME IInv, SigWake PROVE IInv'
<1>1. TablesOK' /\ Facts'
  BY Elsewhere DEF SigWake, procs
<1>2. RestOK'
  BY TypeSplit DEF IInv, RestOK, SigWake, tables, procs, calls
<1> QED BY <1>1, <1>2, Recombine

\* wait_sig finds no SIGCHLD: the invariant is kept.
LEMMA SigDoneKeeps == ASSUME IInv, SigDone PROVE IInv'
<1>1. TablesOK' /\ Facts'
  BY Elsewhere DEF SigDone, procs
<1>2. RestOK'
  BY TypeSplit DEF IInv, RestOK, SigDone, tables, procs, calls
<1> QED BY <1>1, <1>2, Recombine

\* A child sends SIGCHLD: the invariant is kept.
LEMMA TellKeeps == ASSUME IInv, NEW c \in Child, Tell(c) PROVE IInv'
<1>1. TablesOK' /\ Facts'
  BY Elsewhere DEF Tell
<1>2. RestOK'
  BY TypeSplit DEF IInv, RestOK, Tell, tables, calls
<1> QED BY <1>1, <1>2, Recombine

\* wait_sig scans the queue: the invariant is kept.
LEMMA SigClearKeeps == ASSUME IInv, SigClear PROVE IInv'
<1>1. TablesOK' /\ Facts'
  <2>1. ClearWait(FALSE) /\ UNCHANGED <<hProcess, dead, subproc, pc, args>>
    BY DEF SigClear, procs, calls
  <2> QED BY <2>1, ClearKeeps DEF Facts
<1>2. RestOK'
  <2>1. children' = children
    BY DEF SigClear, ClearWait
  <2> QED BY <2>1, TypeSplit DEF IInv, RestOK, SigClear, procs, calls
<1> QED BY <1>1, <1>2, Recombine

\* Another signal clears the waits: the invariant is kept.
LEMMA SigOtherKeeps == ASSUME IInv, SigOther PROVE IInv'
<1>1. TablesOK' /\ Facts'
  <2>1. ClearWait(TRUE) /\ UNCHANGED <<hProcess, dead, subproc, pc, args>>
    BY DEF SigOther, Interrupt, procs, calls
  <2> QED BY <2>1, ClearKeeps DEF Facts
<1>2. RestOK'
  <2>1. children' = children
    BY DEF SigOther, Interrupt, ClearWait
  <2> QED BY <2>1, TypeSplit DEF IInv, RestOK, SigOther, Interrupt, procs, calls
<1> QED BY <1>1, <1>2, Recombine

\* wait_sig takes a SIGCHLD, with or without a handler: the invariant is kept.
LEMMA SigTakeKeeps == ASSUME IInv, SigTake PROVE IInv'
<1>1. UNCHANGED <<hProcess, dead, subproc, pc, args, telling>>
  BY DEF SigTake, procs, calls
<1>2. RestOK
  BY TypeSplit DEF IInv
<1>3. CASE UNCHANGED tables
  <2>1. TablesOK' /\ Facts'
    BY <1>1, <1>3, Elsewhere DEF calls
  <2>2. UNCHANGED <<children, blocked, action>> /\ sigtodo > 0
    BY <1>3 DEF SigTake, tables
  <2>3. sigtodo' \in Nat
    BY <1>2, <2>2 DEF RestOK, SigTake
  <2>4. nosync' \in {0, 1} /\ sigpc' \in {"idle", "scan", "clear", "clearmore"}
    BY <1>2, <2>2 DEF RestOK, SigTake
  <2>5. sigsave' \in BOOLEAN
    <3>1. sigsave' = sigsave \/ sigsave' = (pc[Main] \in {"call", "wait", "nochild"})
      BY DEF SigTake, Interrupt
    <3>2. sigsave \in BOOLEAN
      BY <1>2 DEF RestOK
    <3>3. (pc[Main] \in {"call", "wait", "nochild"}) \in BOOLEAN
      OBVIOUS
    <3>4. CASE sigsave' = sigsave
      BY <3>2, <3>4
    <3>5. CASE sigsave' = (pc[Main] \in {"call", "wait", "nochild"})
      BY <3>3, <3>5
    <3> QED BY <3>1, <3>4, <3>5
  <2>6. RestOK'
    BY <1>1, <1>2, <2>2, <2>3, <2>4, <2>5 DEF RestOK
  <2> QED BY <2>1, <2>6, Recombine
<1>4. CASE /\ Interrupt
           /\ sigtodo > 0 /\ sigtodo' = sigtodo - 1
           /\ sigpc' = IF sigtodo > 1 THEN "clearmore" ELSE "clear"
           /\ UNCHANGED <<nosync, blocked, action>>
  <2>1. ClearWait(TRUE)
    BY <1>4 DEF Interrupt
  <2>2. TablesOK' /\ Facts'
    BY <1>1, <2>1, ClearKeeps DEF Facts
  <2>3. children' = children
    BY <2>1 DEF ClearWait
  <2>4. RestOK'
    BY <1>1, <1>2, <1>4, <2>3 DEF RestOK, Interrupt
  <2> QED BY <2>2, <2>4, Recombine
<1> QED BY <1>3, <1>4 DEF SigTake

\* PROC_ADDCHILD keeps the invariant: what wait_subproc waits for is still how the
\* array begins.
LEMMA ForkKeeps == ASSUME IInv, NEW c \in Child, Fork(c) PROVE IInv'
<1> DEFINE n == Len(children)
<1>1. TablesOK /\ RestOK /\ children \in Seq(Kid) /\ n \in Nat
  BY TypeSplit DEF IInv, RestOK
<1>2. PICK x : x = [pid |-> c, h |-> 1]
  OBVIOUS
<1>3. x \in Kid /\ x.pid = c
  BY <1>2 DEF Kid
<1>4. /\ children' = Append(children, x) /\ fate' = [fate EXCEPT ![c] = "child"] /\ fate[c] = "unborn"
      /\ hProcess' = [hProcess EXCEPT ![c] = 1] /\ subproc' = [subproc EXCEPT !.wake = 1]
      /\ UNCHANGED <<zombies, waitq, w, stopsig, dead, telling, sigs, calls>>
  BY <1>2 DEF Fork
<1>5. /\ children' \in Seq(Kid) /\ Len(children') = n + 1 /\ children'[n + 1] = x
      /\ \A i \in 1 .. n : children'[i] = children[i]
  BY <1>1, <1>3, <1>4, AppendProperties
<1>6. TablesOK'
  BY <1>1, <1>4 DEF TablesOK, Fate
<1>7. RestOK'
  BY <1>1, <1>4, <1>5 DEF RestOK, sigs, calls
<1>8. fate' \in [Child -> Fate] /\ fate'[c] = "child" /\ \A d \in Child : d # c => fate'[d] = fate[d]
  BY <1>1, <1>4 DEF TablesOK, Fate
<1>9. /\ \A i \in 1 .. n : children[i].pid # c
      /\ \A i \in 1 .. Len(zombies) : zombies[i] # c
  BY <1>4 DEF IInv, Arrays
<1>10. Arrays' /\ ZombiesFit'
  <2>1. \A i, j \in 1 .. Len(children') : children'[i].pid = children'[j].pid => i = j
    BY <1>1, <1>3, <1>5, <1>9 DEF IInv, Arrays
  <2>2. \A i \in 1 .. Len(children'), j \in 1 .. Len(zombies) : children'[i].pid # zombies[j]
    BY <1>1, <1>3, <1>5, <1>9 DEF IInv, Arrays
  <2>3. ASSUME NEW d \in Child
        PROVE  (\E i \in 1 .. Len(children') : children'[i].pid = d)
                 <=> d = c \/ \E i \in 1 .. n : children[i].pid = d
    <3>1. ASSUME d = c PROVE \E i \in 1 .. Len(children') : children'[i].pid = d
      <4>1. n + 1 \in 1 .. Len(children') /\ children'[n + 1].pid = d
        BY <1>1, <1>3, <1>5, <3>1
      <4> QED BY <4>1
    <3> QED BY <1>1, <1>3, <1>5, <3>1
  <2>4. \A d \in Child : fate'[d] = "child" <=> d = c \/ fate[d] = "child"
    BY <1>8
  <2>5. zombies' = zombies
    BY <1>4
  <2> QED BY <2>1, <2>2, <2>3, <2>4, <2>5 DEF IInv, Arrays, ZombiesFit
<1>11. Queue'
  BY <1>4, QueueSame DEF IInv, calls
<1>12. Events'
  <2>1. /\ subproc'.at = subproc.at /\ subproc'.events = subproc.events /\ subproc'.val = subproc.val
        /\ subproc.events \in Seq(Kid)
    BY <1>1, <1>4 DEF RestOK
  <2>2. \A i \in 1 .. Len(children') : hProcess'[children'[i].pid] # 0
    <3>1. hProcess \in [Child -> {0, 1, 2}]
      BY <1>1 DEF RestOK
    <3>2. hProcess'[c] = 1 /\ \A d \in Child : d # c => hProcess'[d] = hProcess[d]
      BY <1>4, <3>1
    <3>3. ASSUME NEW i \in 1 .. n PROVE hProcess'[children'[i].pid] # 0
      <4>1. children[i] \in Kid
        BY <1>1
      <4>2. children[i].pid \in Child /\ children[i].pid # c
        BY <1>9, <4>1 DEF Kid
      <4>3. hProcess[children[i].pid] # 0
        BY DEF IInv, Events
      <4> QED BY <1>5, <3>2, <4>2, <4>3
    <3>4. \A i \in 1 .. Len(children') : i = n + 1 \/ i \in 1 .. n
      BY <1>1, <1>5
    <3> QED BY <1>3, <1>5, <3>2, <3>3, <3>4
  <2> QED BY <1>1, <1>4, <1>5, <2>1, <2>2 DEF IInv, Events, Dead
<1>13. Reported' /\ FoundIsKept'
  <2>1. \A d \in Child : fate[d] \in {"reaped", "returned"} => fate'[d] = fate[d]
    BY <1>4, <1>8
  <2>2. \A d \in Child : fate'[d] = "reaped" => fate[d] = "reaped"
    BY <1>8
  <2> QED BY <1>4, <2>1, <2>2 DEF IInv, Reported, FoundIsKept, calls
<1>14. OnlyDeadReaped'
  <2>1. hProcess \in [Child -> {0, 1, 2}]
    BY <1>1 DEF RestOK
  <2>2. \A d \in Child : d # c => (Running(d)' <=> Running(d))
    BY <1>4, <2>1 DEF Running
  <2>3. c \notin Range(zombies)
    BY <1>9, ZombieRange DEF IInv
  <2> QED BY <1>4, <1>8, <2>2, <2>3 DEF IInv, OnlyDeadReaped
<1> QED BY <1>6, <1>7, <1>10, <1>11, <1>12, <1>13, <1>14, Recombine DEF Facts

\* A call of wait4 keeps the invariant.
LEMMA Wait4Keeps == ASSUME IInv, NEW t \in Waiter, NEW request \in Requests, Wait4(t, request) PROVE IInv'
<1>1. /\ pc[t] = "idle" /\ args' = [args EXCEPT ![t] = request] /\ pc' = [pc EXCEPT ![t] = "call"]
      /\ UNCHANGED <<tables, procs, subproc, sigs>>
  BY DEF Wait4
<1>2. TablesOK /\ RestOK
  BY TypeSplit DEF IInv
<1>3. TablesOK'
  BY <1>1, <1>2 DEF TablesOK, tables
<1>4. RestOK'
  <2>1. request \in [pid : Target \cup {None}, nohang : BOOLEAN, untraced : BOOLEAN]
    BY RequestAssumption DEF Target
  <2> QED BY <1>1, <1>2, <2>1 DEF RestOK, tables, procs, sigs
<1>5. \A u \in Waiter : u # t => pc'[u] = pc[u] /\ args'[u] = args[u]
  BY <1>1, <1>2 DEF RestOK
<1>6. Queue'
  <2>1. \A i \in 1 .. Len(waitq) : waitq[i] \in Waiter /\ waitq[i] # t
    BY <1>1, <1>2 DEF IInv, Queue, TablesOK
  <2> QED BY <1>1, <1>5, <2>1 DEF IInv, Queue, tables
<1>7. Arrays' /\ ZombiesFit' /\ Events' /\ OnlyDeadReaped'
  BY <1>1, ArraysSame, EventsSame, DeadSame DEF IInv, tables, procs
<1>8. Reported' /\ FoundIsKept'
  <2>1. w[t].status # "exited"
    BY <1>1 DEF IInv, Reported
  <2>2. \A u \in Waiter : pc[u] = "wait" => pc'[u] = "wait"
    BY <1>1, <1>5
  <2> QED BY <1>1, <2>1, <2>2 DEF IInv, Reported, FoundIsKept, tables
<1> QED BY <1>3, <1>4, <1>6, <1>7, <1>8, Recombine DEF Facts

\* The end of wait4: the record of the thread is as Leave has it.
LEMMA LeaveFacts ==
  ASSUME IInv, NEW t \in Waiter, Leave(t)
  PROVE  /\ w' \in [Waiter -> WaitRec] /\ w'[t].status = "signal" /\ (w'[t].ev <=> w[t].ev)
         /\ pc' \in [Waiter -> {"idle", "call", "wait", "nochild", "gone"}]
         /\ args' \in [Waiter -> [pid : Target \cup {None}, nohang : BOOLEAN, untraced : BOOLEAN]]
         /\ pc'[t] = "idle"
         /\ \A u \in Waiter : u # t => w'[u] = w[u] /\ pc'[u] = pc[u] /\ args'[u] = args[u]
<1> DEFINE x == [w[t] EXCEPT !.status = "signal", !.pid = None, !.nohang = FALSE, !.untraced = FALSE]
<1>1. TablesOK /\ RestOK
  BY TypeSplit DEF IInv
<1>2. w \in [Waiter -> WaitRec] /\ w[t] \in WaitRec
  BY <1>1 DEF TablesOK
<1>3. x \in WaitRec /\ x.status = "signal" /\ (x.ev <=> w[t].ev)
  BY <1>2 DEF WaitRec
<1>4. w' = [w EXCEPT ![t] = x]
  BY DEF Leave
<1> HIDE DEF x
<1>5. w' \in [Waiter -> WaitRec] /\ w'[t] = x /\ \A u \in Waiter : u # t => w'[u] = w[u]
  BY <1>2, <1>3, <1>4
<1>6. NoRequest \in [pid : Target \cup {None}, nohang : BOOLEAN, untraced : BOOLEAN]
  BY DEF NoRequest
<1>7. /\ pc' \in [Waiter -> {"idle", "call", "wait", "nochild", "gone"}] /\ pc'[t] = "idle"
      /\ \A u \in Waiter : u # t => pc'[u] = pc[u]
  BY <1>1 DEF RestOK, Leave
<1>8. /\ args' \in [Waiter -> [pid : Target \cup {None}, nohang : BOOLEAN, untraced : BOOLEAN]]
      /\ \A u \in Waiter : u # t => args'[u] = args[u]
  BY <1>1, <1>6 DEF RestOK, Leave
<1> QED BY <1>3, <1>5, <1>7, <1>8

\* A thread that is out of the queue may leave wait4.
LEMMA LeaveQueue ==
  ASSUME IInv, NEW t \in Waiter, Leave(t), UNCHANGED waitq, pc[t] # "wait" \/ w[t].set
  PROVE  Queue'
<1>1. TablesOK
  BY TypeSplit DEF IInv
<1>2. \A i \in 1 .. Len(waitq) : waitq[i] \in Waiter /\ waitq[i] # t
  BY <1>1 DEF IInv, Queue, TablesOK
<1> QED BY <1>2, LeaveFacts DEF IInv, Queue

\* wait4 returns: a child that was taken for this thread is now returned.
LEMMA ReturnKeeps == ASSUME IInv, NEW t \in Waiter, Return(t) PROVE IInv'
<1>0. pc[t] = "nochild" \/ (pc[t] = "wait" /\ w[t].set)
  BY DEF Return
<1>1. /\ fate' = IF w[t].ev /\ w[t].status = "exited"
                   THEN [fate EXCEPT ![w[t].pid] = "returned"] ELSE fate
      /\ Leave(t) /\ sigsave' = IF t = Main THEN FALSE ELSE sigsave
      /\ UNCHANGED <<children, zombies, waitq, stopsig, procs, subproc, sigtodo, nosync,
                     sigpc, blocked, action>>
  BY Zenon DEF Return
<1>2. TablesOK /\ RestOK
  BY TypeSplit DEF IInv
<1>3. /\ w' \in [Waiter -> WaitRec] /\ w'[t].status = "signal"
      /\ pc' \in [Waiter -> {"idle", "call", "wait", "nochild", "gone"}]
      /\ args' \in [Waiter -> [pid : Target \cup {None}, nohang : BOOLEAN, untraced : BOOLEAN]]
      /\ \A u \in Waiter : u # t => w'[u] = w[u] /\ pc'[u] = pc[u]
  BY <1>1, LeaveFacts
<1>4. \/ fate' = fate /\ ~(w[t].ev /\ w[t].status = "exited")
      \/ /\ w[t].pid \in Child /\ fate[w[t].pid] \in {"reaped", "returned"}
         /\ fate' = [fate EXCEPT ![w[t].pid] = "returned"]
  BY <1>1 DEF IInv, Reported
<1>5. /\ fate' \in [Child -> Fate]
      /\ \A c \in Child : \/ fate'[c] = fate[c]
                          \/ fate[c] \in {"reaped", "returned"} /\ fate'[c] = "returned"
  BY <1>2, <1>4 DEF TablesOK, Fate
<1>6. TablesOK'
  BY <1>1, <1>2, <1>3, <1>5 DEF TablesOK
<1>7. RestOK'
  BY <1>1, <1>2, <1>3 DEF RestOK, procs
<1>8. Queue'
  BY <1>0, <1>1, LeaveQueue
<1>9. Arrays' /\ ZombiesFit'
  <2>1. \A c \in Child : fate'[c] = "child" <=> fate[c] = "child"
    BY <1>5
  <2> QED BY <1>1, <2>1 DEF IInv, Arrays, ZombiesFit
<1>10. Events'
  BY <1>1, EventsSame DEF IInv, procs
<1>11. Reported'
  BY <1>3, <1>5 DEF IInv, Reported
<1>12. FoundIsKept'
  <2> SUFFICES ASSUME NEW c \in Child, fate'[c] = "reaped"
               PROVE  \E u \in Waiter : /\ pc'[u] = "wait" /\ w'[u].pid = c
                                        /\ w'[u].status = "exited" /\ w'[u].ev /\ w'[u].set
    BY DEF FoundIsKept
  <2>1. fate[c] = "reaped"
    BY <1>5
  <2>2. PICK u \in Waiter : /\ pc[u] = "wait" /\ w[u].pid = c
                            /\ w[u].status = "exited" /\ w[u].ev /\ w[u].set
    BY <2>1 DEF IInv, FoundIsKept
  <2>3. u # t
    <3> SUFFICES ASSUME u = t PROVE FALSE
      OBVIOUS
    <3>1. fate' = [fate EXCEPT ![c] = "returned"]
      BY <1>4, <2>2
    <3> QED BY <1>2, <3>1 DEF TablesOK
  <2> QED BY <1>3, <2>2, <2>3
<1>13. OnlyDeadReaped'
  <2>1. \A c \in Child : Running(c)' <=> Running(c)
    BY <1>1 DEF Running, procs
  <2> QED BY <1>1, <1>5, <2>1 DEF IInv, OnlyDeadReaped
<1> QED BY <1>6, <1>7, <1>8, <1>9, <1>10, <1>11, <1>12, <1>13, Recombine DEF Facts

\* wait4 is interrupted: no child was taken for this thread.
LEMMA InterruptedKeeps == ASSUME IInv, NEW t \in Waiter, Interrupted(t) PROVE IInv'
<1>1. /\ pc[t] = "wait" /\ w[t].set /\ w[t].ev /\ w[t].status = "signal"
      /\ sigsave' = IF t = Main THEN FALSE ELSE sigsave
      /\ UNCHANGED <<children, zombies, waitq, stopsig, fate, procs, subproc, sigtodo,
                     nosync, sigpc, blocked, action>>
  BY DEF Interrupted
<1>2. TablesOK /\ RestOK
  BY TypeSplit DEF IInv
<1>3. Arrays' /\ ZombiesFit' /\ Events' /\ OnlyDeadReaped'
  BY <1>1, ArraysSame, EventsSame, DeadSame DEF IInv, procs
<1>4. CASE pc' = [pc EXCEPT ![t] = "call"] /\ UNCHANGED <<w, args>>
  <2>1. TablesOK' /\ RestOK'
    BY <1>1, <1>2, <1>4 DEF TablesOK, RestOK, procs
  <2>2. \A u \in Waiter : u # t => pc'[u] = pc[u]
    BY <1>2, <1>4 DEF RestOK
  <2>3. \A i \in 1 .. Len(waitq) : waitq[i] \in Waiter /\ waitq[i] # t
    BY <1>1, <1>2 DEF IInv, Queue, TablesOK
  <2>4. Queue'
    BY <1>1, <1>4, <2>2, <2>3 DEF IInv, Queue
  <2>5. \A u \in Waiter : w[u].status = "exited" => u # t
    BY <1>1
  <2>6. Reported' /\ FoundIsKept'
    BY <1>1, <1>4, <2>2, <2>5 DEF IInv, Reported, FoundIsKept
  <2> QED BY <1>3, <2>1, <2>4, <2>6, Recombine DEF Facts
<1>5. CASE Leave(t)
  <2>1. /\ w' \in [Waiter -> WaitRec] /\ w'[t].status = "signal"
        /\ pc' \in [Waiter -> {"idle", "call", "wait", "nochild", "gone"}]
        /\ args' \in [Waiter -> [pid : Target \cup {None}, nohang : BOOLEAN, untraced : BOOLEAN]]
        /\ \A u \in Waiter : u # t => w'[u] = w[u] /\ pc'[u] = pc[u]
    BY <1>5, LeaveFacts
  <2>2. TablesOK' /\ RestOK'
    BY <1>1, <1>2, <2>1 DEF TablesOK, RestOK, procs
  <2>3. Queue'
    BY <1>1, <1>5, LeaveQueue
  <2>4. \A u \in Waiter : w[u].status = "exited" => u # t
    BY <1>1
  <2>5. Reported'
    BY <1>1, <2>1, <2>4 DEF IInv, Reported
  <2>6. FoundIsKept'
    BY <1>1, <2>1, <2>4 DEF IInv, FoundIsKept
  <2> QED BY <1>3, <2>2, <2>3, <2>5, <2>6, Recombine DEF Facts
<1> QED BY <1>4, <1>5 DEF Interrupted

\* The record of a thread that enters the queue
Entered(t, y) ==
  /\ y \in WaitRec /\ y.pid = args[t].pid /\ y.status = "none" /\ y.ev /\ ~y.set

\* The tables with the thread t at the head of the queue
Entry(t, y) ==
  [q |-> <<t>> \o waitq, w |-> [w EXCEPT ![t] = y], zs |-> zombies, stop |-> stopsig, fate |-> fate]

\* With a thread that enters it at the head, the queue is fit for a scan.
LEMMA EntryReady ==
  ASSUME IInv, NEW t \in Waiter, pc[t] = "call", NEW y, Entered(t, y), NEW s0, s0 = Entry(t, y)
  PROVE  /\ Ready(s0) /\ s0.zs = zombies /\ s0.fate = fate /\ s0.w[t] = y
         /\ InQ(s0, t) /\ \A u \in Waiter : u # t => s0.w[u] = w[u]
         /\ \A u \in Waiter : InQ(s0, u) /\ u # t =>
              /\ pc[u] = "wait" /\ w[u].ev /\ ~w[u].set
              /\ w[u].status # "exited" /\ w[u].pid = args[u].pid
<1>1. TablesOK /\ y \in WaitRec
  BY TypeSplit DEF IInv, Entered
<1>2. /\ s0.q = <<t>> \o waitq /\ s0.w = [w EXCEPT ![t] = y] /\ s0.zs = zombies
      /\ s0.stop = stopsig /\ s0.fate = fate
      /\ s0 = [q |-> s0.q, w |-> s0.w, zs |-> s0.zs, stop |-> s0.stop, fate |-> s0.fate]
  BY DEF Entry
<1>3. s0.w \in [Waiter -> WaitRec] /\ s0.w[t] = y /\ \A u \in Waiter : u # t => s0.w[u] = w[u]
  BY <1>1, <1>2 DEF TablesOK
<1>4. /\ s0.q \in Seq(Waiter) /\ Len(s0.q) = Len(waitq) + 1 /\ s0.q[1] = t
      /\ \A i \in 2 .. Len(waitq) + 1 : s0.q[i] = waitq[i - 1]
  <2>1. waitq \in Seq(Waiter)
    BY <1>1 DEF TablesOK
  <2>2. PICK q : q = <<t>> \o waitq
    OBVIOUS
  <2>3. /\ q \in Seq(Waiter) /\ Len(q) = Len(waitq) + 1 /\ q[1] = t
        /\ \A i \in 2 .. Len(waitq) + 1 : q[i] = waitq[i - 1]
    BY <2>1, <2>2
  <2> QED BY <1>2, <2>2, <2>3
<1>5. s0 \in TableType
  BY <1>1, <1>2, <1>3, <1>4 DEF TablesOK, TableType
<1>6. /\ waitq \in Seq(Waiter) /\ Len(waitq) \in Nat
      /\ \A i, j \in 1 .. Len(waitq) : waitq[i] = waitq[j] => i = j
      /\ \A i \in 1 .. Len(waitq) : waitq[i] # t
  BY <1>1 DEF TablesOK, IInv, Queue
<1>7. InQ(s0, t) /\ \A u \in Waiter : InQ(s0, u) /\ u # t => \E i \in 1 .. Len(waitq) : waitq[i] = u
  <2>1. 1 \in 1 .. Len(s0.q)
    BY <1>4, <1>6
  <2>2. \A i \in 1 .. Len(s0.q) : i = 1 \/ (i \in 2 .. Len(waitq) + 1 /\ i - 1 \in 1 .. Len(waitq))
    BY <1>4, <1>6
  <2> QED BY <1>4, <2>1, <2>2 DEF InQ
<1>8. \A u \in Waiter : InQ(s0, u) /\ u # t =>
        /\ pc[u] = "wait" /\ w[u].ev /\ ~w[u].set
        /\ w[u].status # "exited" /\ w[u].pid = args[u].pid
  BY <1>7 DEF IInv, Queue
<1>9. Fresh(s0)
  BY <1>3, <1>8 DEF Fresh, Entered
<1>10. ASSUME NEW i \in 1 .. Len(s0.q), NEW j \in 1 .. Len(s0.q), s0.q[i] = s0.q[j]
       PROVE  i = j
  <2>1. \A m \in 1 .. Len(s0.q) : m = 1 \/ (m \in 2 .. Len(waitq) + 1 /\ m - 1 \in 1 .. Len(waitq))
    BY <1>4, <1>6
  <2>2. CASE i = 1 \/ j = 1
    <3>1. \A m \in 1 .. Len(s0.q) : m # 1 => s0.q[m] = waitq[m - 1] /\ m - 1 \in 1 .. Len(waitq)
      BY <1>4, <2>1
    <3>2. \A m \in 1 .. Len(s0.q) : m # 1 => s0.q[m] # t
      BY <1>6, <3>1
    <3> QED BY <1>4, <1>10, <2>2, <3>2
  <2>3. CASE i # 1 /\ j # 1
    <3>1. waitq[i - 1] = waitq[j - 1] /\ i - 1 \in 1 .. Len(waitq) /\ j - 1 \in 1 .. Len(waitq)
      BY <1>4, <1>10, <2>1, <2>3
    <3>2. i - 1 = j - 1
      BY <1>6, <3>1
    <3> QED BY <1>6, <3>2
  <2> QED BY <2>2, <2>3
<1>11. \A i, j \in 1 .. Len(s0.zs) : s0.zs[i] = s0.zs[j] => i = j
  BY <1>2 DEF IInv, Arrays
<1> QED BY <1>2, <1>3, <1>5, <1>7, <1>8, <1>9, <1>10, <1>11 DEF Ready

\* What proc_subproc (PROC_WAIT) does, by the case it takes: there is no lock any
\* more or the pid is refused, and only the thread's record changes; or the
\* thread enters the queue.
LEMMA ProcWaitCases ==
  ASSUME IInv, NEW t \in Waiter, ProcWait(t)
  PROVE  /\ pc[t] = "call" /\ pc' = [pc EXCEPT ![t] = IF w'[t].ev THEN "wait" ELSE "nochild"]
         /\ UNCHANGED <<children, procs, subproc, sigs, args>>
         /\ \/ /\ UNCHANGED <<waitq, zombies, stopsig, fate>>
               /\ \E x \in WaitRec : /\ w' = [w EXCEPT ![t] = x] /\ x.status = w[t].status
                                     /\ (x.ev <=> w[t].ev) \/ args[t].pid \in Child
                                     /\ subproc.at = "done" \/ args[t].pid \in Child
            \/ \E y : Entered(t, y) /\ SetTables(Scan(Entry(t, y), FALSE))
<1> DEFINE a == args[t]
           mychild == a.pid \in Child => a.pid \in Pids \cup Range(zombies)
           x == [w[t] EXCEPT !.pid = a.pid, !.nohang = a.nohang, !.untraced = a.untraced]
           y == [x EXCEPT !.status = "none", !.ev = TRUE, !.set = FALSE]
           s == CASE subproc.at = "done" -> [Tables EXCEPT !.w[t] = x]
                  [] subproc.at # "done" /\ ~mychild ->
                       [Tables EXCEPT !.w[t] = [x EXCEPT !.ev = FALSE]]
                  [] subproc.at # "done" /\ mychild ->
                       Scan([Tables EXCEPT !.w[t] = y, !.q = <<t>> \o @], FALSE)
<1>1. SetTables(s) /\ pc[t] = "call" /\ pc' = [pc EXCEPT ![t] = IF s.w[t].ev THEN "wait" ELSE "nochild"]
      /\ UNCHANGED <<children, procs, subproc, sigs, args>>
  BY DEF ProcWait
<1>2. TablesOK /\ RestOK
  BY TypeSplit DEF IInv
<1>3. /\ w \in [Waiter -> WaitRec] /\ w[t] \in WaitRec
      /\ a \in [pid : Target \cup {None}, nohang : BOOLEAN, untraced : BOOLEAN]
  BY <1>2 DEF TablesOK, RestOK
<1>4. x \in WaitRec /\ x.status = w[t].status /\ (x.ev <=> w[t].ev) /\ x.pid = a.pid
  BY <1>3 DEF WaitRec
<1>5. Tables = [q |-> waitq, w |-> w, zs |-> zombies, stop |-> stopsig, fate |-> fate]
  BY DEF Tables
<1>6. PICK z : z = s
  OBVIOUS
<1>7. /\ z = CASE subproc.at = "done" -> [Tables EXCEPT !.w[t] = x]
               [] subproc.at # "done" /\ ~mychild ->
                    [Tables EXCEPT !.w[t] = [x EXCEPT !.ev = FALSE]]
               [] subproc.at # "done" /\ mychild ->
                    Scan([Tables EXCEPT !.w[t] = y, !.q = <<t>> \o @], FALSE)
      /\ SetTables(z) /\ w' = z.w
      /\ pc[t] = "call" /\ pc' = [pc EXCEPT ![t] = IF z.w[t].ev THEN "wait" ELSE "nochild"]
  BY <1>1, <1>6 DEF SetTables
<1> HIDE DEF s, x
<1>8. CASE subproc.at = "done"
  <2>1. z = [Tables EXCEPT !.w[t] = x]
    BY <1>7, <1>8
  <2>2. z.w = [w EXCEPT ![t] = x] /\ z.q = waitq /\ z.zs = zombies /\ z.stop = stopsig /\ z.fate = fate
    BY <1>5, <2>1
  <2>3. w' = [w EXCEPT ![t] = x] /\ UNCHANGED <<waitq, zombies, stopsig, fate>>
    BY <1>7, <2>2 DEF SetTables
  <2> QED BY <1>1, <1>4, <1>7, <1>8, <2>3
<1>9. CASE subproc.at # "done" /\ ~mychild
  <2> DEFINE v == [x EXCEPT !.ev = FALSE]
  <2>1. z = [Tables EXCEPT !.w[t] = v]
    BY <1>7, <1>9
  <2>2. v \in WaitRec /\ v.status = w[t].status
    BY <1>4 DEF WaitRec
  <2> HIDE DEF v
  <2>3. z.w = [w EXCEPT ![t] = v] /\ z.q = waitq /\ z.zs = zombies /\ z.stop = stopsig /\ z.fate = fate
    BY <1>5, <2>1
  <2>4. w' = [w EXCEPT ![t] = v] /\ UNCHANGED <<waitq, zombies, stopsig, fate>>
    BY <1>7, <2>3 DEF SetTables
  <2>5. args[t].pid \in Child
    BY <1>9
  <2> QED BY <1>1, <1>7, <2>2, <2>4, <2>5
<1>10. CASE subproc.at # "done" /\ mychild
  <2>1. z = Scan([Tables EXCEPT !.w[t] = y, !.q = <<t>> \o @], FALSE)
    BY <1>7, <1>10
  <2>2. y \in WaitRec /\ y.pid = a.pid /\ y.status = "none" /\ y.ev /\ ~y.set
    BY <1>4 DEF WaitRec
  <2> HIDE DEF y
  <2>3. Entered(t, y)
    BY <2>2 DEF Entered
  <2>4. [Tables EXCEPT !.w[t] = y, !.q = <<t>> \o @] = Entry(t, y)
    <3>1. PICK q : q = <<t>> \o waitq
      OBVIOUS
    <3>2. PICK f : f = [Tables EXCEPT !.w[t] = y, !.q = <<t>> \o @]
      OBVIOUS
    <3>3. f.w = [w EXCEPT ![t] = y] /\ f.zs = zombies /\ f.stop = stopsig /\ f.fate = fate
      BY <1>5, <3>2
    <3>4. f.q = <<t>> \o waitq
      BY <1>5, <3>2
    <3>5. f = [q |-> f.q, w |-> f.w, zs |-> f.zs, stop |-> f.stop, fate |-> f.fate]
      BY <1>5, <3>2
    <3>6. f = Entry(t, y)
      BY <3>3, <3>4, <3>5, Zenon DEF Entry
    <3> QED BY <3>2, <3>6
  <2>5. SetTables(Scan(Entry(t, y), FALSE))
    BY <1>7, <2>1, <2>4
  <2>6. \E v : Entered(t, v) /\ SetTables(Scan(Entry(t, v), FALSE))
    BY <2>3, <2>5
  <2> QED BY <1>1, <1>7, <2>6
<1> QED BY <1>8, <1>9, <1>10

\* PROC_WAIT keeps the invariant.
LEMMA ProcWaitKeeps == ASSUME IInv, NEW t \in Waiter, ProcWait(t) PROVE IInv'
<1>1. /\ pc[t] = "call" /\ pc' = [pc EXCEPT ![t] = IF w'[t].ev THEN "wait" ELSE "nochild"]
      /\ UNCHANGED <<children, procs, subproc, sigs, args>>
  BY ProcWaitCases
<1>2. TablesOK /\ RestOK
  BY TypeSplit DEF IInv
<1>3. /\ pc' \in [Waiter -> {"idle", "call", "wait", "nochild", "gone"}]
      /\ (w'[t].ev => pc'[t] = "wait") /\ \A u \in Waiter : u # t => pc'[u] = pc[u]
  <2>1. CASE w'[t].ev
    BY <1>1, <1>2, <2>1 DEF RestOK
  <2>2. CASE ~w'[t].ev
    BY <1>1, <1>2, <2>2 DEF RestOK
  <2> QED BY <2>1, <2>2
<1>4. RestOK'
  BY <1>1, <1>2, <1>3 DEF RestOK, procs, sigs
<1>5. Events'
  BY <1>1, EventsSame DEF IInv, procs
<1>6. ASSUME NEW x \in WaitRec, w' = [w EXCEPT ![t] = x], x.status = w[t].status,
             UNCHANGED <<waitq, zombies, stopsig, fate>>
      PROVE  IInv'
  <2>1. w' \in [Waiter -> WaitRec] /\ w'[t] = x /\ \A u \in Waiter : u # t => w'[u] = w[u]
    BY <1>2, <1>6 DEF TablesOK
  <2>2. TablesOK'
    BY <1>2, <1>6, <2>1 DEF TablesOK
  <2>3. w[t].status # "exited"
    BY <1>1 DEF IInv, Reported
  <2>4. \A i \in 1 .. Len(waitq) : waitq[i] \in Waiter /\ waitq[i] # t
    BY <1>1, <1>2 DEF IInv, Queue, TablesOK
  <2>5. Queue'
    BY <1>1, <1>3, <1>6, <2>1, <2>4 DEF IInv, Queue
  <2>6. Arrays' /\ ZombiesFit' /\ OnlyDeadReaped'
    BY <1>1, <1>6, ArraysSame, DeadSame DEF IInv, procs
  <2>7. Reported' /\ FoundIsKept'
    BY <1>1, <1>3, <1>6, <2>1, <2>3 DEF IInv, Reported, FoundIsKept
  <2> QED BY <1>4, <1>5, <2>2, <2>5, <2>6, <2>7, Recombine DEF Facts
<1>7. ASSUME NEW y, Entered(t, y), SetTables(Scan(Entry(t, y), FALSE))
      PROVE  IInv'
  <2>1. PICK s0 : s0 = Entry(t, y)
    OBVIOUS
  <2>2. /\ Ready(s0) /\ s0.zs = zombies /\ s0.fate = fate /\ s0.w[t] = y
        /\ InQ(s0, t) /\ \A u \in Waiter : u # t => s0.w[u] = w[u]
        /\ \A u \in Waiter : InQ(s0, u) /\ u # t =>
             /\ pc[u] = "wait" /\ w[u].ev /\ ~w[u].set
             /\ w[u].status # "exited" /\ w[u].pid = args[u].pid
    BY <1>1, <1>7, <2>1, EntryReady
  <2>3. PICK s : s = Scan(s0, FALSE)
    OBVIOUS
  <2>4. SetTables(s) /\ w' = s.w /\ waitq' = s.q
    BY <1>7, <2>1, <2>3 DEF SetTables
  <2>5. Keep(s0, s)
    BY <2>2, <2>3, ScanKeeps, TypeParts DEF IInv
  <2>6. Start(s0, s, pc')
    BY <1>1, <1>3, <1>7, <2>2, <2>4 DEF Start, Entered
  <2>7. Sound(s, pc')
    BY <2>5, <2>6, ScanSound
  <2>8. UNCHANGED <<children, hProcess, dead>>
    BY <1>1 DEF procs
  <2>9. TablesOK' /\ Arrays' /\ Reported' /\ FoundIsKept' /\ OnlyDeadReaped' /\ ZombiesFit'
    BY <2>4, <2>7, <2>8, SoundKeeps
  <2>10. Queue'
    <3>1. \A u \in Waiter : InQ(s0, u) =>
            /\ s0.w[u].ev /\ ~s0.w[u].set /\ s0.w[u].status # "exited"
            /\ s0.w[u].pid = args'[u].pid /\ (s.w[u].ev => pc'[u] = "wait")
      BY <1>1, <1>3, <1>7, <2>2, <2>4 DEF Entered
    <3> QED BY <2>4, <2>5, <3>1, QueueAfter
  <2> QED BY <1>4, <1>5, <2>9, <2>10, Recombine DEF Facts
<1> QED BY <1>6, <1>7, ProcWaitCases

\* proc_terminate keeps the invariant: what was taken for a thread stays taken.
LEMMA TerminateKeeps == ASSUME IInv, Terminate PROVE IInv'
<1>1. PICK s : s = Scan(Tables, TRUE)
  OBVIOUS
<1>2. /\ pc[Main] = "idle" /\ waitq' = s.q /\ w' = s.w /\ stopsig' = s.stop
      /\ fate' = [c \in Child |->
            IF c \in Pids \/ c \in Range(s.zs) THEN "disowned" ELSE s.fate[c]]
      /\ zombies' = <<>> /\ children' = <<>>
      /\ subproc' = [at |-> "done", events |-> <<>>, val |-> 0, wake |-> 0]
      /\ pc' = [pc EXCEPT ![Main] = "gone"]
      /\ UNCHANGED <<procs, sigs, args>>
  BY <1>1 DEF Terminate
<1>3. TablesOK /\ RestOK /\ Main \in Waiter
  BY TypeSplit, ThreadAssumption DEF IInv
<1>4. PICK s0 : s0 = Tables
  OBVIOUS
<1>5. /\ Ready(s0) /\ s0.zs = zombies /\ s0.fate = fate /\ s0.w = w
      /\ \A t : InQ(s0, t) => /\ pc[t] = "wait" /\ w[t].ev /\ ~w[t].set
                              /\ w[t].status # "exited" /\ w[t].pid = args[t].pid
  BY <1>4, TablesReady
<1>6. Keep(s0, s) /\ s.q = <<>>
  BY <1>1, <1>4, <1>5, ScanKeeps, TypeParts DEF IInv
<1>7. \A t \in Waiter : t # Main => pc'[t] = pc[t]
  BY <1>2, <1>3 DEF RestOK
<1>8. \A t \in Waiter : pc[t] = "wait" => pc'[t] = "wait"
  BY <1>2, <1>7
<1>9. Sound(s, pc')
  <2>1. Start(s0, s, pc')
    BY <1>5, <1>8 DEF Start
  <2> QED BY <1>6, <2>1, ScanSound
<1>10. s \in TableType /\ \A c : c \in Range(s.zs) <=> InZ(s, c)
  <2>1. s \in TableType /\ s.zs \in Seq(Child)
    BY <1>9 DEF Sound, TableType
  <2> QED BY <2>1 DEF InZ, Range
<1>11. \A c \in Child :
         /\ s.fate[c] = "child" => fate'[c] = "disowned"
         /\ s.fate[c] # "child" => fate'[c] = s.fate[c]
  BY <1>2, <1>9, <1>10 DEF Sound
<1>12. TablesOK'
  <2>1. \A c \in Child : fate'[c] \in Fate
    <3>1. \A c \in Child : s.fate[c] \in Fate
      BY <1>10 DEF TableType
    <3>2. "disowned" \in Fate
      BY DEF Fate
    <3> QED BY <1>11, <3>1, <3>2
  <2>2. fate' \in [Child -> Fate]
    BY <1>2, <2>1
  <2>3. /\ s.q \in Seq(Waiter) /\ s.w \in [Waiter -> WaitRec] /\ s.stop \in [Child -> {0, 1}]
    BY <1>10 DEF TableType
  <2>4. zombies' \in Seq(Child)
    BY <1>2
  <2> QED BY <1>2, <2>2, <2>3, <2>4 DEF TablesOK
<1>13. RestOK'
  <2>1. children' \in Seq(Kid)
    BY <1>2
  <2>2. <<>> \in Seq(Kid)
    OBVIOUS
  <2>3. subproc' \in [at : {"loop", "wait", "term", "send", "done"},
                      events : Seq(Kid), val : Nat, wake : {0, 1}]
    BY <1>2, <2>2
  <2>4. pc' \in [Waiter -> {"idle", "call", "wait", "nochild", "gone"}]
    BY <1>2, <1>3 DEF RestOK
  <2> QED BY <1>2, <1>3, <2>1, <2>3, <2>4 DEF RestOK, procs, sigs
<1>14. Queue'
  BY <1>2, <1>6 DEF Queue
<1>15. Arrays' /\ ZombiesFit'
  <2>1. \A c \in Child : fate'[c] # "child"
    BY <1>11
  <2>2. Len(zombies') = 0 /\ Len(children') = 0
    BY <1>2
  <2> QED BY <2>1, <2>2, SizeAssumption DEF Arrays, ZombiesFit
<1>16. Events'
  BY <1>2 DEF Events
<1>17. Reported'
  <2> SUFFICES ASSUME NEW t \in Waiter, w'[t].status = "exited"
               PROVE  pc'[t] = "wait" /\ w'[t].pid \in Child /\ fate'[w'[t].pid] \in {"reaped", "returned"}
    BY DEF Reported
  <2>1. pc'[t] = "wait" /\ s.w[t].pid \in Child /\ s.fate[s.w[t].pid] \in {"reaped", "returned"}
    BY <1>2, <1>9 DEF Sound
  <2>2. fate'[s.w[t].pid] = s.fate[s.w[t].pid]
    BY <1>11, <2>1
  <2> QED BY <1>2, <2>1, <2>2
<1>18. FoundIsKept'
  <2>1. \A c \in Child : fate'[c] = "reaped" => s.fate[c] = "reaped"
    BY <1>11
  <2> QED BY <1>2, <1>9, <2>1 DEF Sound, FoundIsKept, HasExit
<1>19. OnlyDeadReaped'
  <2>1. \A c \in Child : Running(c)' <=> Running(c)
    BY <1>2 DEF Running, procs
  <2>2. \A c : c \notin Range(zombies')
    BY <1>2 DEF Range
  <2>3. \A c \in Child : fate'[c] \in {"reaped", "returned", "discarded"} => s.fate[c] = fate'[c]
    BY <1>11
  <2> QED BY <1>9, <2>1, <2>2, <2>3 DEF Sound, OnlyDeadReaped
<1> QED BY <1>12, <1>13, <1>14, <1>15, <1>16, <1>17, <1>18, <1>19, Recombine DEF Facts

\* A step that changes only where wait_subproc is
LEMMA SubOnly ==
  ASSUME IInv, UNCHANGED <<tables, hProcess, dead, calls>>
  PROVE  /\ TablesOK' /\ Queue' /\ Arrays' /\ ZombiesFit' /\ Reported' /\ FoundIsKept'
         /\ OnlyDeadReaped'
<1>1. TablesOK'
  BY TypeSplit DEF IInv, TablesOK, tables
<1>2. Queue' /\ Arrays' /\ ZombiesFit' /\ Reported' /\ FoundIsKept' /\ OnlyDeadReaped'
  BY QueueSame, ArraysSame, FoundSame, DeadSame DEF IInv, tables, calls
<1> QED BY <1>1, <1>2

\* wait_subproc starts to wait: the invariant is kept.
LEMMA SubWaitKeeps == ASSUME IInv, SubWait PROVE IInv'
<1>1. /\ TablesOK' /\ Queue' /\ Arrays' /\ ZombiesFit' /\ Reported' /\ FoundIsKept'
      /\ OnlyDeadReaped'
  BY SubOnly DEF SubWait, procs
<1>2. RestOK
  BY TypeSplit DEF IInv
<1>3. RestOK'
  BY <1>2 DEF RestOK, SubWait, tables, procs, sigs, calls
<1>4. Events'
  <2>1. subproc'.at = "wait" /\ subproc'.events = children /\ children' = children
    BY <1>2 DEF RestOK, SubWait, tables
  <2>2. Len(children) \in Nat /\ hProcess' = hProcess
    BY <1>2 DEF RestOK, SubWait, procs
  <2> QED BY <2>1, <2>2 DEF IInv, Events
<1> QED BY <1>1, <1>3, <1>4, Recombine DEF Facts

\* A handle is signalled: wait_subproc has the index of a child that has ended.
LEMMA SubSignalledKeeps == ASSUME IInv, SubSignalled PROVE IInv'
<1> DEFINE e == subproc.events
           over(i) == Dead(e[i])
           v == FirstMatch(e, over)
<1>1. /\ TablesOK' /\ Queue' /\ Arrays' /\ ZombiesFit' /\ Reported' /\ FoundIsKept'
      /\ OnlyDeadReaped'
  BY SubOnly DEF SubSignalled, procs
<1>2. RestOK
  BY TypeSplit DEF IInv
<1>3. e \in Seq(Kid)
  BY <1>2 DEF RestOK
<1>4. \E i \in DOMAIN e : over(i) /\ \A j \in 1 .. i - 1 : ~over(j)
  <2> DEFINE B == {i \in DOMAIN e : over(i)}
  <2>1. B \subseteq Nat /\ B # {}
    BY <1>3 DEF SubSignalled
  <2>2. PICK n \in B : \A m \in B : n <= m
    BY <2>1, LeastExists
  <2>3. n \in DOMAIN e /\ over(n) /\ \A j \in 1 .. n - 1 : ~over(j)
    BY <1>3, <2>2
  <2> QED BY <2>3
<1>5. v \in DOMAIN e /\ over(v)
  BY <1>4 DEF FirstMatch
<1>6. subproc.at = "wait" /\ subproc' = [subproc EXCEPT !.at = "term", !.val = v]
  BY DEF SubSignalled
<1> HIDE DEF v
<1>7. /\ v \in 1 .. Len(e) /\ v \in Nat /\ Dead(e[v])
      /\ subproc'.at = "term" /\ subproc'.val = v /\ subproc'.events = e
  BY <1>2, <1>3, <1>5, <1>6 DEF RestOK
<1>8. UNCHANGED <<tables, procs, sigs, calls>>
  BY DEF SubSignalled
<1>9. RestOK'
  BY <1>2, <1>6, <1>7, <1>8 DEF RestOK, tables, procs, sigs, calls
<1>10. Events'
  <2>1. children' = children /\ dead' = dead /\ hProcess' = hProcess
    BY <1>8 DEF tables, procs
  <2>2. e[v].h \in dead[e[v].pid]
    BY <1>7 DEF Dead
  <2>3. Len(e) <= Len(children) /\ \A i \in 1 .. Len(e) : children[i] = e[i]
    BY <1>6 DEF IInv, Events
  <2> HIDE DEF e
  <2> QED BY <1>7, <2>1, <2>2, <2>3 DEF IInv, Events, Dead
<1> QED BY <1>1, <1>9, <1>10, Recombine DEF Facts

\* wait_subproc looks at the array again: the invariant is kept.
LEMMA SubAgainKeeps == ASSUME IInv, SubAgain PROVE IInv'
<1>1. /\ TablesOK' /\ Queue' /\ Arrays' /\ ZombiesFit' /\ Reported' /\ FoundIsKept'
      /\ OnlyDeadReaped'
  BY SubOnly DEF SubAgain, procs
<1>2. RestOK
  BY TypeSplit DEF IInv
<1>3. RestOK'
  <2>1. <<>> \in Seq(Kid)
    OBVIOUS
  <2> QED BY <1>2, <2>1 DEF RestOK, SubAgain, tables, procs, sigs, calls
<1>4. Events'
  <2>1. subproc'.at = "loop" /\ children' = children /\ hProcess' = hProcess
    BY <1>2 DEF RestOK, SubAgain, tables, procs
  <2> QED BY <2>1 DEF IInv, Events
<1> QED BY <1>1, <1>3, <1>4, Recombine DEF Facts

\* wait_subproc sends SIGCHLD: the invariant is kept.
LEMMA SubSendKeeps == ASSUME IInv, SubSend PROVE IInv'
<1>1. /\ TablesOK' /\ Queue' /\ Arrays' /\ ZombiesFit' /\ Reported' /\ FoundIsKept'
      /\ OnlyDeadReaped'
  BY SubOnly DEF SubSend, procs
<1>2. RestOK
  BY TypeSplit DEF IInv
<1>3. RestOK'
  BY <1>2, SMTT(20) DEF RestOK, SubSend, tables, procs, calls
<1>4. Events'
  <2>1. subproc'.at = "loop" /\ children' = children /\ hProcess' = hProcess
    BY <1>2 DEF RestOK, SubSend, tables, procs
  <2> QED BY <2>1 DEF IInv, Events
<1> QED BY <1>1, <1>3, <1>4, Recombine DEF Facts

\* The child whose end is being reported
LEMMA ReportedChild ==
  ASSUME IInv, subproc.at = "term", NEW val, val = subproc.val
  PROVE  /\ val \in 1 .. Len(children) /\ children[val] \in Kid
         /\ children[val] = subproc.events[val] /\ Dead(children[val])
<1>1. RestOK
  BY TypeSplit DEF IInv
<1>2. /\ Len(subproc.events) <= Len(children) /\ val \in 1 .. Len(subproc.events)
      /\ \A i \in 1 .. Len(subproc.events) : children[i] = subproc.events[i]
      /\ Dead(subproc.events[val])
  BY DEF IInv, Events
<1>3. subproc.events \in Seq(Kid) /\ children \in Seq(Kid)
  BY <1>1 DEF RestOK
<1>4. val \in 1 .. Len(children)
  BY <1>2, <1>3
<1>5. children[val] \in Kid /\ children[val] = subproc.events[val]
  BY <1>2, <1>3, <1>4
<1>6. Dead(children[val])
  BY <1>2, <1>5
<1> QED BY <1>4, <1>5, <1>6

\* A child has handed its pid on: the invariant is kept.
LEMMA SubExecedKeeps == ASSUME IInv, SubExeced PROVE IInv'
<1>1. PICK val : val = subproc.val
  OBVIOUS
<1>2. /\ subproc.at = "term"
      /\ children' = [children EXCEPT ![val].h = hProcess[children[val].pid]]
      /\ subproc' = [subproc EXCEPT !.at = "loop", !.events = <<>>, !.val = 0]
      /\ children[val].h # hProcess[children[val].pid]
      /\ UNCHANGED <<zombies, waitq, w, stopsig, fate, procs, sigs, calls>>
  BY <1>1 DEF SubExeced
<1>3. val \in 1 .. Len(children) /\ children[val] \in Kid /\ Dead(children[val])
  BY <1>1, <1>2, ReportedChild
<1>4. TablesOK /\ RestOK
  BY TypeSplit DEF IInv
<1>5. PICK x : x = [children[val] EXCEPT !.h = hProcess[children[val].pid]]
  OBVIOUS
<1>6. x \in Kid /\ x.pid = children[val].pid
  <2>1. children[val].pid \in Child /\ hProcess[children[val].pid] # 0
    BY <1>3 DEF Kid, IInv, Events
  <2>2. hProcess[children[val].pid] \in {1, 2}
    BY <1>4, <2>1 DEF RestOK
  <2> QED BY <1>3, <1>5, <2>2 DEF Kid
<1>7. /\ children' \in Seq(Kid) /\ Len(children') = Len(children)
      /\ \A i \in 1 .. Len(children) : children'[i].pid = children[i].pid
  <2>1. children' = [children EXCEPT ![val] = x] /\ children \in Seq(Kid)
    BY <1>2, <1>4, <1>5 DEF RestOK
  <2>2. /\ children' \in Seq(Kid) /\ Len(children') = Len(children)
        /\ \A i \in 1 .. Len(children) : children'[i] = IF i = val THEN x ELSE children[i]
    BY <1>3, <1>6, <2>1, ExceptSeq
  <2> QED BY <1>6, <2>2
<1>8. TablesOK'
  BY <1>2, <1>4 DEF TablesOK
<1>9. RestOK'
  <2>1. <<>> \in Seq(Kid)
    OBVIOUS
  <2> QED BY <1>2, <1>4, <1>7, <2>1 DEF RestOK, procs, sigs, calls
<1>10. Arrays' /\ ZombiesFit'
  BY <1>2, <1>7 DEF IInv, Arrays, ZombiesFit
<1>11. Events'
  <2>1. subproc'.at = "loop" /\ hProcess' = hProcess
    BY <1>2, <1>4 DEF RestOK, procs
  <2> QED BY <1>7, <2>1 DEF IInv, Events
<1>12. Queue' /\ Reported' /\ FoundIsKept' /\ OnlyDeadReaped'
  BY <1>2, QueueSame, FoundSame, DeadSame DEF IInv, calls, procs
<1> QED BY <1>8, <1>9, <1>10, <1>11, <1>12, Recombine DEF Facts

\* A child is gone, to the zombies or for good: the invariant is kept.
LEMMA SubTerminatedKeeps == ASSUME IInv, SubTerminated PROVE IInv'
<1>1. PICK val : val = subproc.val
  OBVIOUS
<1>2. PICK c : c = children[val].pid
  OBVIOUS
<1>3. /\ subproc.at = "term" /\ children[val].h = hProcess[c]
      /\ children' = Without(val)
      /\ subproc' = [subproc EXCEPT !.at = "send", !.events = <<>>, !.val = 0]
      /\ UNCHANGED <<waitq, w, stopsig, procs, sigs, calls>>
      /\ \/ fate' = [fate EXCEPT ![c] = "discarded"] /\ zombies' = zombies
         \/ /\ ~(Len(zombies) + 1 >= NZOMBIES)
            /\ zombies' = Append(zombies, c) /\ fate' = fate
  BY <1>1, <1>2 DEF SubTerminated
<1>4. /\ val \in 1 .. Len(children) /\ children[val] \in Kid /\ Dead(children[val])
      /\ TablesOK /\ RestOK /\ c \in Child
  <2>1. val \in 1 .. Len(children) /\ children[val] \in Kid /\ Dead(children[val])
    BY <1>1, <1>3, ReportedChild
  <2> QED BY <1>2, <2>1, TypeSplit DEF IInv, Kid
<1> DEFINE n == Len(children)
<1>5. /\ children' \in Seq(Kid) /\ Len(children') = n - 1 /\ n \in Nat /\ children \in Seq(Kid)
      /\ \A j \in 1 .. n - 1 : children'[j] = IF j = val THEN children[n] ELSE children[j]
  <2>1. children \in Seq(Kid)
    BY <1>4 DEF RestOK
  <2>2. children' = Swapped(children, val)
    BY <1>3, ChildSwapped
  <2>3. PICK q : q = Swapped(children, val)
    OBVIOUS
  <2>4. /\ q \in Seq(Kid) /\ Len(q) = n - 1
        /\ \A j \in 1 .. n - 1 : q[j] = IF j = val THEN children[n] ELSE children[j]
    BY <1>4, <2>1, <2>3, SwappedFacts
  <2>5. children' = q /\ n \in Nat
    BY <2>1, <2>2, <2>3
  <2> QED BY <2>1, <2>4, <2>5
<1>6. /\ \A i, j \in 1 .. n : children[i].pid = children[j].pid => i = j
      /\ \A i, j \in 1 .. Len(zombies) : zombies[i] = zombies[j] => i = j
      /\ \A i \in 1 .. n, j \in 1 .. Len(zombies) : children[i].pid # zombies[j]
  BY DEF IInv, Arrays
<1>7. \A j \in 1 .. n - 1 : children'[j].pid # c /\ \E m \in 1 .. n : children'[j] = children[m]
  BY <1>2, <1>4, <1>5, <1>6
<1>8. \A i, j \in 1 .. n - 1 : children'[i].pid = children'[j].pid => i = j
  BY <1>4, <1>5, <1>6
<1>9. ASSUME NEW d \in Child
      PROVE  (\E i \in 1 .. n - 1 : children'[i].pid = d)
               <=> d # c /\ \E i \in 1 .. n : children[i].pid = d
  <2>1. ASSUME NEW m \in 1 .. n, children[m].pid = d, d # c
        PROVE  \E j \in 1 .. n - 1 : children'[j].pid = d
    <3>1. m # val
      BY <1>2, <2>1
    <3>2. CASE m = n
      <4>1. val \in 1 .. n - 1 /\ children'[val] = children[m]
        BY <1>4, <1>5, <3>1, <3>2
      <4> QED BY <2>1, <4>1
    <3>3. CASE m # n
      <4>1. m \in 1 .. n - 1 /\ children'[m] = children[m]
        BY <1>5, <3>1, <3>3
      <4> QED BY <2>1, <4>1
    <3> QED BY <3>2, <3>3
  <2> QED BY <1>7, <2>1
<1>10. /\ fate[c] = "child" /\ (\E i \in 1 .. n : children[i].pid = c)
       /\ \A j \in 1 .. Len(zombies) : zombies[j] # c
  BY <1>2, <1>4, <1>6 DEF IInv, Arrays
<1>11. ~Running(c) /\ \A d \in Child : Running(d)' <=> Running(d)
  BY <1>2, <1>3, <1>4 DEF Running, Dead, procs
<1>12. RestOK'
  <2>1. <<>> \in Seq(Kid)
    OBVIOUS
  <2> QED BY <1>3, <1>4, <1>5, <2>1 DEF RestOK, procs, sigs, calls
<1>13. Queue'
  BY <1>3, QueueSame DEF IInv, calls
<1>14. Events'
  <2>1. subproc'.at = "send" /\ hProcess' = hProcess
    BY <1>3, <1>4 DEF RestOK, procs
  <2>2. \A i \in 1 .. n - 1 : hProcess[children'[i].pid] # 0
    BY <1>7 DEF IInv, Events
  <2> QED BY <1>5, <2>1, <2>2 DEF Events
<1>15. CASE fate' = [fate EXCEPT ![c] = "discarded"] /\ zombies' = zombies
  <2>1. /\ fate' \in [Child -> Fate] /\ fate'[c] = "discarded"
        /\ \A d \in Child : d # c => fate'[d] = fate[d]
    BY <1>4, <1>15 DEF TablesOK, Fate
  <2>2. TablesOK'
    BY <1>3, <1>4, <1>15, <2>1 DEF TablesOK
  <2>3. Arrays' /\ ZombiesFit'
    <3>1. \A i \in 1 .. n - 1, j \in 1 .. Len(zombies) : children'[i].pid # zombies[j]
      BY <1>6, <1>7
    <3>2. ASSUME NEW d \in Child
          PROVE  fate'[d] = "child" <=> \/ \E i \in 1 .. n - 1 : children'[i].pid = d
                                        \/ \E i \in 1 .. Len(zombies) : zombies[i] = d
      <4>1. CASE d = c
        BY <1>9, <1>10, <2>1, <4>1
      <4>2. CASE d # c
        BY <1>9, <2>1, <4>2 DEF IInv, Arrays
      <4> QED BY <4>1, <4>2
    <3>3. \A i, j \in 1 .. Len(zombies) : zombies[i] = zombies[j] => i = j
      BY <1>6
    <3>4. Arrays'
      BY <1>5, <1>8, <1>15, <3>1, <3>2, <3>3 DEF Arrays
    <3>5. ZombiesFit'
      BY <1>15 DEF IInv, ZombiesFit
    <3> QED BY <3>4, <3>5
  <2>4. Reported' /\ FoundIsKept'
    <3>1. \A d \in Child : fate[d] \in {"reaped", "returned"} => fate'[d] = fate[d]
      BY <1>10, <2>1
    <3>2. \A d \in Child : fate'[d] = "reaped" => fate[d] = "reaped"
      BY <2>1
    <3> QED BY <1>3, <3>1, <3>2 DEF IInv, Reported, FoundIsKept, calls
  <2>5. OnlyDeadReaped'
    BY <1>11, <1>15, <2>1 DEF IInv, OnlyDeadReaped
  <2> QED BY <1>12, <1>13, <1>14, <2>2, <2>3, <2>4, <2>5, Recombine DEF Facts
<1>16. CASE /\ ~(Len(zombies) + 1 >= NZOMBIES)
            /\ zombies' = Append(zombies, c) /\ fate' = fate
  <2> DEFINE m == Len(zombies)
  <2>1. /\ zombies' \in Seq(Child) /\ Len(zombies') = m + 1 /\ m \in Nat /\ zombies'[m + 1] = c
        /\ \A i \in 1 .. m : zombies'[i] = zombies[i]
    <3>1. zombies \in Seq(Child)
      BY <1>4 DEF TablesOK
    <3> QED BY <1>4, <1>16, <3>1, AppendProperties
  <2>2. TablesOK'
    BY <1>3, <1>4, <1>16, <2>1 DEF TablesOK
  <2>3. ZombiesFit'
    BY <1>16, <2>1, SizeAssumption DEF ZombiesFit
  <2>4. \A d \in Child : (\E i \in 1 .. m + 1 : zombies'[i] = d)
                           <=> d = c \/ \E i \in 1 .. m : zombies[i] = d
    <3>1. m + 1 \in 1 .. m + 1 /\ \A i \in 1 .. m + 1 : i = m + 1 \/ i \in 1 .. m
      BY <2>1
    <3>2. \A i \in 1 .. m : i \in 1 .. m + 1
      BY <2>1
    <3> QED BY <2>1, <3>1, <3>2
  <2>5. Arrays'
    <3>1. \A i, j \in 1 .. m + 1 : zombies'[i] = zombies'[j] => i = j
      BY <1>6, <1>10, <2>1
    <3>2. ASSUME NEW i \in 1 .. n - 1, NEW j \in 1 .. m + 1
          PROVE  children'[i].pid # zombies'[j]
      <4>1. CASE j = m + 1
        BY <1>7, <2>1, <4>1
      <4>2. CASE j # m + 1
        <5>1. j \in 1 .. m
          BY <2>1, <4>2
        <5>2. zombies'[j] = zombies[j]
          BY <2>1, <5>1
        <5> QED BY <1>6, <1>7, <5>1, <5>2
      <4> QED BY <4>1, <4>2
    <3>3. ASSUME NEW d \in Child
          PROVE  fate'[d] = "child" <=> \/ \E i \in 1 .. n - 1 : children'[i].pid = d
                                        \/ \E i \in 1 .. m + 1 : zombies'[i] = d
      <4>1. fate'[d] = fate[d]
        BY <1>16
      <4>2. CASE d = c
        BY <1>10, <2>4, <4>1, <4>2
      <4>3. CASE d # c
        BY <1>9, <2>4, <4>1, <4>3 DEF IInv, Arrays
      <4> QED BY <4>2, <4>3
    <3> QED BY <1>5, <1>8, <2>1, <3>1, <3>2, <3>3 DEF Arrays
  <2>6. Reported' /\ FoundIsKept'
    BY <1>3, <1>16, FoundSame DEF IInv, calls
  <2>7. OnlyDeadReaped'
    <3>1. \A d \in Child : d \in Range(zombies') => d = c \/ d \in Range(zombies)
      <4>1. \A d : d \in Range(zombies') <=> \E i \in 1 .. m + 1 : zombies'[i] = d
        BY <2>1 DEF Range
      <4> QED BY <2>4, <4>1, ZombieRange DEF IInv
    <3> QED BY <1>11, <1>16, <3>1 DEF IInv, OnlyDeadReaped
  <2> QED BY <1>12, <1>13, <1>14, <2>2, <2>3, <2>5, <2>6, <2>7, Recombine DEF Facts
<1> QED BY <1>3, <1>15, <1>16

\* stopsig alone matters to no part of the invariant.
LEMMA StopsigKeeps ==
  ASSUME IInv, stopsig' \in [Child -> {0, 1}], telling' \subseteq Child,
         UNCHANGED <<children, zombies, waitq, w, fate, hProcess, dead, subproc, sigs, calls>>
  PROVE  IInv'
<1>1. TablesOK' /\ RestOK'
  BY TypeSplit DEF IInv, TablesOK, RestOK, sigs, calls
<1>2. Facts'
  BY QueueSame, ArraysSame, EventsSame, FoundSame, DeadSame DEF IInv, calls, Facts
<1> QED BY <1>1, <1>2, Recombine

\* A child stops: the invariant is kept.
LEMMA StopKeeps == ASSUME IInv, NEW c \in Child, Stop(c) PROVE IInv'
<1>1. TypeOK
  BY DEF IInv
<1>2. stopsig' \in [Child -> {0, 1}] /\ telling' \subseteq Child
  BY <1>1 DEF TypeOK, Stop
<1> QED BY <1>2, StopsigKeeps DEF Stop

\* A child goes on: the invariant is kept.
LEMMA ContinueKeeps == ASSUME IInv, NEW c \in Child, Continue(c) PROVE IInv'
<1>1. TypeOK
  BY DEF IInv
<1>2. stopsig' \in [Child -> {0, 1}] /\ telling' \subseteq Child
  BY <1>1 DEF TypeOK, Continue, procs
<1> QED BY <1>2, StopsigKeeps DEF Continue, procs

\* A child execs: no child that may be reaped runs again.
LEMMA ExecKeeps == ASSUME IInv, NEW c \in Child, Exec(c) PROVE IInv'
<1>1. /\ Running(c) /\ hProcess' = [hProcess EXCEPT ![c] = 2]
      /\ UNCHANGED <<tables, dead, telling, subproc, sigs, calls>>
  BY DEF Exec
<1>2. TablesOK /\ RestOK
  BY TypeSplit DEF IInv
<1>3. /\ hProcess' \in [Child -> {0, 1, 2}] /\ hProcess'[c] = 2
      /\ \A d \in Child : d # c => hProcess'[d] = hProcess[d]
  BY <1>1, <1>2 DEF RestOK
<1>4. TablesOK' /\ RestOK'
  BY <1>1, <1>2, <1>3 DEF TablesOK, RestOK, tables, sigs, calls
<1>5. Queue' /\ Arrays' /\ ZombiesFit' /\ Reported' /\ FoundIsKept'
  BY <1>1, QueueSame, ArraysSame, FoundSame DEF IInv, tables, calls
<1>6. Events'
  <2>1. \A i \in 1 .. Len(children) : hProcess'[children[i].pid] # 0
    <3> SUFFICES ASSUME NEW i \in 1 .. Len(children) PROVE hProcess'[children[i].pid] # 0
      OBVIOUS
    <3>1. children[i] \in Kid
      BY <1>2 DEF RestOK
    <3>2. children[i].pid \in Child /\ hProcess[children[i].pid] # 0
      BY <3>1 DEF Kid, IInv, Events
    <3> QED BY <1>3, <3>2
  <2> QED BY <1>1, <2>1 DEF IInv, Events, Dead, tables
<1>7. OnlyDeadReaped'
  <2>1. \A d \in Child : ~Running(d) => ~Running(d)'
    BY <1>1, <1>3 DEF Running
  <2> QED BY <1>1, <2>1 DEF IInv, OnlyDeadReaped, tables
<1> QED BY <1>4, <1>5, <1>6, <1>7, Recombine DEF Facts

\* A process of a child ends: what has ended stays ended.
LEMMA ExitKeeps == ASSUME IInv, NEW c \in Child, NEW h \in {1, 2}, Exit(c, h) PROVE IInv'
<1>1. /\ dead' = [dead EXCEPT ![c] = @ \cup {h}]
      /\ telling' = telling \/ telling' = telling \ {c}
      /\ UNCHANGED <<tables, hProcess, subproc, sigs, calls>>
  BY DEF Exit
<1>2. TablesOK /\ RestOK
  BY TypeSplit DEF IInv
<1>3. /\ dead' \in [Child -> SUBSET {1, 2}] /\ telling' \subseteq Child
      /\ \A d \in Child : dead[d] \subseteq dead'[d]
  BY <1>1, <1>2 DEF RestOK
<1>4. TablesOK' /\ RestOK'
  BY <1>1, <1>2, <1>3 DEF TablesOK, RestOK, tables, sigs, calls
<1>5. Queue' /\ Arrays' /\ ZombiesFit' /\ Reported' /\ FoundIsKept'
  BY <1>1, QueueSame, ArraysSame, FoundSame DEF IInv, tables, calls
<1>6. Events'
  <2>1. ASSUME subproc.at = "term"
        PROVE  Dead(subproc.events[subproc.val])'
    <3>1. PICK x : x = subproc.events[subproc.val]
      OBVIOUS
    <3>2. x \in Kid /\ Dead(x)
      <4>1. subproc.val \in 1 .. Len(subproc.events) /\ subproc.events \in Seq(Kid)
        BY <1>2, <2>1 DEF IInv, Events, RestOK
      <4> QED BY <2>1, <3>1, <4>1 DEF IInv, Events
    <3>3. x.h \in dead'[x.pid]
      BY <1>3, <3>2 DEF Dead, Kid
    <3> QED BY <1>1, <3>1, <3>3 DEF Dead
  <2> QED BY <1>1, <2>1 DEF IInv, Events, Dead, tables
<1>7. OnlyDeadReaped'
  <2>1. \A d \in Child : ~Running(d) => ~Running(d)'
    BY <1>1, <1>3 DEF Running
  <2> QED BY <1>1, <2>1 DEF IInv, OnlyDeadReaped, tables
<1> QED BY <1>4, <1>5, <1>6, <1>7, Recombine DEF Facts

\* The invariant holds at the start.
LEMMA InitHolds == Init => IInv
<1> SUFFICES ASSUME Init PROVE IInv
  OBVIOUS
<1>1. children = <<>> /\ zombies = <<>> /\ waitq = <<>>
  BY DEF Init
<1>2. PICK x : x = [pid |-> None, nohang |-> FALSE, untraced |-> FALSE,
                    status |-> "none", ev |-> FALSE, set |-> FALSE]
  OBVIOUS
<1>3. x \in WaitRec /\ x.status = "none" /\ w = [t \in Waiter |-> x]
  BY <1>2 DEF WaitRec, Init
<1>4. TablesOK
  <2>1. fate = [c \in Child |-> "unborn"] /\ "unborn" \in Fate
    BY DEF Init, Fate
  <2>2. stopsig = [c \in Child |-> 0]
    BY DEF Init
  <2> QED BY <1>1, <1>3, <2>1, <2>2 DEF TablesOK
<1>5. RestOK
  <2>1. <<>> \in Seq(Kid)
    OBVIOUS
  <2>2. subproc \in [at : {"loop", "wait", "term", "send", "done"},
                     events : Seq(Kid), val : Nat, wake : {0, 1}]
    BY <2>1 DEF Init
  <2>3. NoRequest \in [pid : Target \cup {None}, nohang : BOOLEAN, untraced : BOOLEAN]
    BY DEF NoRequest
  <2>4. action \in {"default", "ignore", "handler"}
    BY SignalAssumption DEF Init
  <2> QED BY <1>1, <2>2, <2>3, <2>4 DEF Init, RestOK
<1>6. Queue /\ Events
  BY <1>1 DEF Init, Queue, Events
<1>7. fate = [c \in Child |-> "unborn"]
  BY DEF Init
<1>8. Arrays /\ FoundIsKept
  BY <1>1, <1>7 DEF Arrays, FoundIsKept
<1>9. Reported
  BY <1>3 DEF Reported
<1>10. OnlyDeadReaped
  BY <1>1, <1>7 DEF OnlyDeadReaped, Range
<1>11. ZombiesFit
  <2>1. Len(zombies) = 0
    BY <1>1
  <2> QED BY <2>1, SizeAssumption DEF ZombiesFit
<1> QED BY <1>4, <1>5, <1>6, <1>8, <1>9, <1>10, <1>11, TypeSplit DEF IInv

\* Every step keeps the invariant.
LEMMA NextKeeps == IInv /\ [Next]_vars => IInv'
<1> SUFFICES ASSUME IInv, [Next]_vars PROVE IInv'
  OBVIOUS
<1>1. CASE UNCHANGED vars
  <2>1. UNCHANGED <<tables, hProcess, dead, subproc, calls>>
    BY <1>1 DEF vars, tables, calls
  <2>2. RestOK'
    BY <1>1, TypeSplit DEF IInv, RestOK, vars
  <2> QED BY <2>1, <2>2, Elsewhere, Recombine
<1>2. CASE MainStep
  BY <1>2, ForkKeeps, SigactionKeeps, SigprocmaskKeeps, TerminateKeeps DEF MainStep
<1>3. ASSUME NEW t \in Waiter, NEW request \in Requests, Wait4(t, request) PROVE IInv'
  BY <1>3, Wait4Keeps
<1>4. ASSUME NEW t \in Waiter, WaitStep(t) PROVE IInv'
  BY <1>4, ProcWaitKeeps, ReturnKeeps, InterruptedKeeps DEF WaitStep
<1>5. CASE SubStep
  BY <1>5, SubWaitKeeps, SubSignalledKeeps, SubAgainKeeps, SubExecedKeeps,
     SubTerminatedKeeps, SubSendKeeps DEF SubStep
<1>6. CASE SigStep
  BY <1>6, SigWakeKeeps, SigTakeKeeps, SigClearKeeps, SigDoneKeeps DEF SigStep
<1>7. CASE SigOther
  BY <1>7, SigOtherKeeps
<1>8. ASSUME NEW c \in Child, ChildStep(c) PROVE IInv'
  BY <1>8, StopKeeps, TellKeeps, ContinueKeeps, ExecKeeps, ExitKeeps DEF ChildStep
<1> QED BY <1>1, <1>2, <1>3, <1>4, <1>5, <1>6, <1>7, <1>8 DEF Next

\* The cardinality of a set of at most one element
LEMMA AtMostOne ==
  ASSUME NEW S, \A i, j \in S : i = j
  PROVE  IsFiniteSet(S) /\ Cardinality(S) = IF S = {} THEN 0 ELSE 1
<1>1. CASE S = {}
  BY <1>1, FS_EmptySet
<1>2. CASE S # {}
  <2>1. PICK i : S = {i}
    BY <1>2
  <2> QED BY <1>2, <2>1, FS_Singleton
<1> QED BY <1>1, <1>2

\* The arrays hold each child once: EachChildOnce follows from the invariant.
LEMMA OncePerChild == IInv => EachChildOnce
<1> SUFFICES ASSUME IInv, NEW c \in Child
             PROVE  Cardinality({i \in DOMAIN children : children[i].pid = c})
                      + Cardinality({i \in DOMAIN zombies : zombies[i] = c})
                        = IF fate[c] = "child" THEN 1 ELSE 0
  BY DEF EachChildOnce
<1> DEFINE P == {i \in DOMAIN children : children[i].pid = c}
           G == {i \in DOMAIN zombies : zombies[i] = c}
<1>1. DOMAIN children = 1 .. Len(children) /\ DOMAIN zombies = 1 .. Len(zombies)
  BY TypeSplit DEF IInv, TablesOK, RestOK
<1>2. (\A i, j \in P : i = j) /\ (\A i, j \in G : i = j) /\ (P = {} \/ G = {})
  BY <1>1 DEF IInv, Arrays
<1>3. fate[c] = "child" <=> P # {} \/ G # {}
  BY <1>1 DEF IInv, Arrays
<1> HIDE DEF P, G
<1>4. Cardinality(P) = IF P = {} THEN 0 ELSE 1
  BY <1>2, AtMostOne
<1>5. Cardinality(G) = IF G = {} THEN 0 ELSE 1
  BY <1>2, AtMostOne
<1>6. Cardinality(P) + Cardinality(G) = IF fate[c] = "child" THEN 1 ELSE 0
  BY <1>2, <1>3, <1>4, <1>5
<1> QED BY <1>6 DEF P, G

\* The index of wait_subproc is good: IndexStable follows from the invariant.
LEMMA StableIndex == IInv => IndexStable
<1> SUFFICES ASSUME IInv, subproc.at = "term"
             PROVE  /\ subproc.val \in DOMAIN children
                    /\ children[subproc.val] = subproc.events[subproc.val]
  BY DEF IndexStable
<1>1. DOMAIN children = 1 .. Len(children)
  BY TypeSplit DEF IInv, RestOK
<1> QED BY <1>1, ReportedChild

\* A scan tells a thread that waits for any child of ECHILD only if there is none.
LEMMA ScanEchild ==
  ASSUME NEW s0, Ready(s0), children \in Seq(Kid), NEW clearing \in BOOLEAN,
         SetTables(Scan(s0, clearing)), UNCHANGED children,
         NEW t \in Waiter, s0.w[t].ev, ~w'[t].ev, InQ(s0, t) => s0.w[t].pid = "any"
  PROVE  children' = <<>> /\ zombies' = <<>>
<1>1. PICK s : s = Scan(s0, clearing)
  OBVIOUS
<1>2. Keep(s0, s) /\ w' = s.w /\ zombies' = s.zs
  BY <1>1, ScanKeeps DEF SetTables
<1>3. InQ(s0, t)
  BY <1>2 DEF Keep, KeepQ
<1> QED BY <1>2, <1>3 DEF Keep, KeepE

\* No other step of the specification tells it so.
LEMMA QueueEchild ==
  ASSUME IInv, Next, NEW t \in Waiter, w[t].ev, ~w'[t].ev, args[t].pid = "any"
  PROVE  children' = <<>> /\ zombies' = <<>>
<1>1. children \in Seq(Kid)
  BY TypeParts DEF IInv
<1>2. ASSUME NEW clearing \in BOOLEAN, ClearWait(clearing)
      PROVE  children' = <<>> /\ zombies' = <<>>
  <2>1. PICK s0 : s0 = Tables
    OBVIOUS
  <2>2. Ready(s0) /\ s0.w = w /\ (InQ(s0, t) => w[t].pid = args[t].pid)
    BY <2>1, TablesReady
  <2>3. SetTables(Scan(s0, clearing)) /\ UNCHANGED children
    BY <1>2, <2>1 DEF ClearWait
  <2> QED BY <1>1, <2>2, <2>3, ScanEchild
<1>3. ASSUME NEW u \in Waiter, Leave(u) PROVE FALSE
  BY <1>3, LeaveFacts
<1>4. ASSUME NEW u \in Waiter, ProcWait(u) PROVE children' = <<>> /\ zombies' = <<>>
  <2>1. pc[u] = "call" /\ UNCHANGED children
    BY <1>4, ProcWaitCases
  <2>2. ASSUME NEW x \in WaitRec, w' = [w EXCEPT ![u] = x], (x.ev <=> w[u].ev) \/ args[u].pid \in Child
        PROVE  FALSE
    <3>1. w \in [Waiter -> WaitRec]
      BY TypeSplit DEF IInv, TablesOK
    <3>2. w'[u] = x /\ \A v \in Waiter : v # u => w'[v] = w[v]
      BY <2>2, <3>1
    <3>3. u = t
      BY <3>2
    <3>4. "any" \notin Child
      BY ChildAssumption
    <3> QED BY <2>2, <3>2, <3>3, <3>4
  <2>3. ASSUME NEW y, Entered(u, y), SetTables(Scan(Entry(u, y), FALSE))
        PROVE  children' = <<>> /\ zombies' = <<>>
    <3>1. PICK s0 : s0 = Entry(u, y)
      OBVIOUS
    <3>2. /\ Ready(s0) /\ s0.w[u] = y /\ \A v \in Waiter : v # u => s0.w[v] = w[v]
          /\ \A v \in Waiter : InQ(s0, v) /\ v # u => w[v].pid = args[v].pid
      BY <2>1, <2>3, <3>1, EntryReady
    <3>3. s0.w[t].ev /\ (InQ(s0, t) => s0.w[t].pid = "any")
      BY <2>3, <3>2 DEF Entered
    <3>4. SetTables(Scan(s0, FALSE))
      BY <2>3, <3>1
    <3> QED BY <1>1, <2>1, <3>2, <3>3, <3>4, ScanEchild
  <2> QED BY <1>4, <2>2, <2>3, ProcWaitCases
<1>5. w' # w
  OBVIOUS
<1>6. ASSUME MainStep PROVE children' = <<>> /\ zombies' = <<>>
  <2>1. ASSUME NEW c \in Child, Fork(c) PROVE FALSE
    BY <1>5, <2>1 DEF Fork
  <2>2. ASSUME NEW a \in Dispositions, Sigaction(a) PROVE FALSE
    BY <1>5, <2>2 DEF Sigaction, tables
  <2>3. ASSUME Sigprocmask PROVE FALSE
    BY <1>5, <2>3 DEF Sigprocmask, tables
  <2>4. ASSUME Terminate PROVE children' = <<>> /\ zombies' = <<>>
    BY <2>4 DEF Terminate
  <2> QED BY <1>6, <2>1, <2>2, <2>3, <2>4 DEF MainStep
<1>7. ASSUME NEW u \in Waiter, NEW request \in Requests, Wait4(u, request) PROVE FALSE
  BY <1>5, <1>7 DEF Wait4, tables
<1>8. ASSUME NEW u \in Waiter, WaitStep(u) PROVE children' = <<>> /\ zombies' = <<>>
  <2>1. ASSUME Return(u) PROVE FALSE
    BY <1>3, <2>1 DEF Return
  <2>2. ASSUME Interrupted(u) PROVE FALSE
    BY <1>3, <1>5, <2>2 DEF Interrupted
  <2> QED BY <1>4, <1>8, <2>1, <2>2 DEF WaitStep
<1>9. ASSUME SubStep PROVE FALSE
  BY <1>5, <1>9 DEF SubStep, SubWait, SubSignalled, SubAgain, SubExeced, SubTerminated, SubSend, tables
<1>10. ASSUME SigStep \/ SigOther PROVE children' = <<>> /\ zombies' = <<>>
  <2>1. ClearWait(TRUE) \/ ClearWait(FALSE)
    BY <1>5, <1>10 DEF SigStep, SigOther, SigWake, SigTake, SigClear, SigDone, Interrupt, tables
  <2> QED BY <1>2, <2>1
<1>11. ASSUME NEW c \in Child, ChildStep(c) PROVE FALSE
  BY <1>5, <1>11 DEF ChildStep, Stop, Tell, Continue, Exec, Exit, tables
<1> QED BY <1>6, <1>7, <1>8, <1>9, <1>10, <1>11 DEF Next

\* A call of proc_subproc that answers ECHILD at once found none either.
LEMMA CallEchild ==
  ASSUME IInv, NEW t \in Waiter, ProcWait(t), ~w'[t].ev, args[t].pid = "any",
         subproc.at # "done"
  PROVE  children' = <<>> /\ zombies' = <<>>
<1>1. children \in Seq(Kid)
  BY TypeParts DEF IInv
<1>2. pc[t] = "call" /\ UNCHANGED children
  BY ProcWaitCases
<1>3. args[t].pid \notin Child
  BY ChildAssumption
<1>4. PICK y : Entered(t, y) /\ SetTables(Scan(Entry(t, y), FALSE))
  BY <1>3, ProcWaitCases
<1>5. PICK s0 : s0 = Entry(t, y)
  OBVIOUS
<1>6. Ready(s0) /\ s0.w[t] = y
  BY <1>2, <1>4, <1>5, EntryReady
<1>7. s0.w[t].ev /\ (InQ(s0, t) => s0.w[t].pid = "any")
  BY <1>4, <1>6 DEF Entered
<1>8. SetTables(Scan(s0, FALSE))
  BY <1>4, <1>5
<1> QED BY <1>1, <1>2, <1>6, <1>7, <1>8, ScanEchild

\* A thread goes from its call to an answer only in its call of proc_subproc.
LEMMA OnlyItsCall ==
  ASSUME IInv, Next, NEW t \in Waiter, pc[t] = "call", pc'[t] = "nochild"
  PROVE  ProcWait(t)
<1>1. pc \in [Waiter -> {"idle", "call", "wait", "nochild", "gone"}]
  BY TypeSplit DEF IInv, RestOK
<1>2. ASSUME NEW u \in Waiter, ProcWait(u) PROVE ProcWait(t)
  <2>1. pc' = [pc EXCEPT ![u] = IF w'[u].ev THEN "wait" ELSE "nochild"]
    BY <1>2, ProcWaitCases
  <2>2. u = t
    BY <1>1, <2>1
  <2> QED BY <1>2, <2>2
<1>3. ASSUME MainStep PROVE FALSE
  BY <1>1, <1>3 DEF MainStep, Fork, Sigaction, Sigprocmask, Terminate, calls
<1>4. ASSUME NEW u \in Waiter, NEW request \in Requests, Wait4(u, request) PROVE FALSE
  BY <1>1, <1>4 DEF Wait4
<1>5. ASSUME NEW u \in Waiter, Return(u) \/ Interrupted(u) PROVE FALSE
  <2>1. pc' = [pc EXCEPT ![u] = "idle"] \/ pc' = [pc EXCEPT ![u] = "call"]
    BY <1>5 DEF Return, Interrupted, Leave
  <2> QED BY <1>1, <2>1
<1>6. ASSUME SubStep \/ SigStep \/ SigOther PROVE FALSE
  <2>1. UNCHANGED pc
    BY <1>6 DEF SubStep, SubWait, SubSignalled, SubAgain, SubExeced, SubTerminated, SubSend,
                SigStep, SigOther, SigWake, SigTake, SigClear, SigDone, calls
  <2> QED BY <2>1
<1>7. ASSUME NEW c \in Child, ChildStep(c) PROVE FALSE
  <2>1. UNCHANGED pc
    BY <1>7 DEF ChildStep, Stop, Tell, Continue, Exec, Exit, calls
  <2> QED BY <2>1
<1> QED BY <1>2, <1>3, <1>4, <1>5, <1>6, <1>7 DEF Next, WaitStep

\* However a wait for any child is answered with ECHILD, there was none.
LEMMA EchildStep ==
  ASSUME IInv, Next, NEW t \in Waiter, Echild(t), args[t].pid = "any"
  PROVE  children' = <<>> /\ zombies' = <<>>
<1>1. CASE w[t].ev /\ ~w'[t].ev
  BY <1>1, QueueEchild
<1>2. CASE pc[t] = "call" /\ pc'[t] = "nochild" /\ subproc.at # "done"
  <2>1. ProcWait(t)
    BY <1>2, OnlyItsCall
  <2>2. pc' = [pc EXCEPT ![t] = IF w'[t].ev THEN "wait" ELSE "nochild"]
    BY <2>1, ProcWaitCases
  <2>3. pc \in [Waiter -> {"idle", "call", "wait", "nochild", "gone"}]
    BY TypeSplit DEF IInv, RestOK
  <2>4. ~w'[t].ev
    BY <1>2, <2>2, <2>3
  <2> QED BY <1>2, <2>1, <2>4, CallEchild
<1> QED BY <1>1, <1>2 DEF Echild

\* The invariant holds in every state that the threads, wait_subproc, wait_sig and
\* the children can reach.
THEOREM Inductive == Spec => []IInv
BY InitHolds, NextKeeps, PTL DEF Spec

\* Every variable keeps its type.
THEOREM TypeCorrect == Spec => []TypeOK
<1>1. IInv => TypeOK
  BY DEF IInv
<1> QED BY <1>1, Inductive, PTL

\* Every child of this process is in exactly one place of one of the arrays of
\* proc_subproc until a wait takes it.
THEOREM ChildrenOnce == Spec => []EachChildOnce
BY OncePerChild, Inductive, PTL

\* The index that wait_subproc passes to PROC_CHILDTERMINATED, read without the
\* lock, still names the child whose handle was signalled.
THEOREM IndexKept == Spec => []IndexStable
BY StableIndex, Inductive, PTL

\* A zombie that the scan took for a thread is on its way to that thread: no signal
\* that clears the waits turns it into EINTR.
THEOREM FoundDelivered == Spec => []FoundIsKept
<1>1. IInv => FoundIsKept
  BY DEF IInv
<1> QED BY <1>1, Inductive, PTL

\* A child is a zombie, or reported, only when its last process has ended, and the
\* zombies fit into their table.
THEOREM ZombiesSafe == Spec => [](OnlyDeadReaped /\ ZombiesFit)
<1>1. IInv => OnlyDeadReaped /\ ZombiesFit
  BY DEF IInv
<1> QED BY <1>1, Inductive, PTL

\* wait4 for any child fails with ECHILD only when there is no child, alive or dead.
THEOREM EchildTrue == Spec => EchildHonest
<1>1. IInv /\ [Next]_vars =>
        [\A t \in Waiter :
           Echild(t) /\ args[t].pid = "any" => children' = <<>> /\ zombies' = <<>>]_vars
  BY EchildStep
<1> QED BY <1>1, Inductive, PTL DEF Spec, EchildHonest

-----------------------------------------------------------------------------
(* No lost SIGCHLD, in a program whose main thread alone waits *)

\* A scan of the queue is still to come.
Coming ==
  \/ subproc.at = "send"
  \/ sigpc \in {"clear", "clearmore"}
  \/ sigtodo > 0 /\ (nosync = 1 \/ sigpc = "scan")

\* Some thread is blocked though a zombie is what it waits for.
Missed ==
  \E t \in Waiter, c \in Child :
    /\ \E i \in 1 .. Len(waitq) : waitq[i] = t
    /\ \E i \in 1 .. Len(zombies) : zombies[i] = c
    /\ Match(w[t].pid, c)

\* ScanToCome is that: where a child is missed, a scan is still to come.
LEMMA Restated == TypeOK => (ScanToCome <=> (Missed => Coming))
<1> SUFFICES ASSUME TypeOK PROVE ScanToCome <=> (Missed => Coming)
  OBVIOUS
<1>1. waitq \in Seq(Waiter) /\ zombies \in Seq(Child)
  BY DEF TypeOK
<1>2. \A t : t \in Range(waitq) <=> t \in Waiter /\ \E i \in 1 .. Len(waitq) : waitq[i] = t
  BY <1>1 DEF Range
<1>3. \A c : c \in Range(zombies) <=> c \in Child /\ \E i \in 1 .. Len(zombies) : zombies[i] = c
  BY <1>1 DEF Range
<1> QED BY <1>2, <1>3 DEF ScanToCome, Missed, Coming

\* The queue is empty while the only thread is not blocked.
LEMMA AloneEmpty ==
  ASSUME IInv, Waiter = {Main}, pc[Main] # "wait" \/ w[Main].set
  PROVE  Len(waitq) = 0
<1>1. waitq \in Seq(Waiter)
  BY TypeParts DEF IInv, TablesOK
<1>2. \A i \in 1 .. Len(waitq) : waitq[i] = Main /\ pc[waitq[i]] = "wait" /\ ~w[waitq[i]].set
  BY <1>1 DEF IInv, Queue
<1>3. \A i \in 1 .. Len(waitq) : FALSE
  BY <1>2
<1> QED BY <1>1, <1>3

\* After a scan nobody is missed.
LEMMA AloneScan ==
  ASSUME Waiter = {Main}, NEW s0, Ready(s0), children \in Seq(Kid), NEW clearing \in BOOLEAN,
         SetTables(Scan(s0, clearing))
  PROVE  ~Missed'
<1>1. PICK s : s = Scan(s0, clearing)
  OBVIOUS
<1>2. waitq' = s.q /\ zombies' = s.zs /\ w' = s.w
  BY <1>1 DEF SetTables
<1>3. \A u \in Waiter, c \in Child : InQ(s, u) /\ InZ(s, c) => ~Match(s.w[u].pid, c)
  BY <1>1, ScanAlone
<1> QED BY <1>2, <1>3 DEF Missed, InQ, InZ

\* No step leaves a child missed without a scan to come.
LEMMA AloneStep ==
  ASSUME Waiter = {Main}, IInv, Missed => Coming, [Next]_vars
  PROVE  Missed' => Coming'
<1>1. ASSUME UNCHANGED <<waitq, zombies, w>>, Coming => Coming' PROVE Missed' => Coming'
  BY <1>1 DEF Missed
<1>2. ASSUME UNCHANGED waitq, pc[Main] # "wait" \/ w[Main].set PROVE ~Missed'
  <2>1. Len(waitq) = 0
    BY <1>2, AloneEmpty
  <2> QED BY <1>2, <2>1 DEF Missed
<1>3. ASSUME NEW clearing \in BOOLEAN, ClearWait(clearing) PROVE ~Missed'
  <2>1. PICK s0 : s0 = Tables
    OBVIOUS
  <2>2. Ready(s0)
    BY <2>1, TablesReady
  <2>3. SetTables(Scan(s0, clearing))
    BY <1>3, <2>1 DEF ClearWait
  <2> QED BY <2>2, <2>3, AloneScan, TypeParts DEF IInv
<1>4. RestOK
  BY TypeSplit DEF IInv
<1>5. CASE UNCHANGED vars
  BY <1>1, <1>5 DEF vars, Coming
<1>6. CASE MainStep
  <2>1. ASSUME NEW c \in Child, Fork(c) PROVE Missed' => Coming'
    BY <1>2, <2>1 DEF Fork
  <2>2. ASSUME NEW a \in Dispositions, Sigaction(a) PROVE Missed' => Coming'
    BY <1>2, <2>2 DEF Sigaction, tables
  <2>3. ASSUME Sigprocmask PROVE Missed' => Coming'
    BY <1>2, <2>3 DEF Sigprocmask, tables
  <2>4. ASSUME Terminate PROVE Missed' => Coming'
    <3>1. zombies' = <<>>
      BY <2>4 DEF Terminate
    <3> QED BY <3>1 DEF Missed
  <2> QED BY <1>6, <2>1, <2>2, <2>3, <2>4 DEF MainStep
<1>7. ASSUME NEW t \in Waiter, NEW request \in Requests, Wait4(t, request) PROVE Missed' => Coming'
  BY <1>1, <1>7 DEF Wait4, tables, sigs, Coming
<1>8. ASSUME NEW t \in Waiter, WaitStep(t) PROVE Missed' => Coming'
  <2>1. t = Main
    OBVIOUS
  <2>2. ASSUME Return(t) PROVE ~Missed'
    <3>1. pc[t] = "nochild" \/ (pc[t] = "wait" /\ w[t].set)
      BY <2>2 DEF Return
    <3>2. UNCHANGED waitq
      BY <2>2 DEF Return
    <3> QED BY <1>2, <2>1, <3>1, <3>2
  <2>3. ASSUME Interrupted(t) PROVE ~Missed'
    BY <1>2, <2>1, <2>3 DEF Interrupted
  <2>4. ASSUME ProcWait(t) PROVE ~Missed'
    <3>1. pc[t] = "call"
      BY <2>4, ProcWaitCases
    <3>2. ASSUME UNCHANGED waitq PROVE ~Missed'
      BY <1>2, <2>1, <3>1, <3>2
    <3>3. ASSUME NEW y, Entered(t, y), SetTables(Scan(Entry(t, y), FALSE)) PROVE ~Missed'
      <4>1. PICK s0 : s0 = Entry(t, y)
        OBVIOUS
      <4>2. Ready(s0)
        BY <3>1, <3>3, <4>1, EntryReady
      <4>3. SetTables(Scan(s0, FALSE))
        BY <3>3, <4>1
      <4> QED BY <4>2, <4>3, AloneScan, TypeParts DEF IInv
    <3> QED BY <2>4, <3>2, <3>3, ProcWaitCases
  <2> QED BY <1>8, <2>2, <2>3, <2>4 DEF WaitStep
<1>9. CASE SubStep
  <2>1. ASSUME SubWait \/ SubSignalled \/ SubAgain PROVE Missed' => Coming'
    <3>1. UNCHANGED <<waitq, zombies, w, sigpc, sigtodo, nosync>> /\ subproc.at # "send"
      BY <2>1 DEF SubWait, SubSignalled, SubAgain, tables, sigs
    <3> QED BY <1>1, <3>1 DEF Coming
  <2>2. ASSUME SubExeced PROVE Missed' => Coming'
    <3>1. UNCHANGED <<waitq, zombies, w, sigpc, sigtodo, nosync>> /\ subproc.at # "send"
      BY <2>2 DEF SubExeced, sigs
    <3> QED BY <1>1, <3>1 DEF Coming
  <2>3. ASSUME SubTerminated PROVE Coming'
    BY <1>4, <2>3 DEF SubTerminated, RestOK, Coming
  <2>4. ASSUME SubSend PROVE Coming'
    BY <1>4, <2>4 DEF SubSend, RestOK, Coming
  <2> QED BY <1>9, <2>1, <2>2, <2>3, <2>4 DEF SubStep
<1>10. CASE SigStep
  <2>1. ASSUME SigWake PROVE Missed' => Coming'
    BY <1>1, <2>1 DEF SigWake, tables, Coming
  <2>2. ASSUME SigTake PROVE Coming'
    <3>1. sigpc' \in {"clear", "clearmore"}
      BY <2>2 DEF SigTake
    <3> QED BY <3>1 DEF Coming
  <2>3. ASSUME SigClear PROVE ~Missed'
    BY <1>3, <2>3 DEF SigClear
  <2>4. ASSUME SigDone PROVE Missed' => Coming'
    BY <1>1, <2>4 DEF SigDone, tables, Coming
  <2> QED BY <1>10, <2>1, <2>2, <2>3, <2>4 DEF SigStep
<1>11. CASE SigOther
  BY <1>3, <1>11 DEF SigOther, Interrupt
<1>12. ASSUME NEW c \in Child, ChildStep(c) PROVE Missed' => Coming'
  <2>1. ASSUME Tell(c) PROVE Coming'
    BY <1>4, <2>1 DEF Tell, RestOK, Coming
  <2>2. ASSUME Stop(c) \/ Continue(c) PROVE Missed' => Coming'
    BY <1>1, <2>2 DEF Stop, Continue, sigs, Coming
  <2>3. ASSUME Exec(c) \/ \E h \in {1, 2} : Exit(c, h) PROVE Missed' => Coming'
    BY <1>1, <2>3 DEF Exec, Exit, tables, sigs, Coming
  <2> QED BY <1>12, <2>1, <2>2, <2>3 DEF ChildStep
<1> QED BY <1>5, <1>6, <1>7, <1>8, <1>9, <1>10, <1>11, <1>12 DEF Next

\* In a program whose main thread alone waits, it never stays blocked beside a
\* zombie it waits for: a scan of the queue is still to come.  With several threads
\* the scan may pass one over.
THEOREM NoSigchldLost ==
  ASSUME Waiter = {Main}
  PROVE  Spec => []ScanToCome
<1>1. Init => (Missed => Coming)
  BY DEF Init, Missed
<1>2. IInv /\ (Missed => Coming) /\ [Next]_vars => (Missed' => Coming')
  BY AloneStep
<1>3. IInv /\ (Missed => Coming) => ScanToCome
  BY Restated DEF IInv
<1> QED BY <1>1, <1>2, <1>3, Inductive, PTL DEF Spec

============================================================================
