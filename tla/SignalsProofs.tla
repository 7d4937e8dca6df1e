---------------------------- MODULE SignalsProofs ----------------------------
(***************************************************************************)
(* What TLAPS proves of signals, for any handled signals, with or without  *)
(* job control, any senders inside and outside the process, and any bound  *)
(* on what is sent: no signal with a handler is lost or doubled, every     *)
(* thread that waits in sig_send is owed exactly the completion it waits   *)
(* for, a stopped process cannot miss its SIGCONT, and kill of the main    *)
(* thread does not return before its signal has reached a handler.         *)
(*                                                                         *)
(* The heart of the invariant is an account of completions: wait_sig owes  *)
(* the main thread one completion while it waits for one, which is in the  *)
(* semaphore, in the catch object, in the flush that was put off or in the *)
(* signal wait_sig works on, and owes the other threads as many as wait.   *)
(* The rest says which steps the main thread can be at, so that a handler  *)
(* that is entered is in sigsave and one that returns is on the stack.     *)
(***************************************************************************)
EXTENDS Signals, FiniteSetTheorems, SequenceTheorems, TLAPS

\* Where a call of sig_dispatch_pending can lead, and where a handler can return to
Nexts == {"run", "kill", "setmask", "suspend", "suspended", "enter", "return"}
Backs == {"run", "setmask", "suspend"}

\* Only the main thread handles signals: the other threads are in kill, and the
\* other processes in sig_send, or in neither.
Places ==
  /\ \A a \in Thread : then[a] \in Nexts /\ (a # Main => then[a] \in {"run", "kill"})
  /\ \A a \in Thread \ {Main} : pc[a] \in {"run", "kill", "raise", "complete"}
  /\ \A a \in Foreign : pc[a] \in {"run", "raise"}
  /\ pc[Main] = "call" => then[Main] \in {"setmask", "suspend"}
  /\ \A i \in 1 .. Len(stack) : stack[i].back \in Backs

\* The main thread is at a step, or will be once its flush is done.
Bound(step) ==
  \/ pc[Main] = step
  \/ pc[Main] \in {"raise", "complete"} /\ op[Main] = "FLUSH" /\ then[Main] = step

\* A handler that is entered is in sigsave, one that returns is on the stack.
Handlers ==
  /\ Bound("enter") => sigsave.sig # None
  /\ Bound("return") => stack # <<>>

\* __SIGFLUSH is only ever in the array of local signals, and never in hand.
FlushLocal ==
  /\ shared["FLUSH"] = 0
  /\ waitsig.at \in {"blocked", "handle"} => Cur # "FLUSH"

\* 1 for a thing that is there, to count with
One(b) == IF b THEN 1 ELSE 0

\* wait_sig works on a signal that came with the object rc.
Busy(rc) == waitsig.at # "idle" /\ waitsig.rc = rc

\* The main thread has exactly one completion coming while it waits for one, and
\* none otherwise.
OwedMain ==
  complete.main + catch.main + One(flush) + One(Busy("main")) = One(pc[Main] = "complete")

\* The threads besides the main one that wait for a completion
Completing == {a \in Thread \ {Main} : pc[a] = "complete"}

\* The other threads have as many completions coming as there are who wait.
OwedNonmain ==
  complete.nonmain + catch.nonmain + One(Busy("nonmain")) = Cardinality(Completing)

\* A stop that waits to be handled has not been taken back unnoticed; the stopped
\* thread has no frame, so that no handler is set up for it.
Stopping ==
  /\ sigsave.sig = "STOP" => stopped \/ sigCONT = 1
  /\ pc[Main] \in {"enter", "stopped"} => ~frame
  /\ pc[Main] = "stopped" => sigsave.sig = None
  /\ NotLeftStopped

\* The inductive invariant
IInv ==
  /\ TypeOK /\ Places /\ Handlers /\ FlushLocal
  /\ NoSignalLost /\ OwedMain /\ OwedNonmain /\ Stopping

\* With no other thread that sends: a local signal is the one the main thread sends, and
\* wait_sig is to look at it or has not got to it yet.
LocalOfMain ==
  \A s \in Sig : local[s] > 0 =>
    /\ local[s] = 1
    /\ pc[Main] \in {"raise", "complete"} /\ op[Main] = s
    /\ pc[Main] = "complete" =>
         \/ catch.main = 1
         \/ waitsig.at = "scan" /\ Busy("main") /\ \A i \in 1 .. waitsig.cur - 1 : Order[i] # s

\* A stopped process has the handler of its stop waiting, or is in it; so does one that has been
\* told to continue, if it has a parent to tell of its stops.
StopHeld ==
  /\ stopped => sigsave.sig = "STOP" \/ pc[Main] = "stopped"
  /\ ppid_handle /\ sigCONT = 1 => ~stopped /\ (sigsave.sig = "STOP" \/ pc[Main] = "stopped")
  /\ pc[Main] = "stopped" => ppid_handle

\* The main thread is sending itself a signal that its mask lets through.
Sending == pc[Main] \in {"raise", "complete"} /\ op[Main] \in User

\* The signal is still to be looked at, or about to be handled, or a handler waits; there is a
\* frame to set it up for.
Delivering ==
  Sending =>
    /\ frame
    /\ op[Main] \notin mask =>
         \/ local[op[Main]] > 0
         \/ waitsig.at = "handle" /\ waitsig.rc # "nosync" /\ Cur = op[Main]
         \/ sigsave.sig # None

\* wait_sig looks at every signal, __SIGFLUSH first; the signals with a handler are
\* among them, and not the special ones.
LEMMA OrderFacts ==
  /\ Len(Order) \in Nat \ {0} /\ DOMAIN Order = 1 .. Len(Order)
  /\ "FLUSH" \in Sig /\ User \subseteq Sig /\ Maskable \subseteq User
  /\ "FLUSH" \notin User /\ "STOP" \notin User /\ "CONT" \notin User
  /\ None \notin Sig
<1> DEFINE Name == {"FLUSH", "STOP", "CONT"} \cup User
           first == <<"FLUSH">>
           rest == IF Stops THEN <<"STOP", "CONT">> ELSE <<>>
           low == first \o Sigs
<1>1. Sigs \in Seq(Name) /\ Len(Sigs) \in Nat /\ DOMAIN Sigs = 1 .. Len(Sigs)
  BY SigAssumption DEF User
<1>2. rest \in Seq(Name) /\ Len(rest) \in Nat
  <2>1. CASE Stops
    BY <2>1
  <2>2. CASE ~Stops
    BY <2>2
  <2> QED BY <2>1, <2>2
<1>3. first \in Seq(Name) /\ Len(first) = 1 /\ first[1] = "FLUSH"
  OBVIOUS
<1>4. Order = low \o rest
  BY DEF Order
<1> HIDE DEF Name, first, rest
<1>5. /\ low \in Seq(Name) /\ Len(low) = 1 + Len(Sigs)
      /\ low[1] = "FLUSH" /\ \A i \in 1 .. Len(Sigs) : low[i + 1] = Sigs[i]
  <2>1. /\ low \in Seq(Name) /\ Len(low) = Len(first) + Len(Sigs)
        /\ \A i \in 1 .. Len(first) + Len(Sigs) :
             low[i] = IF i <= Len(first) THEN first[i] ELSE Sigs[i - Len(first)]
    BY <1>1, <1>3, ConcatProperties
  <2> HIDE DEF low
  <2>2. low[1] = "FLUSH"
    BY <1>1, <1>3, <2>1
  <2>3. ASSUME NEW i \in 1 .. Len(Sigs) PROVE low[i + 1] = Sigs[i]
    BY <1>1, <1>3, <2>1
  <2> QED BY <1>3, <2>1, <2>2, <2>3
<1> HIDE DEF low
<1>6. Order \in Seq(Name) /\ Len(Order) = Len(low) + Len(rest)
  BY <1>2, <1>4, <1>5, ConcatProperties
<1>7. \A i \in 1 .. Len(low) : Order[i] = low[i]
  BY <1>2, <1>4, <1>5, ConcatProperties
<1>8. Len(Order) \in Nat \ {0} /\ DOMAIN Order = 1 .. Len(Order)
  BY <1>1, <1>2, <1>5, <1>6
<1>9. "FLUSH" \in Sig
  <2>1. 1 \in 1 .. Len(low) /\ 1 \in DOMAIN Order
    BY <1>1, <1>5, <1>8
  <2> QED BY <1>5, <1>7, <2>1 DEF Sig
<1>10. User \subseteq Sig
  <2> SUFFICES ASSUME NEW i \in DOMAIN Sigs PROVE Sigs[i] \in Sig
    BY DEF User
  <2>1. i + 1 \in DOMAIN Order /\ Order[i + 1] = Sigs[i]
    BY <1>1, <1>2, <1>5, <1>6, <1>7, <1>8
  <2> QED BY <2>1 DEF Sig
<1> QED BY <1>8, <1>9, <1>10, SigAssumption, NoneAssumption DEF User

\* The record of the wait_sig thread
WaitSig == [at : {"idle", "scan", "blocked", "handle", "out"}, rc : {"main", "nonmain", "nosync"},
            cur : DOMAIN Order, x : Nat, more : BOOLEAN]

\* __SIGFLUSH has a place in the arrays.
LEMMA FlushSig == "FLUSH" \in Sig
BY OrderFacts

\* The signal wait_sig looks at is one of the arrays'.
LEMMA CurSig == ASSUME waitsig \in WaitSig PROVE Cur \in Sig
BY DEF WaitSig, Cur, Sig

\* However wait_sig goes on after a signal, it scans or is done, for the same object.
LEMMA OnwardFacts ==
  ASSUME waitsig \in WaitSig, NEW failed \in BOOLEAN, NEW x \in Nat
  PROVE  /\ Onward(failed, x) \in WaitSig
         /\ Onward(failed, x).at \in {"scan", "out"}
         /\ Onward(failed, x).rc = waitsig.rc
<1> DEFINE o == Onward(failed, x)
<1>1. /\ waitsig.cur \in 1 .. Len(Order) /\ 1 \in DOMAIN Order
      /\ waitsig.cur < Len(Order) => waitsig.cur + 1 \in DOMAIN Order
  BY OrderFacts DEF WaitSig
<1>2. PICK at \in {"scan", "out"}, cur \in DOMAIN Order, more \in BOOLEAN :
        o = [waitsig EXCEPT !.at = at, !.cur = cur, !.x = 0, !.more = more]
  BY <1>1, Zenon DEF Onward
<1> HIDE DEF o
<1>3. o \in WaitSig
  BY <1>2 DEF WaitSig
<1>4. o.at = at /\ o.rc = waitsig.rc
  BY <1>2 DEF WaitSig
<1> QED BY <1>3, <1>4 DEF o

\* The type invariant in parts, by what changes together
TypeArrays == local \in [Sig -> Nat] /\ shared \in [Sig -> Nat]
TypeGhosts == sent \in [Sig -> Nat] /\ run \in [Sig -> Nat]
TypeCatch == catch \in [main : Nat, nonmain : Nat, nosync : {0, 1}]
TypeComplete == complete \in [main : {0, 1}, nonmain : Nat]
TypePlace ==
  /\ pc \in [Actor -> Place] /\ op \in [Actor -> Sig \cup {None}] /\ then \in [Thread -> Place]
TypeMasks ==
  /\ mask \in SUBSET Sig /\ asked \in SUBSET Sig /\ arg \in SUBSET Sig /\ keep \in SUBSET Sig
  /\ sigsave \in Slot
  /\ stack \in Seq([oldmask : SUBSET Sig, back : Place])
TypeFlags ==
  /\ pending_signals \in BOOLEAN /\ flush \in BOOLEAN
  /\ stopped \in BOOLEAN /\ sigCONT \in {0, 1}
  /\ frame \in BOOLEAN /\ ppid_handle \in BOOLEAN

Types ==
  /\ TypeArrays /\ TypeGhosts /\ TypeCatch /\ TypeComplete /\ waitsig \in WaitSig
  /\ TypePlace /\ TypeMasks /\ TypeFlags

\* The parts make up the type invariant.
LEMMA TypeParts == TypeOK <=> Types
BY DEF TypeOK, Types, TypeArrays, TypeGhosts, TypeCatch, TypeComplete, WaitSig, TypePlace, TypeMasks,
       TypeFlags

\* The object that ends the wait of wait_sig had been raised.
LEMMA ChoiceFacts ==
  ASSUME TypeCatch, catch.main + catch.nonmain + catch.nosync > 0
  PROVE  Choice \in {"main", "nonmain", "nosync"} /\ catch[Choice] > 0
BY DEF TypeCatch, Choice

\* The handler on top of the stack, and the ones below it
LEMMA StackTop ==
  ASSUME TypeMasks, Places, stack # <<>>
  PROVE  /\ Head(stack).oldmask \in SUBSET Sig /\ Head(stack).back \in Backs
         /\ Tail(stack) \in Seq([oldmask : SUBSET Sig, back : Place])
         /\ Len(Tail(stack)) = Len(stack) - 1
         /\ \A i \in 1 .. Len(Tail(stack)) : Tail(stack)[i] = stack[i + 1]
<1>1. stack \in Seq([oldmask : SUBSET Sig, back : Place])
  BY DEF TypeMasks
<1>2. Head(stack) \in [oldmask : SUBSET Sig, back : Place]
  BY <1>1, HeadTailProperties
<1>3. Len(stack) \in Nat \ {0} /\ Head(stack) = stack[1]
  BY <1>1
<1>4. Head(stack).back \in Backs
  BY <1>2, <1>3 DEF Places
<1> QED BY <1>1, <1>2, <1>4, HeadTailProperties

\* What a thread that looks at the pending signals first does: it sends itself
\* a flush, or goes on.
Moved(a, next) ==
  \/ /\ local' = [local EXCEPT !["FLUSH"] = @ + 1]
     /\ op' = [op EXCEPT ![a] = "FLUSH"]
     /\ then' = [then EXCEPT ![a] = next]
     /\ pc' = [pc EXCEPT ![a] = "raise"]
  \/ /\ UNCHANGED <<local, op>>
     /\ then' \in {then, [then EXCEPT ![a] = next]}
     /\ pc' = [pc EXCEPT ![a] = next]

\* sig_dispatch_pending moves its caller on, or has it send a flush.
LEMMA DispatchMoves ==
  ASSUME NEW a, NEW next, DispatchPending(a, next)
  PROVE  Moved(a, next) /\ (frame \in BOOLEAN => frame' \in BOOLEAN)
<1>1. Moved(a, next)
  BY DEF DispatchPending, Moved, Goto
<1>2. frame \in BOOLEAN => frame' \in BOOLEAN
  BY Zenon DEF DispatchPending
<1> QED BY <1>1, <1>2

\* set_process_mask sets the mask but for SIGSTOP, and moves the main thread on likewise.
LEMMA MaskMoves ==
  ASSUME NEW new, NEW next, SetProcessMask(new, next)
  PROVE  /\ Moved(Main, next) /\ mask' = new \ {"STOP"}
         /\ frame \in BOOLEAN => frame' \in BOOLEAN
<1>1. Moved(Main, next) /\ mask' = new \ {"STOP"}
  BY DispatchMoves DEF SetProcessMask, Moved, Goto
<1>2. frame \in BOOLEAN => frame' \in BOOLEAN
  BY DispatchMoves, Zenon DEF SetProcessMask
<1> QED BY <1>1, <1>2

\* The steps that change the arrays of signals; all others leave them alone.
LEMMA FrameArrays ==
  ASSUME [Next]_vars
  PROVE  \/ UNCHANGED <<local, shared>>
         \/ \E a \in Actor, s \in Sig : SigSend(a, s)
         \/ \E a \in Raiser : Kill(a)
         \/ \E new \in SUBSET Maskable : Sigprocmask(new)
         \/ \E new \in SUBSET Maskable : Sigsuspend(new)
         \/ SetMask
         \/ Suspend
         \/ Dispatch
         \/ HandlerReturn
         \/ Take
         \/ PutBack
         \/ TakeFlush
         \/ HandleFails
         \/ HandleStop
         \/ HandleCont
<1>1. ASSUME NEW a \in Actor, KillNobody(a) PROVE UNCHANGED <<local, shared>>
  BY <1>1 DEF KillNobody, arrays, flags, stop, main, place
<1>2. ASSUME NEW a \in Actor, Raise(a) PROVE UNCHANGED <<local, shared>>
  BY <1>2 DEF Raise, arrays, flags, stop, main, place
<1>3. ASSUME NEW a \in Actor, Completed(a) PROVE UNCHANGED <<local, shared>>
  BY <1>3 DEF Completed, arrays, flags, stop, main, place
<1>4. ASSUME Proceed PROVE UNCHANGED <<local, shared>>
  BY <1>4 DEF Proceed, arrays, flags, stop, main, place
<1>5. ASSUME Suspended PROVE UNCHANGED <<local, shared>>
  BY <1>5 DEF Suspended, arrays, flags, stop, main, place
<1>6. ASSUME Enter PROVE UNCHANGED <<local, shared>>
  BY <1>6 DEF Enter, arrays, flags, stop, main, place
<1>7. ASSUME Resume PROVE UNCHANGED <<local, shared>>
  BY <1>7 DEF Resume, arrays, flags, stop, main, place
<1>8. ASSUME Return PROVE UNCHANGED <<local, shared>>
  BY <1>8 DEF Return, arrays, flags, stop, main, place
<1>9. ASSUME Wake PROVE UNCHANGED <<local, shared>>
  BY <1>9 DEF Wake, arrays, flags, stop, main, place
<1>10. ASSUME ScanNext PROVE UNCHANGED <<local, shared>>
  BY <1>10 DEF ScanNext, arrays, flags, stop, main, place
<1>11. ASSUME HandleUser PROVE UNCHANGED <<local, shared>>
  BY <1>11 DEF HandleUser, SetUp, arrays, flags, stop, main, place
<1>12. ASSUME Out PROVE UNCHANGED <<local, shared>>
  BY <1>12 DEF Out, arrays, flags, stop, main, place
<1> QED
  BY <1>1, <1>2, <1>3, <1>4, <1>5, <1>6, <1>7, <1>8, <1>9, <1>10, <1>11, <1>12
    DEF Next, SendStep, HandlerStep, WaitSigStep, vars

\* The steps that change what was sent and run
LEMMA FrameGhosts ==
  ASSUME [Next]_vars
  PROVE  \/ UNCHANGED <<sent, run>>
         \/ \E a \in Actor, s \in Sig : SigSend(a, s)
         \/ Enter
<1>1. ASSUME NEW a \in Raiser, Kill(a) PROVE UNCHANGED <<sent, run>>
  BY <1>1 DEF Kill, arrays, flags, stop, main, place
<1>2. ASSUME NEW a \in Actor, KillNobody(a) PROVE UNCHANGED <<sent, run>>
  BY <1>2 DEF KillNobody, arrays, flags, stop, main, place
<1>3. ASSUME NEW a \in Actor, Raise(a) PROVE UNCHANGED <<sent, run>>
  BY <1>3 DEF Raise, arrays, flags, stop, main, place
<1>4. ASSUME NEW a \in Actor, Completed(a) PROVE UNCHANGED <<sent, run>>
  BY <1>4 DEF Completed, arrays, flags, stop, main, place
<1>5. ASSUME NEW new \in SUBSET Maskable, Sigprocmask(new) PROVE UNCHANGED <<sent, run>>
  BY <1>5 DEF Sigprocmask, arrays, flags, stop, main, place
<1>6. ASSUME NEW new \in SUBSET Maskable, Sigsuspend(new) PROVE UNCHANGED <<sent, run>>
  BY <1>6 DEF Sigsuspend, arrays, flags, stop, main, place
<1>7. ASSUME Proceed PROVE UNCHANGED <<sent, run>>
  BY <1>7 DEF Proceed, arrays, flags, stop, main, place
<1>8. ASSUME SetMask PROVE UNCHANGED <<sent, run>>
  BY <1>8 DEF SetMask, arrays, flags, stop, main, place
<1>9. ASSUME Suspend PROVE UNCHANGED <<sent, run>>
  BY <1>9 DEF Suspend, arrays, flags, stop, main, place
<1>10. ASSUME Suspended PROVE UNCHANGED <<sent, run>>
  BY <1>10 DEF Suspended, arrays, flags, stop, main, place
<1>11. ASSUME Dispatch PROVE UNCHANGED <<sent, run>>
  BY <1>11 DEF Dispatch, arrays, flags, stop, main, place
<1>12. ASSUME Resume PROVE UNCHANGED <<sent, run>>
  BY <1>12 DEF Resume, arrays, flags, stop, main, place
<1>13. ASSUME HandlerReturn PROVE UNCHANGED <<sent, run>>
  BY <1>13 DEF HandlerReturn, arrays, flags, stop, main, place
<1>14. ASSUME Return PROVE UNCHANGED <<sent, run>>
  BY <1>14 DEF Return, arrays, flags, stop, main, place
<1>15. ASSUME Wake PROVE UNCHANGED <<sent, run>>
  BY <1>15 DEF Wake, arrays, flags, stop, main, place
<1>16. ASSUME ScanNext PROVE UNCHANGED <<sent, run>>
  BY <1>16 DEF ScanNext, arrays, flags, stop, main, place
<1>17. ASSUME Take PROVE UNCHANGED <<sent, run>>
  BY <1>17 DEF Take, arrays, flags, stop, main, place
<1>18. ASSUME PutBack PROVE UNCHANGED <<sent, run>>
  BY <1>18 DEF PutBack, arrays, flags, stop, main, place
<1>19. ASSUME TakeFlush PROVE UNCHANGED <<sent, run>>
  BY <1>19 DEF TakeFlush, arrays, flags, stop, main, place
<1>20. ASSUME HandleUser PROVE UNCHANGED <<sent, run>>
  BY <1>20 DEF HandleUser, SetUp, arrays, flags, stop, main, place
<1>21. ASSUME HandleFails PROVE UNCHANGED <<sent, run>>
  BY <1>21 DEF HandleFails, arrays, flags, stop, main, place
<1>22. ASSUME HandleStop PROVE UNCHANGED <<sent, run>>
  BY <1>22 DEF HandleStop, SetUp, arrays, flags, stop, main, place
<1>23. ASSUME HandleCont PROVE UNCHANGED <<sent, run>>
  BY <1>23 DEF HandleCont, arrays, flags, stop, main, place
<1>24. ASSUME Out PROVE UNCHANGED <<sent, run>>
  BY <1>24 DEF Out, arrays, flags, stop, main, place
<1> QED
  BY <1>1, <1>2, <1>3, <1>4, <1>5, <1>6, <1>7, <1>8, <1>9, <1>10, <1>11, <1>12, <1>13, <1>14,
     <1>15, <1>16, <1>17, <1>18, <1>19, <1>20, <1>21, <1>22, <1>23, <1>24
    DEF Next, SendStep, HandlerStep, WaitSigStep, vars

\* The steps that change the catch objects
LEMMA FrameCatch ==
  ASSUME [Next]_vars
  PROVE  \/ UNCHANGED catch
         \/ \E a \in Actor : Raise(a)
         \/ Wake
         \/ TakeFlush
         \/ HandleFails
<1>1. ASSUME NEW a \in Actor, NEW s \in Sig, SigSend(a, s) PROVE UNCHANGED catch
  BY <1>1 DEF SigSend, arrays, flags, stop, main, place
<1>2. ASSUME NEW a \in Raiser, Kill(a) PROVE UNCHANGED catch
  BY <1>2 DEF Kill, arrays, flags, stop, main, place
<1>3. ASSUME NEW a \in Actor, KillNobody(a) PROVE UNCHANGED catch
  BY <1>3 DEF KillNobody, arrays, flags, stop, main, place
<1>4. ASSUME NEW a \in Actor, Completed(a) PROVE UNCHANGED catch
  BY <1>4 DEF Completed, arrays, flags, stop, main, place
<1>5. ASSUME NEW new \in SUBSET Maskable, Sigprocmask(new) PROVE UNCHANGED catch
  BY <1>5 DEF Sigprocmask, arrays, flags, stop, main, place
<1>6. ASSUME NEW new \in SUBSET Maskable, Sigsuspend(new) PROVE UNCHANGED catch
  BY <1>6 DEF Sigsuspend, arrays, flags, stop, main, place
<1>7. ASSUME Proceed PROVE UNCHANGED catch
  BY <1>7 DEF Proceed, arrays, flags, stop, main, place
<1>8. ASSUME SetMask PROVE UNCHANGED catch
  BY <1>8 DEF SetMask, arrays, flags, stop, main, place
<1>9. ASSUME Suspend PROVE UNCHANGED catch
  BY <1>9 DEF Suspend, arrays, flags, stop, main, place
<1>10. ASSUME Suspended PROVE UNCHANGED catch
  BY <1>10 DEF Suspended, arrays, flags, stop, main, place
<1>11. ASSUME Dispatch PROVE UNCHANGED catch
  BY <1>11 DEF Dispatch, arrays, flags, stop, main, place
<1>12. ASSUME Enter PROVE UNCHANGED catch
  BY <1>12 DEF Enter, arrays, flags, stop, main, place
<1>13. ASSUME Resume PROVE UNCHANGED catch
  BY <1>13 DEF Resume, arrays, flags, stop, main, place
<1>14. ASSUME HandlerReturn PROVE UNCHANGED catch
  BY <1>14 DEF HandlerReturn, arrays, flags, stop, main, place
<1>15. ASSUME Return PROVE UNCHANGED catch
  BY <1>15 DEF Return, arrays, flags, stop, main, place
<1>16. ASSUME ScanNext PROVE UNCHANGED catch
  BY <1>16 DEF ScanNext, arrays, flags, stop, main, place
<1>17. ASSUME Take PROVE UNCHANGED catch
  BY <1>17 DEF Take, arrays, flags, stop, main, place
<1>18. ASSUME PutBack PROVE UNCHANGED catch
  BY <1>18 DEF PutBack, arrays, flags, stop, main, place
<1>19. ASSUME HandleUser PROVE UNCHANGED catch
  BY <1>19 DEF HandleUser, SetUp, arrays, flags, stop, main, place
<1>20. ASSUME HandleStop PROVE UNCHANGED catch
  BY <1>20 DEF HandleStop, SetUp, arrays, flags, stop, main, place
<1>21. ASSUME HandleCont PROVE UNCHANGED catch
  BY <1>21 DEF HandleCont, arrays, flags, stop, main, place
<1>22. ASSUME Out PROVE UNCHANGED catch
  BY <1>22 DEF Out, arrays, flags, stop, main, place
<1> QED
  BY <1>1, <1>2, <1>3, <1>4, <1>5, <1>6, <1>7, <1>8, <1>9, <1>10, <1>11, <1>12, <1>13, <1>14,
     <1>15, <1>16, <1>17, <1>18, <1>19, <1>20, <1>21, <1>22
    DEF Next, SendStep, HandlerStep, WaitSigStep, vars

\* The steps that change the completions
LEMMA FrameComplete ==
  ASSUME [Next]_vars
  PROVE  \/ UNCHANGED complete
         \/ \E a \in Actor : Completed(a)
         \/ Out
<1>1. ASSUME NEW a \in Actor, NEW s \in Sig, SigSend(a, s) PROVE UNCHANGED complete
  BY <1>1 DEF SigSend, arrays, flags, stop, main, place
<1>2. ASSUME NEW a \in Raiser, Kill(a) PROVE UNCHANGED complete
  BY <1>2 DEF Kill, arrays, flags, stop, main, place
<1>3. ASSUME NEW a \in Actor, KillNobody(a) PROVE UNCHANGED complete
  BY <1>3 DEF KillNobody, arrays, flags, stop, main, place
<1>4. ASSUME NEW a \in Actor, Raise(a) PROVE UNCHANGED complete
  BY <1>4 DEF Raise, arrays, flags, stop, main, place
<1>5. ASSUME NEW new \in SUBSET Maskable, Sigprocmask(new) PROVE UNCHANGED complete
  BY <1>5 DEF Sigprocmask, arrays, flags, stop, main, place
<1>6. ASSUME NEW new \in SUBSET Maskable, Sigsuspend(new) PROVE UNCHANGED complete
  BY <1>6 DEF Sigsuspend, arrays, flags, stop, main, place
<1>7. ASSUME Proceed PROVE UNCHANGED complete
  BY <1>7 DEF Proceed, arrays, flags, stop, main, place
<1>8. ASSUME SetMask PROVE UNCHANGED complete
  BY <1>8 DEF SetMask, arrays, flags, stop, main, place
<1>9. ASSUME Suspend PROVE UNCHANGED complete
  BY <1>9 DEF Suspend, arrays, flags, stop, main, place
<1>10. ASSUME Suspended PROVE UNCHANGED complete
  BY <1>10 DEF Suspended, arrays, flags, stop, main, place
<1>11. ASSUME Dispatch PROVE UNCHANGED complete
  BY <1>11 DEF Dispatch, arrays, flags, stop, main, place
<1>12. ASSUME Enter PROVE UNCHANGED complete
  BY <1>12 DEF Enter, arrays, flags, stop, main, place
<1>13. ASSUME Resume PROVE UNCHANGED complete
  BY <1>13 DEF Resume, arrays, flags, stop, main, place
<1>14. ASSUME HandlerReturn PROVE UNCHANGED complete
  BY <1>14 DEF HandlerReturn, arrays, flags, stop, main, place
<1>15. ASSUME Return PROVE UNCHANGED complete
  BY <1>15 DEF Return, arrays, flags, stop, main, place
<1>16. ASSUME Wake PROVE UNCHANGED complete
  BY <1>16 DEF Wake, arrays, flags, stop, main, place
<1>17. ASSUME ScanNext PROVE UNCHANGED complete
  BY <1>17 DEF ScanNext, arrays, flags, stop, main, place
<1>18. ASSUME Take PROVE UNCHANGED complete
  BY <1>18 DEF Take, arrays, flags, stop, main, place
<1>19. ASSUME PutBack PROVE UNCHANGED complete
  BY <1>19 DEF PutBack, arrays, flags, stop, main, place
<1>20. ASSUME TakeFlush PROVE UNCHANGED complete
  BY <1>20 DEF TakeFlush, arrays, flags, stop, main, place
<1>21. ASSUME HandleUser PROVE UNCHANGED complete
  BY <1>21 DEF HandleUser, SetUp, arrays, flags, stop, main, place
<1>22. ASSUME HandleFails PROVE UNCHANGED complete
  BY <1>22 DEF HandleFails, arrays, flags, stop, main, place
<1>23. ASSUME HandleStop PROVE UNCHANGED complete
  BY <1>23 DEF HandleStop, SetUp, arrays, flags, stop, main, place
<1>24. ASSUME HandleCont PROVE UNCHANGED complete
  BY <1>24 DEF HandleCont, arrays, flags, stop, main, place
<1> QED
  BY <1>1, <1>2, <1>3, <1>4, <1>5, <1>6, <1>7, <1>8, <1>9, <1>10, <1>11, <1>12, <1>13, <1>14,
     <1>15, <1>16, <1>17, <1>18, <1>19, <1>20, <1>21, <1>22, <1>23, <1>24
    DEF Next, SendStep, HandlerStep, WaitSigStep, vars

\* The steps that change the wait_sig thread
LEMMA FrameWait ==
  ASSUME [Next]_vars
  PROVE  \/ UNCHANGED waitsig
         \/ Wake
         \/ ScanNext
         \/ Take
         \/ PutBack
         \/ TakeFlush
         \/ HandleUser
         \/ HandleFails
         \/ HandleStop
         \/ HandleCont
         \/ Out
<1>1. ASSUME NEW a \in Actor, NEW s \in Sig, SigSend(a, s) PROVE UNCHANGED waitsig
  BY <1>1 DEF SigSend, arrays, flags, stop, main, place
<1>2. ASSUME NEW a \in Raiser, Kill(a) PROVE UNCHANGED waitsig
  BY <1>2 DEF Kill, arrays, flags, stop, main, place
<1>3. ASSUME NEW a \in Actor, KillNobody(a) PROVE UNCHANGED waitsig
  BY <1>3 DEF KillNobody, arrays, flags, stop, main, place
<1>4. ASSUME NEW a \in Actor, Raise(a) PROVE UNCHANGED waitsig
  BY <1>4 DEF Raise, arrays, flags, stop, main, place
<1>5. ASSUME NEW a \in Actor, Completed(a) PROVE UNCHANGED waitsig
  BY <1>5 DEF Completed, arrays, flags, stop, main, place
<1>6. ASSUME NEW new \in SUBSET Maskable, Sigprocmask(new) PROVE UNCHANGED waitsig
  BY <1>6 DEF Sigprocmask, arrays, flags, stop, main, place
<1>7. ASSUME NEW new \in SUBSET Maskable, Sigsuspend(new) PROVE UNCHANGED waitsig
  BY <1>7 DEF Sigsuspend, arrays, flags, stop, main, place
<1>8. ASSUME Proceed PROVE UNCHANGED waitsig
  BY <1>8 DEF Proceed, arrays, flags, stop, main, place
<1>9. ASSUME SetMask PROVE UNCHANGED waitsig
  BY <1>9 DEF SetMask, arrays, flags, stop, main, place
<1>10. ASSUME Suspend PROVE UNCHANGED waitsig
  BY <1>10 DEF Suspend, arrays, flags, stop, main, place
<1>11. ASSUME Suspended PROVE UNCHANGED waitsig
  BY <1>11 DEF Suspended, arrays, flags, stop, main, place
<1>12. ASSUME Dispatch PROVE UNCHANGED waitsig
  BY <1>12 DEF Dispatch, arrays, flags, stop, main, place
<1>13. ASSUME Enter PROVE UNCHANGED waitsig
  BY <1>13 DEF Enter, arrays, flags, stop, main, place
<1>14. ASSUME Resume PROVE UNCHANGED waitsig
  BY <1>14 DEF Resume, arrays, flags, stop, main, place
<1>15. ASSUME HandlerReturn PROVE UNCHANGED waitsig
  BY <1>15 DEF HandlerReturn, arrays, flags, stop, main, place
<1>16. ASSUME Return PROVE UNCHANGED waitsig
  BY <1>16 DEF Return, arrays, flags, stop, main, place
<1> QED
  BY <1>1, <1>2, <1>3, <1>4, <1>5, <1>6, <1>7, <1>8, <1>9, <1>10, <1>11, <1>12, <1>13, <1>14,
     <1>15, <1>16
    DEF Next, SendStep, HandlerStep, WaitSigStep, vars

\* The steps that change where the threads are
LEMMA FramePlace ==
  ASSUME [Next]_vars
  PROVE  \/ UNCHANGED <<pc, op, then>>
         \/ \E a \in Actor, s \in Sig : SigSend(a, s)
         \/ \E a \in Raiser : Kill(a)
         \/ \E a \in Actor : KillNobody(a)
         \/ \E a \in Actor : Raise(a)
         \/ \E a \in Actor : Completed(a)
         \/ \E new \in SUBSET Maskable : Sigprocmask(new)
         \/ \E new \in SUBSET Maskable : Sigsuspend(new)
         \/ Proceed
         \/ SetMask
         \/ Suspend
         \/ Suspended
         \/ Dispatch
         \/ Enter
         \/ Resume
         \/ HandlerReturn
         \/ Return
<1>1. ASSUME Wake PROVE UNCHANGED <<pc, op, then>>
  BY <1>1 DEF Wake, arrays, flags, stop, main, place
<1>2. ASSUME ScanNext PROVE UNCHANGED <<pc, op, then>>
  BY <1>2 DEF ScanNext, arrays, flags, stop, main, place
<1>3. ASSUME Take PROVE UNCHANGED <<pc, op, then>>
  BY <1>3 DEF Take, arrays, flags, stop, main, place
<1>4. ASSUME PutBack PROVE UNCHANGED <<pc, op, then>>
  BY <1>4 DEF PutBack, arrays, flags, stop, main, place
<1>5. ASSUME TakeFlush PROVE UNCHANGED <<pc, op, then>>
  BY <1>5 DEF TakeFlush, arrays, flags, stop, main, place
<1>6. ASSUME HandleUser PROVE UNCHANGED <<pc, op, then>>
  BY <1>6 DEF HandleUser, SetUp, arrays, flags, stop, main, place
<1>7. ASSUME HandleFails PROVE UNCHANGED <<pc, op, then>>
  BY <1>7 DEF HandleFails, arrays, flags, stop, main, place
<1>8. ASSUME HandleStop PROVE UNCHANGED <<pc, op, then>>
  BY <1>8 DEF HandleStop, SetUp, arrays, flags, stop, main, place
<1>9. ASSUME HandleCont PROVE UNCHANGED <<pc, op, then>>
  BY <1>9 DEF HandleCont, arrays, flags, stop, main, place
<1>10. ASSUME Out PROVE UNCHANGED <<pc, op, then>>
  BY <1>10 DEF Out, arrays, flags, stop, main, place
<1> QED
  BY <1>1, <1>2, <1>3, <1>4, <1>5, <1>6, <1>7, <1>8, <1>9, <1>10
    DEF Next, SendStep, HandlerStep, WaitSigStep, vars

\* The steps that change the masks, sigsave and the stack of handlers
LEMMA FrameMasks ==
  ASSUME [Next]_vars
  PROVE  \/ UNCHANGED <<mask, asked, arg, keep, sigsave, stack>>
         \/ \E new \in SUBSET Maskable : Sigprocmask(new)
         \/ \E new \in SUBSET Maskable : Sigsuspend(new)
         \/ SetMask
         \/ Suspend
         \/ Suspended
         \/ Dispatch
         \/ Enter
         \/ HandlerReturn
         \/ Return
         \/ HandleUser
         \/ HandleStop
<1>1. ASSUME NEW a \in Actor, NEW s \in Sig, SigSend(a, s)
      PROVE  UNCHANGED <<mask, asked, arg, keep, sigsave, stack>>
  BY <1>1 DEF SigSend, arrays, flags, stop, main, place
<1>2. ASSUME NEW a \in Raiser, Kill(a) PROVE UNCHANGED <<mask, asked, arg, keep, sigsave, stack>>
  BY <1>2 DEF Kill, arrays, flags, stop, main, place
<1>3. ASSUME NEW a \in Actor, KillNobody(a)
      PROVE  UNCHANGED <<mask, asked, arg, keep, sigsave, stack>>
  BY <1>3 DEF KillNobody, arrays, flags, stop, main, place
<1>4. ASSUME NEW a \in Actor, Raise(a) PROVE UNCHANGED <<mask, asked, arg, keep, sigsave, stack>>
  BY <1>4 DEF Raise, arrays, flags, stop, main, place
<1>5. ASSUME NEW a \in Actor, Completed(a)
      PROVE  UNCHANGED <<mask, asked, arg, keep, sigsave, stack>>
  BY <1>5 DEF Completed, arrays, flags, stop, main, place
<1>6. ASSUME Proceed PROVE UNCHANGED <<mask, asked, arg, keep, sigsave, stack>>
  BY <1>6 DEF Proceed, arrays, flags, stop, main, place
<1>7. ASSUME Resume PROVE UNCHANGED <<mask, asked, arg, keep, sigsave, stack>>
  BY <1>7 DEF Resume, arrays, flags, stop, main, place
<1>8. ASSUME Wake PROVE UNCHANGED <<mask, asked, arg, keep, sigsave, stack>>
  BY <1>8 DEF Wake, arrays, flags, stop, main, place
<1>9. ASSUME ScanNext PROVE UNCHANGED <<mask, asked, arg, keep, sigsave, stack>>
  BY <1>9 DEF ScanNext, arrays, flags, stop, main, place
<1>10. ASSUME Take PROVE UNCHANGED <<mask, asked, arg, keep, sigsave, stack>>
  BY <1>10 DEF Take, arrays, flags, stop, main, place
<1>11. ASSUME PutBack PROVE UNCHANGED <<mask, asked, arg, keep, sigsave, stack>>
  BY <1>11 DEF PutBack, arrays, flags, stop, main, place
<1>12. ASSUME TakeFlush PROVE UNCHANGED <<mask, asked, arg, keep, sigsave, stack>>
  BY <1>12 DEF TakeFlush, arrays, flags, stop, main, place
<1>13. ASSUME HandleFails PROVE UNCHANGED <<mask, asked, arg, keep, sigsave, stack>>
  BY <1>13 DEF HandleFails, arrays, flags, stop, main, place
<1>14. ASSUME HandleCont PROVE UNCHANGED <<mask, asked, arg, keep, sigsave, stack>>
  BY <1>14 DEF HandleCont, arrays, flags, stop, main, place
<1>15. ASSUME Out PROVE UNCHANGED <<mask, asked, arg, keep, sigsave, stack>>
  BY <1>15 DEF Out, arrays, flags, stop, main, place
<1> QED
  BY <1>1, <1>2, <1>3, <1>4, <1>5, <1>6, <1>7, <1>8, <1>9, <1>10, <1>11, <1>12, <1>13, <1>14,
     <1>15
    DEF Next, SendStep, HandlerStep, WaitSigStep, vars

\* The steps that change a flag
LEMMA FrameFlags ==
  ASSUME [Next]_vars
  PROVE  \/ UNCHANGED <<pending_signals, flush, stopped, sigCONT, frame, ppid_handle>>
         \/ \E a \in Actor, s \in Sig : SigSend(a, s)
         \/ \E a \in Raiser : Kill(a)
         \/ \E a \in Actor : KillNobody(a)
         \/ \E a \in Actor : Completed(a)
         \/ \E new \in SUBSET Maskable : Sigprocmask(new)
         \/ \E new \in SUBSET Maskable : Sigsuspend(new)
         \/ Proceed
         \/ SetMask
         \/ Suspend
         \/ Suspended
         \/ Dispatch
         \/ Enter
         \/ Resume
         \/ HandlerReturn
         \/ Return
         \/ Wake
         \/ Take
         \/ PutBack
         \/ TakeFlush
         \/ HandleFails
         \/ HandleStop
         \/ HandleCont
         \/ Out
<1>1. ASSUME NEW a \in Actor, Raise(a)
      PROVE  UNCHANGED <<pending_signals, flush, stopped, sigCONT, frame, ppid_handle>>
  BY <1>1 DEF Raise, arrays, flags, stop, main, place
<1>2. ASSUME ScanNext
      PROVE  UNCHANGED <<pending_signals, flush, stopped, sigCONT, frame, ppid_handle>>
  BY <1>2 DEF ScanNext, arrays, flags, stop, main, place
<1>3. ASSUME HandleUser
      PROVE  UNCHANGED <<pending_signals, flush, stopped, sigCONT, frame, ppid_handle>>
  BY <1>3 DEF HandleUser, SetUp, arrays, flags, stop, main, place
<1> QED
  BY <1>1, <1>2, <1>3
    DEF Next, SendStep, HandlerStep, WaitSigStep, vars

\* A signal is taken off an array only where the array has one.
LEMMA TypeArraysStep == Types /\ Places /\ Handlers /\ FlushLocal /\ [Next]_vars => TypeArrays'
<1> SUFFICES ASSUME Types, Places, Handlers, FlushLocal, [Next]_vars PROVE TypeArrays'
  OBVIOUS
<1>1. ASSUME UNCHANGED <<local, shared>> PROVE TypeArrays'
  BY <1>1 DEF TypeArrays, Types
<1>2. ASSUME NEW a \in Actor, NEW s \in Sig, SigSend(a, s) PROVE TypeArrays'
  <2>1. CASE a \in Foreign
    BY <1>2, <2>1 DEF SigSend, TypeArrays, Types
  <2>2. CASE a \notin Foreign
    BY <1>2, <2>2 DEF SigSend, TypeArrays, Types
  <2> QED BY <2>1, <2>2
<1>3. ASSUME NEW a \in Raiser, Kill(a) PROVE TypeArrays'
  BY <1>3, FlushSig, CurSig, DispatchMoves
    DEF Kill, Moved, Goto, TypeArrays, arrays, FlushLocal, Types
<1>4. ASSUME NEW new \in SUBSET Maskable, Sigprocmask(new) PROVE TypeArrays'
  BY <1>4, FlushSig, CurSig, DispatchMoves
    DEF Sigprocmask, Moved, Goto, TypeArrays, arrays, FlushLocal, Types
<1>5. ASSUME NEW new \in SUBSET Maskable, Sigsuspend(new) PROVE TypeArrays'
  BY <1>5, FlushSig, CurSig, DispatchMoves
    DEF Sigsuspend, Moved, Goto, TypeArrays, arrays, FlushLocal, Types
<1>6. ASSUME SetMask PROVE TypeArrays'
  BY <1>6, FlushSig, CurSig, MaskMoves
    DEF SetMask, Moved, Goto, TypeArrays, arrays, FlushLocal, Types
<1>7. ASSUME Suspend PROVE TypeArrays'
  BY <1>7, FlushSig, CurSig, MaskMoves
    DEF Suspend, Moved, Goto, TypeArrays, arrays, FlushLocal, Types
<1>8. ASSUME Dispatch PROVE TypeArrays'
  <2>1. Moved(Main, "enter") /\ shared' = shared
    BY <1>8, MaskMoves DEF Dispatch
  <2> QED BY <2>1, FlushSig DEF Moved, Types, TypeArrays
<1>9. ASSUME HandlerReturn PROVE TypeArrays'
  <2>1. Moved(Main, "return") /\ shared' = shared
    BY <1>9, MaskMoves DEF HandlerReturn
  <2> QED BY <2>1, FlushSig DEF Moved, Types, TypeArrays
<1>10. ASSUME Take PROVE TypeArrays'
  BY <1>10, FlushSig, CurSig
    DEF Take, Count, Goto, TypeArrays, arrays, FlushLocal, Types
<1>11. ASSUME PutBack PROVE TypeArrays'
  BY <1>11, FlushSig, CurSig
    DEF PutBack, Goto, TypeArrays, arrays, FlushLocal, Types
<1>12. ASSUME TakeFlush PROVE TypeArrays'
  BY <1>12, FlushSig, CurSig
    DEF TakeFlush, Count, Goto, TypeArrays, arrays, FlushLocal, Types
<1>13. ASSUME HandleFails PROVE TypeArrays'
  BY <1>13, FlushSig, CurSig
    DEF HandleFails, Cleared, Goto, TypeArrays, arrays, FlushLocal, Types
<1>14. ASSUME HandleStop PROVE TypeArrays'
  BY <1>14, FlushSig, CurSig
    DEF HandleStop, SetUp, Cleared, Goto, TypeArrays, arrays, FlushLocal, Types
<1>15. ASSUME HandleCont PROVE TypeArrays'
  BY <1>15, FlushSig, CurSig
    DEF HandleCont, Cleared, Goto, TypeArrays, arrays, FlushLocal, Types
<1> QED
  BY <1>1, <1>2, <1>3, <1>4, <1>5, <1>6, <1>7, <1>8, <1>9, <1>10, <1>11, <1>12, <1>13, <1>14,
     <1>15, FrameArrays

\* What was sent and run stays a count.
LEMMA TypeGhostsStep == Types /\ Places /\ Handlers /\ FlushLocal /\ [Next]_vars => TypeGhosts'
<1> SUFFICES ASSUME Types, Places, Handlers, FlushLocal, [Next]_vars PROVE TypeGhosts'
  OBVIOUS
<1>1. ASSUME UNCHANGED <<sent, run>> PROVE TypeGhosts'
  BY <1>1 DEF TypeGhosts, Types
<1>2. ASSUME NEW a \in Actor, NEW s \in Sig, SigSend(a, s) PROVE TypeGhosts'
  BY <1>2
    DEF SigSend, Goto, TypeGhosts, Types
<1>3. ASSUME Enter PROVE TypeGhosts'
  <2>1. sigsave.sig \in Sig
    BY <1>3 DEF Enter, Handlers, Bound, Types, TypeMasks, Slot
  <2> QED BY <1>3, <2>1 DEF Enter, Types, TypeGhosts
<1> QED
  BY <1>1, <1>2, <1>3, FrameGhosts

\* A catch object is taken only when it was raised.
LEMMA TypeCatchStep == Types /\ Places /\ Handlers /\ FlushLocal /\ [Next]_vars => TypeCatch'
<1> SUFFICES ASSUME Types, Places, Handlers, FlushLocal, [Next]_vars PROVE TypeCatch'
  OBVIOUS
<1>1. ASSUME UNCHANGED catch PROVE TypeCatch'
  BY <1>1 DEF TypeCatch, Types
<1>2. ASSUME NEW a \in Actor, Raise(a) PROVE TypeCatch'
  BY <1>2
    DEF Raise, Goto, TypeCatch, Types
<1>3. ASSUME Wake PROVE TypeCatch'
  BY <1>3
    DEF Wake, Goto, TypeCatch, Types, Choice
<1>4. ASSUME TakeFlush PROVE TypeCatch'
  BY <1>4
    DEF TakeFlush, Count, Goto, TypeCatch, Types
<1>5. ASSUME HandleFails PROVE TypeCatch'
  BY <1>5
    DEF HandleFails, Cleared, Goto, TypeCatch, Types
<1> QED
  BY <1>1, <1>2, <1>3, <1>4, <1>5, FrameCatch

\* A completion is taken only when it was signalled.
LEMMA TypeCompleteStep ==
  Types /\ Places /\ Handlers /\ FlushLocal /\ [Next]_vars => TypeComplete'
<1> SUFFICES ASSUME Types, Places, Handlers, FlushLocal, [Next]_vars PROVE TypeComplete'
  OBVIOUS
<1>1. ASSUME UNCHANGED complete PROVE TypeComplete'
  BY <1>1 DEF TypeComplete, Types
<1>2. ASSUME NEW a \in Actor, Completed(a) PROVE TypeComplete'
  BY <1>2
    DEF Completed, AfterFlush, Goto, TypeComplete, Types
<1>3. ASSUME Out PROVE TypeComplete'
  BY <1>3
    DEF Out, Goto, TypeComplete, Types
<1> QED
  BY <1>1, <1>2, <1>3, FrameComplete

\* wait_sig stays within the arrays.
LEMMA TypeWaitStep ==
  Types /\ Places /\ Handlers /\ FlushLocal /\ [Next]_vars => waitsig' \in WaitSig
<1> SUFFICES ASSUME Types, Places, Handlers, FlushLocal, [Next]_vars PROVE waitsig' \in WaitSig
  OBVIOUS
<1>1. ASSUME UNCHANGED waitsig PROVE waitsig' \in WaitSig
  BY <1>1 DEF WaitSig, Types
<1>2. ASSUME Wake PROVE waitsig' \in WaitSig
  <2>1. 1 \in DOMAIN Order /\ Choice \in {"main", "nonmain", "nosync"}
    BY <1>2, ChoiceFacts, OrderFacts DEF Wake, Types
  <2> QED BY <1>2, <2>1 DEF Wake, WaitSig
<1>3. ASSUME ScanNext PROVE waitsig' \in WaitSig
  <2>1. 1 \in DOMAIN Order /\ (waitsig.cur < Len(Order) => waitsig.cur + 1 \in DOMAIN Order)
    BY OrderFacts DEF WaitSig, Types
  <2>2. CASE waitsig.cur < Len(Order)
    BY <1>3, <2>1, <2>2 DEF ScanNext, WaitSig, Types
  <2>3. CASE ~(waitsig.cur < Len(Order))
    <3>1. PICK at \in {"scan", "out"} : at = IF waitsig.more THEN "scan" ELSE "out"
      BY Zenon
    <3>2. waitsig' = [waitsig EXCEPT !.at = at, !.cur = 1, !.more = FALSE]
      BY <1>3, <2>3, <3>1, Zenon DEF ScanNext
    <3> QED BY <2>1, <3>2 DEF WaitSig, Types
  <2> QED BY <2>2, <2>3
<1>4. ASSUME Take PROVE waitsig' \in WaitSig
  <2>1. Count(Cur) - 1 \in Nat
    BY <1>4, CurSig DEF Take, Count, Types, TypeArrays
  <2>2. PICK at \in {"blocked", "handle"} : at = IF Blocked(Cur) THEN "blocked" ELSE "handle"
    BY Zenon
  <2>3. waitsig' = [waitsig EXCEPT !.at = at, !.x = Count(Cur) - 1]
    BY <1>4, <2>2, Zenon DEF Take
  <2> QED BY <2>1, <2>3 DEF WaitSig, Types
<1>5. ASSUME PutBack PROVE waitsig' \in WaitSig
  BY <1>5, OrderFacts, OnwardFacts, CurSig
    DEF PutBack, Goto, WaitSig, TypeArrays, Types
<1>6. ASSUME TakeFlush PROVE waitsig' \in WaitSig
  <2>1. Count(Cur) - 1 \in Nat
    BY <1>6, CurSig DEF TakeFlush, Count, Types, TypeArrays
  <2>2. CASE waitsig' = [waitsig EXCEPT !.at = "idle", !.cur = 1, !.more = FALSE]
    <3>1. 1 \in DOMAIN Order
      BY OrderFacts
    <3> QED BY <2>2, <3>1 DEF WaitSig, Types
  <2>3. CASE waitsig' = Onward(FALSE, Count(Cur) - 1)
    BY <2>1, <2>3, OnwardFacts DEF Types
  <2> QED BY <1>6, <2>2, <2>3 DEF TakeFlush
<1>7. ASSUME HandleUser PROVE waitsig' \in WaitSig
  BY <1>7, OrderFacts, OnwardFacts, CurSig
    DEF HandleUser, SetUp, Goto, WaitSig, TypeArrays, Types
<1>8. ASSUME HandleFails PROVE waitsig' \in WaitSig
  BY <1>8, OrderFacts, OnwardFacts, CurSig
    DEF HandleFails, Cleared, Goto, WaitSig, TypeArrays, Types
<1>9. ASSUME HandleStop PROVE waitsig' \in WaitSig
  BY <1>9, OrderFacts, OnwardFacts, CurSig
    DEF HandleStop, SetUp, Cleared, Goto, WaitSig, TypeArrays, Types
<1>10. ASSUME HandleCont PROVE waitsig' \in WaitSig
  BY <1>10, OrderFacts, OnwardFacts, CurSig
    DEF HandleCont, Cleared, Goto, WaitSig, TypeArrays, Types
<1>11. ASSUME Out PROVE waitsig' \in WaitSig
  BY <1>11, OrderFacts, OnwardFacts, CurSig
    DEF Out, Goto, WaitSig, TypeArrays, Types
<1> QED
  BY <1>1, <1>2, <1>3, <1>4, <1>5, <1>6, <1>7, <1>8, <1>9, <1>10, <1>11, FrameWait

\* The threads stay at steps of the calls.
LEMMA TypePlaceStep == Types /\ Places /\ Handlers /\ FlushLocal /\ [Next]_vars => TypePlace'
<1> SUFFICES ASSUME Types, Places, Handlers, FlushLocal, [Next]_vars PROVE TypePlace'
  OBVIOUS
<1>1. ASSUME UNCHANGED <<pc, op, then>> PROVE TypePlace'
  BY <1>1 DEF TypePlace, Types
<1>2. ASSUME NEW a \in Actor, NEW s \in Sig, SigSend(a, s) PROVE TypePlace'
  BY <1>2, OrderFacts, ThreadAssumption
    DEF SigSend, Goto, TypePlace, place, Places, Place, Nexts, Backs, Thread, Actor, TypeMasks,
        Types
<1>3. ASSUME NEW a \in Raiser, Kill(a) PROVE TypePlace'
  BY <1>3, OrderFacts, ThreadAssumption, DispatchMoves
    DEF Kill, Moved, Goto, TypePlace, place, Places, Place, Nexts, Backs, Thread, Actor,
        TypeMasks, Types
<1>4. ASSUME NEW a \in Actor, KillNobody(a) PROVE TypePlace'
  BY <1>4, OrderFacts, ThreadAssumption
    DEF KillNobody, Goto, TypePlace, place, Places, Place, Nexts, Backs, Thread, Actor,
        TypeMasks, Types
<1>5. ASSUME NEW a \in Actor, Raise(a) PROVE TypePlace'
  BY <1>5, OrderFacts, ThreadAssumption
    DEF Raise, Goto, TypePlace, place, Places, Place, Nexts, Backs, Thread, Actor, TypeMasks,
        Types
<1>6. ASSUME NEW a \in Actor, Completed(a) PROVE TypePlace'
  BY <1>6, OrderFacts, ThreadAssumption
    DEF Completed, AfterFlush, Goto, TypePlace, place, Places, Place, Nexts, Backs, Thread,
        Actor, TypeMasks, Types
<1>7. ASSUME NEW new \in SUBSET Maskable, Sigprocmask(new) PROVE TypePlace'
  BY <1>7, OrderFacts, ThreadAssumption, DispatchMoves
    DEF Sigprocmask, Moved, Goto, TypePlace, place, Places, Place, Nexts, Backs, Thread, Actor,
        TypeMasks, Types
<1>8. ASSUME NEW new \in SUBSET Maskable, Sigsuspend(new) PROVE TypePlace'
  BY <1>8, OrderFacts, ThreadAssumption, DispatchMoves
    DEF Sigsuspend, Moved, Goto, TypePlace, place, Places, Place, Nexts, Backs, Thread, Actor,
        TypeMasks, Types
<1>9. ASSUME Proceed PROVE TypePlace'
  BY <1>9, OrderFacts, ThreadAssumption
    DEF Proceed, Goto, TypePlace, place, Places, Place, Nexts, Backs, Thread, Actor, TypeMasks,
        Types
<1>10. ASSUME SetMask PROVE TypePlace'
  BY <1>10, OrderFacts, ThreadAssumption, MaskMoves
    DEF SetMask, Moved, Goto, TypePlace, place, Places, Place, Nexts, Backs, Thread, Actor,
        TypeMasks, Types
<1>11. ASSUME Suspend PROVE TypePlace'
  BY <1>11, OrderFacts, ThreadAssumption, MaskMoves
    DEF Suspend, Moved, Goto, TypePlace, place, Places, Place, Nexts, Backs, Thread, Actor,
        TypeMasks, Types
<1>12. ASSUME Suspended PROVE TypePlace'
  BY <1>12, OrderFacts, ThreadAssumption
    DEF Suspended, Goto, TypePlace, place, Places, Place, Nexts, Backs, Thread, Actor,
        TypeMasks, Types
<1>13. ASSUME Dispatch PROVE TypePlace'
  BY <1>13, OrderFacts, ThreadAssumption, MaskMoves
    DEF Dispatch, Moved, Goto, TypePlace, place, Places, Place, Nexts, Backs, Thread, Actor,
        TypeMasks, Types
<1>14. ASSUME Enter PROVE TypePlace'
  BY <1>14, OrderFacts, ThreadAssumption
    DEF Enter, Goto, TypePlace, place, Places, Place, Nexts, Backs, Thread, Actor, TypeMasks,
        Types
<1>15. ASSUME Resume PROVE TypePlace'
  BY <1>15, OrderFacts, ThreadAssumption
    DEF Resume, Goto, TypePlace, place, Places, Place, Nexts, Backs, Thread, Actor, TypeMasks,
        Types
<1>16. ASSUME HandlerReturn PROVE TypePlace'
  BY <1>16, OrderFacts, ThreadAssumption, MaskMoves
    DEF HandlerReturn, Moved, Goto, TypePlace, place, Places, Place, Nexts, Backs, Thread,
        Actor, TypeMasks, Types
<1>17. ASSUME Return PROVE TypePlace'
  <2>1. stack # <<>>
    BY <1>17 DEF Return, Handlers, Bound
  <2>2. Head(stack).back \in Place
    BY <2>1, StackTop DEF Types, Backs, Place
  <2> QED BY <1>17, <2>2 DEF Return, Goto, Types, TypePlace
<1> QED
  BY <1>1, <1>2, <1>3, <1>4, <1>5, <1>6, <1>7, <1>8, <1>9, <1>10, <1>11, <1>12, <1>13, <1>14,
     <1>15, <1>16, <1>17, FramePlace

\* The masks stay sets of signals.
LEMMA TypeMasksStep == Types /\ Places /\ Handlers /\ FlushLocal /\ [Next]_vars => TypeMasks'
<1> SUFFICES ASSUME Types, Places, Handlers, FlushLocal, [Next]_vars PROVE TypeMasks'
  OBVIOUS
<1>1. ASSUME UNCHANGED <<mask, asked, arg, keep, sigsave, stack>> PROVE TypeMasks'
  BY <1>1 DEF TypeMasks, Types
<1>2. ASSUME NEW new \in SUBSET Maskable, Sigprocmask(new) PROVE TypeMasks'
  BY <1>2, OrderFacts, CurSig, DispatchMoves
    DEF Sigprocmask, Moved, Goto, TypeMasks, main, Slot, Empty, Places, Backs, Place, Types
<1>3. ASSUME NEW new \in SUBSET Maskable, Sigsuspend(new) PROVE TypeMasks'
  BY <1>3, OrderFacts, CurSig, DispatchMoves
    DEF Sigsuspend, Moved, Goto, TypeMasks, main, Slot, Empty, Places, Backs, Place, Types
<1>4. ASSUME SetMask PROVE TypeMasks'
  BY <1>4, OrderFacts, CurSig, MaskMoves
    DEF SetMask, Moved, Goto, TypeMasks, main, Slot, Empty, Places, Backs, Place, Types
<1>5. ASSUME Suspend PROVE TypeMasks'
  BY <1>5, OrderFacts, CurSig, MaskMoves
    DEF Suspend, Moved, Goto, TypeMasks, main, Slot, Empty, Places, Backs, Place, Types
<1>6. ASSUME Suspended PROVE TypeMasks'
  BY <1>6, OrderFacts, CurSig
    DEF Suspended, Goto, TypeMasks, main, Slot, Empty, Places, Backs, Place, Types
<1>7. ASSUME Dispatch PROVE TypeMasks'
  <2> DEFINE back == CASE pc[Main] = "run" -> "run"
                       [] pc[Main] = "call" -> then[Main]
                       [] OTHER -> Head(stack).back
             below == IF pc[Main] = "return" THEN Tail(stack) ELSE stack
             Frame == [oldmask : SUBSET Sig, back : Place]
             new == [oldmask |-> sigsave.oldmask, back |-> back]
  <2>1. mask' = sigsave.newmask \ {"STOP"} /\ sigsave.sig # None
    BY <1>7, MaskMoves DEF Dispatch
  <2>2. pc[Main] = "return" => stack # <<>>
    BY DEF Handlers, Bound
  <2>3. back \in Place /\ below \in Seq(Frame)
    BY <1>7, <2>2, StackTop DEF Dispatch, Types, TypeMasks, Places, Backs, Place
  <2>4. stack' = <<new>> \o below
    BY <1>7 DEF Dispatch
  <2>5. sigsave.oldmask \in SUBSET Sig /\ sigsave.newmask \in SUBSET Sig
    BY DEF Types, TypeMasks, Slot
  <2>6. <<new>> \in Seq(Frame)
    BY <2>3, <2>5
  <2> HIDE DEF new, below, Frame
  <2>7. stack' \in Seq(Frame)
    BY <2>3, <2>4, <2>6, ConcatProperties
  <2>8. mask' \in SUBSET Sig
    BY <2>1, <2>5
  <2> QED BY <1>7, <2>7, <2>8 DEF Dispatch, Types, TypeMasks, Frame
<1>8. ASSUME Enter PROVE TypeMasks'
  BY <1>8, OrderFacts, CurSig
    DEF Enter, Goto, TypeMasks, main, Slot, Empty, Places, Backs, Place, Types
<1>9. ASSUME HandlerReturn PROVE TypeMasks'
  <2>1. mask' = Head(stack).oldmask \ {"STOP"} /\ stack # <<>>
    BY <1>9, MaskMoves DEF HandlerReturn
  <2> QED BY <1>9, <2>1, StackTop DEF HandlerReturn, Types, TypeMasks, main
<1>10. ASSUME Return PROVE TypeMasks'
  <2>1. stack # <<>>
    BY <1>10 DEF Return, Handlers, Bound
  <2> QED BY <1>10, <2>1, StackTop DEF Return, Types, TypeMasks, main
<1>11. ASSUME HandleUser PROVE TypeMasks'
  BY <1>11, OrderFacts, CurSig
    DEF HandleUser, SetUp, Goto, TypeMasks, main, Slot, Empty, Places, Backs, Place, Types
<1>12. ASSUME HandleStop PROVE TypeMasks'
  BY <1>12, OrderFacts, CurSig
    DEF HandleStop, SetUp, Cleared, Goto, TypeMasks, main, Slot, Empty, Places, Backs, Place,
        Types
<1> QED
  BY <1>1, <1>2, <1>3, <1>4, <1>5, <1>6, <1>7, <1>8, <1>9, <1>10, <1>11, <1>12, FrameMasks

\* The flags stay flags.
LEMMA TypeFlagsStep == Types /\ Places /\ Handlers /\ FlushLocal /\ [Next]_vars => TypeFlags'
<1> SUFFICES ASSUME Types, Places, Handlers, FlushLocal, [Next]_vars PROVE TypeFlags'
  OBVIOUS
<1>1. ASSUME UNCHANGED <<pending_signals, flush, stopped, sigCONT, frame, ppid_handle>>
      PROVE  TypeFlags'
  BY <1>1 DEF TypeFlags, Types
<1>2. ASSUME NEW a \in Actor, NEW s \in Sig, SigSend(a, s) PROVE TypeFlags'
  BY <1>2
    DEF SigSend, Goto, TypeFlags, flags, stop, place, Types
<1>3. ASSUME NEW a \in Raiser, Kill(a) PROVE TypeFlags'
  BY <1>3, DispatchMoves
    DEF Kill, Moved, Goto, TypeFlags, flags, stop, place, Types
<1>4. ASSUME NEW a \in Actor, KillNobody(a) PROVE TypeFlags'
  BY <1>4
    DEF KillNobody, Goto, TypeFlags, flags, stop, place, Types
<1>5. ASSUME NEW a \in Actor, Completed(a) PROVE TypeFlags'
  BY <1>5
    DEF Completed, AfterFlush, Goto, TypeFlags, flags, stop, place, Types
<1>6. ASSUME NEW new \in SUBSET Maskable, Sigprocmask(new) PROVE TypeFlags'
  BY <1>6, DispatchMoves
    DEF Sigprocmask, Moved, Goto, TypeFlags, flags, stop, place, Types
<1>7. ASSUME NEW new \in SUBSET Maskable, Sigsuspend(new) PROVE TypeFlags'
  BY <1>7, DispatchMoves
    DEF Sigsuspend, Moved, Goto, TypeFlags, flags, stop, place, Types
<1>8. ASSUME Proceed PROVE TypeFlags'
  BY <1>8
    DEF Proceed, Goto, TypeFlags, flags, stop, place, Types
<1>9. ASSUME SetMask PROVE TypeFlags'
  BY <1>9, MaskMoves
    DEF SetMask, Moved, Goto, TypeFlags, flags, stop, place, Types
<1>10. ASSUME Suspend PROVE TypeFlags'
  BY <1>10, MaskMoves
    DEF Suspend, Moved, Goto, TypeFlags, flags, stop, place, Types
<1>11. ASSUME Suspended PROVE TypeFlags'
  BY <1>11
    DEF Suspended, Goto, TypeFlags, flags, stop, place, Types
<1>12. ASSUME Dispatch PROVE TypeFlags'
  BY <1>12, MaskMoves
    DEF Dispatch, Moved, Goto, TypeFlags, flags, stop, place, Types
<1>13. ASSUME Enter PROVE TypeFlags'
  BY <1>13
    DEF Enter, Goto, TypeFlags, flags, stop, place, Types
<1>14. ASSUME Resume PROVE TypeFlags'
  BY <1>14
    DEF Resume, Goto, TypeFlags, flags, stop, place, Types
<1>15. ASSUME HandlerReturn PROVE TypeFlags'
  BY <1>15, MaskMoves
    DEF HandlerReturn, Moved, Goto, TypeFlags, flags, stop, place, Types
<1>16. ASSUME Return PROVE TypeFlags'
  BY <1>16
    DEF Return, Goto, TypeFlags, flags, stop, place, Types
<1>17. ASSUME Wake PROVE TypeFlags'
  BY <1>17
    DEF Wake, Goto, TypeFlags, flags, stop, place, Types
<1>18. ASSUME Take PROVE TypeFlags'
  BY <1>18
    DEF Take, Count, Goto, TypeFlags, flags, stop, place, Types
<1>19. ASSUME PutBack PROVE TypeFlags'
  BY <1>19
    DEF PutBack, Goto, TypeFlags, flags, stop, place, Types
<1>20. ASSUME TakeFlush PROVE TypeFlags'
  BY <1>20
    DEF TakeFlush, Count, Goto, TypeFlags, flags, stop, place, Types
<1>21. ASSUME HandleFails PROVE TypeFlags'
  BY <1>21
    DEF HandleFails, Cleared, Goto, TypeFlags, flags, stop, place, Types
<1>22. ASSUME HandleStop PROVE TypeFlags'
  BY <1>22
    DEF HandleStop, SetUp, Cleared, Goto, TypeFlags, flags, stop, place, Types
<1>23. ASSUME HandleCont PROVE TypeFlags'
  BY <1>23
    DEF HandleCont, Cleared, Goto, TypeFlags, flags, stop, place, Types
<1>24. ASSUME Out PROVE TypeFlags'
  BY <1>24
    DEF Out, Goto, TypeFlags, flags, stop, place, Types
<1> QED
  BY <1>1, <1>2, <1>3, <1>4, <1>5, <1>6, <1>7, <1>8, <1>9, <1>10, <1>11, <1>12, <1>13, <1>14,
     <1>15, <1>16, <1>17, <1>18, <1>19, <1>20, <1>21, <1>22, <1>23, <1>24, FrameFlags

\* The steps that Places depends on
LEMMA FramePlaces ==
  ASSUME [Next]_vars
  PROVE  \/ UNCHANGED <<pc, then, stack>>
         \/ \E a \in Actor, s \in Sig : SigSend(a, s)
         \/ \E a \in Raiser : Kill(a)
         \/ \E a \in Actor : KillNobody(a)
         \/ \E a \in Actor : Raise(a)
         \/ \E a \in Actor : Completed(a)
         \/ \E new \in SUBSET Maskable : Sigprocmask(new)
         \/ \E new \in SUBSET Maskable : Sigsuspend(new)
         \/ Proceed
         \/ SetMask
         \/ Suspend
         \/ Suspended
         \/ Dispatch
         \/ Enter
         \/ Resume
         \/ HandlerReturn
         \/ Return
<1>1. ASSUME Wake PROVE UNCHANGED <<pc, then, stack>>
  BY <1>1 DEF Wake, arrays, flags, stop, main, place
<1>2. ASSUME ScanNext PROVE UNCHANGED <<pc, then, stack>>
  BY <1>2 DEF ScanNext, arrays, flags, stop, main, place
<1>3. ASSUME Take PROVE UNCHANGED <<pc, then, stack>>
  BY <1>3 DEF Take, arrays, flags, stop, main, place
<1>4. ASSUME PutBack PROVE UNCHANGED <<pc, then, stack>>
  BY <1>4 DEF PutBack, arrays, flags, stop, main, place
<1>5. ASSUME TakeFlush PROVE UNCHANGED <<pc, then, stack>>
  BY <1>5 DEF TakeFlush, arrays, flags, stop, main, place
<1>6. ASSUME HandleUser PROVE UNCHANGED <<pc, then, stack>>
  BY <1>6 DEF HandleUser, SetUp, arrays, flags, stop, main, place
<1>7. ASSUME HandleFails PROVE UNCHANGED <<pc, then, stack>>
  BY <1>7 DEF HandleFails, arrays, flags, stop, main, place
<1>8. ASSUME HandleStop PROVE UNCHANGED <<pc, then, stack>>
  BY <1>8 DEF HandleStop, SetUp, arrays, flags, stop, main, place
<1>9. ASSUME HandleCont PROVE UNCHANGED <<pc, then, stack>>
  BY <1>9 DEF HandleCont, arrays, flags, stop, main, place
<1>10. ASSUME Out PROVE UNCHANGED <<pc, then, stack>>
  BY <1>10 DEF Out, arrays, flags, stop, main, place
<1> QED
  BY <1>1, <1>2, <1>3, <1>4, <1>5, <1>6, <1>7, <1>8, <1>9, <1>10
    DEF Next, SendStep, HandlerStep, WaitSigStep, vars

\* The other threads and processes stay out of what only the main thread does.
LEMMA PlacesStep == Types /\ Places /\ Handlers /\ FlushLocal /\ [Next]_vars => Places'
<1> SUFFICES ASSUME Types, Places, Handlers, FlushLocal, [Next]_vars PROVE Places'
  OBVIOUS
<1>1. ASSUME UNCHANGED <<pc, then, stack>> PROVE Places'
  BY <1>1 DEF Places, Types
<1>2. ASSUME NEW a \in Actor, NEW s \in Sig, SigSend(a, s) PROVE Places'
  BY <1>2, ThreadAssumption
    DEF SigSend, Goto, Places, Types, TypePlace, Thread, Actor, Nexts, main, place
<1>3. ASSUME NEW a \in Raiser, Kill(a) PROVE Places'
  BY <1>3, ThreadAssumption, DispatchMoves
    DEF Kill, Moved, Goto, Places, Types, TypePlace, Thread, Actor, Nexts, main, place
<1>4. ASSUME NEW a \in Actor, KillNobody(a) PROVE Places'
  BY <1>4, ThreadAssumption
    DEF KillNobody, Goto, Places, Types, TypePlace, Thread, Actor, Nexts, main, place
<1>5. ASSUME NEW a \in Actor, Raise(a) PROVE Places'
  BY <1>5, ThreadAssumption
    DEF Raise, Goto, Places, Types, TypePlace, Thread, Actor, Nexts, main, place
<1>6. ASSUME NEW a \in Actor, Completed(a) PROVE Places'
  BY <1>6, ThreadAssumption
    DEF Completed, AfterFlush, Goto, Places, Types, TypePlace, Thread, Actor, Nexts, main, place
<1>7. ASSUME NEW new \in SUBSET Maskable, Sigprocmask(new) PROVE Places'
  BY <1>7, ThreadAssumption, DispatchMoves
    DEF Sigprocmask, Moved, Goto, Places, Types, TypePlace, Thread, Actor, Nexts, main, place
<1>8. ASSUME NEW new \in SUBSET Maskable, Sigsuspend(new) PROVE Places'
  BY <1>8, ThreadAssumption, DispatchMoves
    DEF Sigsuspend, Moved, Goto, Places, Types, TypePlace, Thread, Actor, Nexts, main, place
<1>9. ASSUME Proceed PROVE Places'
  BY <1>9, ThreadAssumption
    DEF Proceed, Goto, Places, Types, TypePlace, Thread, Actor, Nexts, main, place
<1>10. ASSUME SetMask PROVE Places'
  BY <1>10, ThreadAssumption, MaskMoves
    DEF SetMask, Moved, Goto, Places, Types, TypePlace, Thread, Actor, Nexts, main, place
<1>11. ASSUME Suspend PROVE Places'
  BY <1>11, ThreadAssumption, MaskMoves
    DEF Suspend, Moved, Goto, Places, Types, TypePlace, Thread, Actor, Nexts, main, place
<1>12. ASSUME Suspended PROVE Places'
  BY <1>12, ThreadAssumption
    DEF Suspended, Goto, Places, Types, TypePlace, Thread, Actor, Nexts, main, place
<1>13. ASSUME Dispatch PROVE Places'
  <2> DEFINE back == CASE pc[Main] = "run" -> "run"
                       [] pc[Main] = "call" -> then[Main]
                       [] OTHER -> Head(stack).back
             below == IF pc[Main] = "return" THEN Tail(stack) ELSE stack
             Frame == [oldmask : SUBSET Sig, back : Place]
             new == [oldmask |-> sigsave.oldmask, back |-> back]
  <2>1. Moved(Main, "enter")
    BY <1>13, MaskMoves DEF Dispatch
  <2>2. pc[Main] = "return" => stack # <<>>
    BY DEF Handlers, Bound
  <2>3. back \in Backs /\ below \in Seq(Frame)
    BY <1>13, <2>2, StackTop DEF Dispatch, Types, TypeMasks, Places, Backs, Place
  <2>4. stack' = <<new>> \o below
    BY <1>13 DEF Dispatch
  <2>5. \A i \in 1 .. Len(below) : below[i].back \in Backs
    <3>1. CASE pc[Main] # "return"
      BY <3>1 DEF Places
    <3>2. CASE pc[Main] = "return"
      <4>1. stack \in Seq(Frame) /\ Len(stack) \in Nat
        BY DEF Types, TypeMasks
      <4> QED BY <2>2, <3>2, <4>1, StackTop DEF Places, Types
    <3> QED BY <3>1, <3>2
  <2>6. <<new>> \in Seq(Frame) /\ Len(<<new>>) = 1 /\ <<new>>[1].back = back
    <3>1. sigsave.oldmask \in SUBSET Sig /\ back \in Place
      BY <2>3 DEF Types, TypeMasks, Slot, Backs, Place
    <3> QED BY <3>1
  <2> HIDE DEF new, below, Frame, back
  <2>7. \A i \in 1 .. Len(stack') : stack'[i].back \in Backs
    <3>1. /\ Len(stack') = 1 + Len(below) /\ Len(below) \in Nat
          /\ \A i \in 1 .. 1 + Len(below) :
               stack'[i] = IF i <= 1 THEN <<new>>[i] ELSE below[i - 1]
      BY <2>3, <2>4, <2>6, ConcatProperties
    <3> QED BY <2>3, <2>5, <2>6, <3>1
  <2> QED
    BY <2>1, <2>7, ThreadAssumption
    DEF Moved, Places, Types, TypePlace, Thread, Actor, Nexts
<1>14. ASSUME Enter PROVE Places'
  BY <1>14, ThreadAssumption
    DEF Enter, Goto, Places, Types, TypePlace, Thread, Actor, Nexts, main, place
<1>15. ASSUME Resume PROVE Places'
  BY <1>15, ThreadAssumption
    DEF Resume, Goto, Places, Types, TypePlace, Thread, Actor, Nexts, main, place
<1>16. ASSUME HandlerReturn PROVE Places'
  BY <1>16, ThreadAssumption, MaskMoves
    DEF HandlerReturn, Moved, Goto, Places, Types, TypePlace, Thread, Actor, Nexts, main, place
<1>17. ASSUME Return PROVE Places'
  <2>1. stack # <<>>
    BY <1>17 DEF Return, Handlers, Bound
  <2>2. /\ Head(stack).back \in Backs /\ stack' = Tail(stack)
        /\ pc' = [pc EXCEPT ![Main] = Head(stack).back] /\ then' = then
    BY <1>17, <2>1, StackTop DEF Return, Goto, Types
  <2>3. \A i \in 1 .. Len(stack') : stack'[i].back \in Backs
    <3>1. Len(stack) \in Nat
      BY DEF Types, TypeMasks
    <3>2. stack \in Seq([oldmask : SUBSET Sig, back : Place])
      BY DEF Types, TypeMasks
    <3> QED BY <2>1, <2>2, <3>1, <3>2, StackTop DEF Places, Types
  <2> QED BY <2>2, <2>3, ThreadAssumption DEF Places, Types, TypePlace, Thread, Actor, Backs
<1> QED
  BY <1>1, <1>2, <1>3, <1>4, <1>5, <1>6, <1>7, <1>8, <1>9, <1>10, <1>11, <1>12, <1>13, <1>14,
     <1>15, <1>16, <1>17, FramePlaces

\* The steps that FlushLocal depends on
LEMMA FrameFlush ==
  ASSUME [Next]_vars
  PROVE  \/ UNCHANGED <<shared, waitsig>>
         \/ \E a \in Actor, s \in Sig : SigSend(a, s)
         \/ Wake
         \/ ScanNext
         \/ Take
         \/ PutBack
         \/ TakeFlush
         \/ HandleUser
         \/ HandleFails
         \/ HandleStop
         \/ HandleCont
         \/ Out
<1>1. ASSUME NEW a \in Raiser, Kill(a) PROVE UNCHANGED <<shared, waitsig>>
  BY <1>1 DEF Kill, arrays, flags, stop, main, place
<1>2. ASSUME NEW a \in Actor, KillNobody(a) PROVE UNCHANGED <<shared, waitsig>>
  BY <1>2 DEF KillNobody, arrays, flags, stop, main, place
<1>3. ASSUME NEW a \in Actor, Raise(a) PROVE UNCHANGED <<shared, waitsig>>
  BY <1>3 DEF Raise, arrays, flags, stop, main, place
<1>4. ASSUME NEW a \in Actor, Completed(a) PROVE UNCHANGED <<shared, waitsig>>
  BY <1>4 DEF Completed, arrays, flags, stop, main, place
<1>5. ASSUME NEW new \in SUBSET Maskable, Sigprocmask(new) PROVE UNCHANGED <<shared, waitsig>>
  BY <1>5 DEF Sigprocmask, arrays, flags, stop, main, place
<1>6. ASSUME NEW new \in SUBSET Maskable, Sigsuspend(new) PROVE UNCHANGED <<shared, waitsig>>
  BY <1>6 DEF Sigsuspend, arrays, flags, stop, main, place
<1>7. ASSUME Proceed PROVE UNCHANGED <<shared, waitsig>>
  BY <1>7 DEF Proceed, arrays, flags, stop, main, place
<1>8. ASSUME SetMask PROVE UNCHANGED <<shared, waitsig>>
  BY <1>8 DEF SetMask, arrays, flags, stop, main, place
<1>9. ASSUME Suspend PROVE UNCHANGED <<shared, waitsig>>
  BY <1>9 DEF Suspend, arrays, flags, stop, main, place
<1>10. ASSUME Suspended PROVE UNCHANGED <<shared, waitsig>>
  BY <1>10 DEF Suspended, arrays, flags, stop, main, place
<1>11. ASSUME Dispatch PROVE UNCHANGED <<shared, waitsig>>
  BY <1>11 DEF Dispatch, arrays, flags, stop, main, place
<1>12. ASSUME Enter PROVE UNCHANGED <<shared, waitsig>>
  BY <1>12 DEF Enter, arrays, flags, stop, main, place
<1>13. ASSUME Resume PROVE UNCHANGED <<shared, waitsig>>
  BY <1>13 DEF Resume, arrays, flags, stop, main, place
<1>14. ASSUME HandlerReturn PROVE UNCHANGED <<shared, waitsig>>
  BY <1>14 DEF HandlerReturn, arrays, flags, stop, main, place
<1>15. ASSUME Return PROVE UNCHANGED <<shared, waitsig>>
  BY <1>15 DEF Return, arrays, flags, stop, main, place
<1> QED
  BY <1>1, <1>2, <1>3, <1>4, <1>5, <1>6, <1>7, <1>8, <1>9, <1>10, <1>11, <1>12, <1>13, <1>14,
     <1>15
    DEF Next, SendStep, HandlerStep, WaitSigStep, vars

\* __SIGFLUSH stays in the array of local signals.
LEMMA FlushStep == Types /\ Places /\ Handlers /\ FlushLocal /\ [Next]_vars => FlushLocal'
<1> SUFFICES ASSUME Types, Places, Handlers, FlushLocal, [Next]_vars PROVE FlushLocal'
  OBVIOUS
<1>1. ASSUME UNCHANGED <<shared, waitsig>> PROVE FlushLocal'
  BY <1>1 DEF FlushLocal, Cur, Types
<1>2. ASSUME NEW a \in Actor, NEW s \in Sig, SigSend(a, s) PROVE FlushLocal'
  BY <1>2, FlushSig, CurSig, OnwardFacts
    DEF SigSend, Goto, FlushLocal, Cur, Types, TypeArrays, WaitSig, arrays
<1>3. ASSUME Wake PROVE FlushLocal'
  BY <1>3, FlushSig, CurSig, OnwardFacts
    DEF Wake, Goto, FlushLocal, Cur, Types, TypeArrays, WaitSig, arrays
<1>4. ASSUME ScanNext PROVE FlushLocal'
  BY <1>4, FlushSig, CurSig, OnwardFacts
    DEF ScanNext, Count, Goto, FlushLocal, Cur, Types, TypeArrays, WaitSig, arrays
<1>5. ASSUME Take PROVE FlushLocal'
  BY <1>5, FlushSig, CurSig, OnwardFacts
    DEF Take, Count, Goto, FlushLocal, Cur, Types, TypeArrays, WaitSig, arrays
<1>6. ASSUME PutBack PROVE FlushLocal'
  BY <1>6, FlushSig, CurSig, OnwardFacts
    DEF PutBack, Goto, FlushLocal, Cur, Types, TypeArrays, WaitSig, arrays
<1>7. ASSUME TakeFlush PROVE FlushLocal'
  <2>1. Count(Cur) - 1 \in Nat
    BY <1>7, CurSig DEF TakeFlush, Count, Types, TypeArrays
  <2>2. waitsig' = [waitsig EXCEPT !.at = "idle", !.cur = 1, !.more = FALSE] => waitsig'.at = "idle"
    BY DEF Types, WaitSig
  <2>3. waitsig'.at \in {"idle", "scan", "out"}
    BY <1>7, <2>1, <2>2, OnwardFacts DEF TakeFlush, Types
  <2> QED BY <1>7, <2>3 DEF TakeFlush, FlushLocal, Cur
<1>8. ASSUME HandleUser PROVE FlushLocal'
  BY <1>8, FlushSig, CurSig, OnwardFacts
    DEF HandleUser, SetUp, Goto, FlushLocal, Cur, Types, TypeArrays, WaitSig, arrays
<1>9. ASSUME HandleFails PROVE FlushLocal'
  BY <1>9, FlushSig, CurSig, OnwardFacts
    DEF HandleFails, Cleared, Goto, FlushLocal, Cur, Types, TypeArrays, WaitSig, arrays
<1>10. ASSUME HandleStop PROVE FlushLocal'
  BY <1>10, FlushSig, CurSig, OnwardFacts
    DEF HandleStop, SetUp, Cleared, Goto, FlushLocal, Cur, Types, TypeArrays, WaitSig, arrays
<1>11. ASSUME HandleCont PROVE FlushLocal'
  BY <1>11, FlushSig, CurSig, OnwardFacts
    DEF HandleCont, Cleared, Goto, FlushLocal, Cur, Types, TypeArrays, WaitSig, arrays
<1>12. ASSUME Out PROVE FlushLocal'
  BY <1>12, FlushSig, CurSig, OnwardFacts
    DEF Out, Goto, FlushLocal, Cur, Types, TypeArrays, WaitSig, arrays
<1> QED
  BY <1>1, <1>2, <1>3, <1>4, <1>5, <1>6, <1>7, <1>8, <1>9, <1>10, <1>11, <1>12, FrameFlush

\* The steps that Handlers depends on
LEMMA FrameHandlers ==
  ASSUME [Next]_vars
  PROVE  \/ UNCHANGED <<pc, op, then, sigsave, stack>>
         \/ \E a \in Actor, s \in Sig : SigSend(a, s)
         \/ \E a \in Raiser : Kill(a)
         \/ \E a \in Actor : KillNobody(a)
         \/ \E a \in Actor : Raise(a)
         \/ \E a \in Actor : Completed(a)
         \/ \E new \in SUBSET Maskable : Sigprocmask(new)
         \/ \E new \in SUBSET Maskable : Sigsuspend(new)
         \/ Proceed
         \/ SetMask
         \/ Suspend
         \/ Suspended
         \/ Dispatch
         \/ Enter
         \/ Resume
         \/ HandlerReturn
         \/ Return
         \/ HandleUser
         \/ HandleStop
<1>1. ASSUME Wake PROVE UNCHANGED <<pc, op, then, sigsave, stack>>
  BY <1>1 DEF Wake, arrays, flags, stop, main, place
<1>2. ASSUME ScanNext PROVE UNCHANGED <<pc, op, then, sigsave, stack>>
  BY <1>2 DEF ScanNext, arrays, flags, stop, main, place
<1>3. ASSUME Take PROVE UNCHANGED <<pc, op, then, sigsave, stack>>
  BY <1>3 DEF Take, arrays, flags, stop, main, place
<1>4. ASSUME PutBack PROVE UNCHANGED <<pc, op, then, sigsave, stack>>
  BY <1>4 DEF PutBack, arrays, flags, stop, main, place
<1>5. ASSUME TakeFlush PROVE UNCHANGED <<pc, op, then, sigsave, stack>>
  BY <1>5 DEF TakeFlush, arrays, flags, stop, main, place
<1>6. ASSUME HandleFails PROVE UNCHANGED <<pc, op, then, sigsave, stack>>
  BY <1>6 DEF HandleFails, arrays, flags, stop, main, place
<1>7. ASSUME HandleCont PROVE UNCHANGED <<pc, op, then, sigsave, stack>>
  BY <1>7 DEF HandleCont, arrays, flags, stop, main, place
<1>8. ASSUME Out PROVE UNCHANGED <<pc, op, then, sigsave, stack>>
  BY <1>8 DEF Out, arrays, flags, stop, main, place
<1> QED
  BY <1>1, <1>2, <1>3, <1>4, <1>5, <1>6, <1>7, <1>8
    DEF Next, SendStep, HandlerStep, WaitSigStep, vars

\* No step takes sigsave from a handler about to be entered, or the stack from under one
\* about to return.
LEMMA HandlersStep == Types /\ Places /\ Handlers /\ FlushLocal /\ [Next]_vars => Handlers'
<1> SUFFICES ASSUME Types, Places, Handlers, FlushLocal, [Next]_vars PROVE Handlers'
  OBVIOUS
<1>1. ASSUME UNCHANGED <<pc, op, then, sigsave, stack>> PROVE Handlers'
  BY <1>1 DEF Handlers, Bound, Types
<1>2. ASSUME NEW a \in Actor, NEW s \in Sig, SigSend(a, s) PROVE Handlers'
  BY <1>2, ThreadAssumption, FlushSig, OrderFacts
    DEF SigSend, Goto, Handlers, Bound, Types, TypePlace, TypeMasks, Slot, Empty, Thread, Actor,
        Places, main, place
<1>3. ASSUME NEW a \in Raiser, Kill(a) PROVE Handlers'
  BY <1>3, ThreadAssumption, FlushSig, OrderFacts, DispatchMoves
    DEF Kill, Moved, Goto, Handlers, Bound, Types, TypePlace, TypeMasks, Slot, Empty, Thread,
        Actor, Places, main, place
<1>4. ASSUME NEW a \in Actor, KillNobody(a) PROVE Handlers'
  BY <1>4, ThreadAssumption, FlushSig, OrderFacts
    DEF KillNobody, Goto, Handlers, Bound, Types, TypePlace, TypeMasks, Slot, Empty, Thread,
        Actor, Places, main, place
<1>5. ASSUME NEW a \in Actor, Raise(a) PROVE Handlers'
  BY <1>5, ThreadAssumption, FlushSig, OrderFacts
    DEF Raise, Goto, Handlers, Bound, Types, TypePlace, TypeMasks, Slot, Empty, Thread, Actor,
        Places, main, place
<1>6. ASSUME NEW a \in Actor, Completed(a) PROVE Handlers'
  BY <1>6, ThreadAssumption, FlushSig, OrderFacts
    DEF Completed, AfterFlush, Goto, Handlers, Bound, Types, TypePlace, TypeMasks, Slot, Empty,
        Thread, Actor, Places, main, place
<1>7. ASSUME NEW new \in SUBSET Maskable, Sigprocmask(new) PROVE Handlers'
  BY <1>7, ThreadAssumption, FlushSig, OrderFacts, DispatchMoves
    DEF Sigprocmask, Moved, Goto, Handlers, Bound, Types, TypePlace, TypeMasks, Slot, Empty,
        Thread, Actor, Places, main, place
<1>8. ASSUME NEW new \in SUBSET Maskable, Sigsuspend(new) PROVE Handlers'
  BY <1>8, ThreadAssumption, FlushSig, OrderFacts, DispatchMoves
    DEF Sigsuspend, Moved, Goto, Handlers, Bound, Types, TypePlace, TypeMasks, Slot, Empty,
        Thread, Actor, Places, main, place
<1>9. ASSUME Proceed PROVE Handlers'
  BY <1>9, ThreadAssumption, FlushSig, OrderFacts
    DEF Proceed, Goto, Handlers, Bound, Types, TypePlace, TypeMasks, Slot, Empty, Thread, Actor,
        Places, main, place
<1>10. ASSUME SetMask PROVE Handlers'
  BY <1>10, ThreadAssumption, FlushSig, OrderFacts, MaskMoves
    DEF SetMask, Moved, Goto, Handlers, Bound, Types, TypePlace, TypeMasks, Slot, Empty, Thread,
        Actor, Places, main, place
<1>11. ASSUME Suspend PROVE Handlers'
  BY <1>11, ThreadAssumption, FlushSig, OrderFacts, MaskMoves
    DEF Suspend, Moved, Goto, Handlers, Bound, Types, TypePlace, TypeMasks, Slot, Empty, Thread,
        Actor, Places, main, place
<1>12. ASSUME Suspended PROVE Handlers'
  BY <1>12, ThreadAssumption, FlushSig, OrderFacts
    DEF Suspended, Goto, Handlers, Bound, Types, TypePlace, TypeMasks, Slot, Empty, Thread,
        Actor, Places, main, place
<1>13. ASSUME Dispatch PROVE Handlers'
  BY <1>13, ThreadAssumption, FlushSig, OrderFacts, MaskMoves
    DEF Dispatch, Moved, Goto, Handlers, Bound, Types, TypePlace, TypeMasks, Slot, Empty,
        Thread, Actor, Places, main, place
<1>14. ASSUME Enter PROVE Handlers'
  BY <1>14, ThreadAssumption, FlushSig, OrderFacts
    DEF Enter, Goto, Handlers, Bound, Types, TypePlace, TypeMasks, Slot, Empty, Thread, Actor,
        Places, main, place
<1>15. ASSUME Resume PROVE Handlers'
  BY <1>15, ThreadAssumption, FlushSig, OrderFacts
    DEF Resume, Goto, Handlers, Bound, Types, TypePlace, TypeMasks, Slot, Empty, Thread, Actor,
        Places, main, place
<1>16. ASSUME HandlerReturn PROVE Handlers'
  BY <1>16, ThreadAssumption, FlushSig, OrderFacts, MaskMoves
    DEF HandlerReturn, Moved, Goto, Handlers, Bound, Types, TypePlace, TypeMasks, Slot, Empty,
        Thread, Actor, Places, main, place
<1>17. ASSUME Return PROVE Handlers'
  <2>1. stack # <<>>
    BY <1>17 DEF Return, Handlers, Bound
  <2>2. Head(stack).back \in Backs
    BY <2>1, StackTop DEF Types
  <2>3. pc' = [pc EXCEPT ![Main] = Head(stack).back]
    BY <1>17 DEF Return, Goto
  <2>4. ~Bound("enter")' /\ ~Bound("return")'
    BY <2>2, <2>3 DEF Bound, Types, TypePlace, Thread, Actor, Backs
  <2> QED BY <2>4 DEF Handlers
<1>18. ASSUME HandleUser PROVE Handlers'
  BY <1>18, ThreadAssumption, FlushSig, OrderFacts
    DEF HandleUser, SetUp, Goto, Handlers, Bound, Types, TypePlace, TypeMasks, Slot, Empty,
        Thread, Actor, Places, main, place
<1>19. ASSUME HandleStop PROVE Handlers'
  BY <1>19, ThreadAssumption, FlushSig, OrderFacts, CurSig
    DEF HandleStop, SetUp, Cleared, Goto, Handlers, Bound, Types, TypePlace, TypeMasks, Slot,
        Empty, Thread, Actor, Places, main, place
<1> QED
  BY <1>1, <1>2, <1>3, <1>4, <1>5, <1>6, <1>7, <1>8, <1>9, <1>10, <1>11, <1>12, <1>13, <1>14,
     <1>15, <1>16, <1>17, <1>18, <1>19, FrameHandlers

\* A signal in the hands of wait_sig, one in sigsave, and the account of one
InHand(u) == IF waitsig.at \in {"blocked", "handle"} /\ Cur = u THEN 1 ELSE 0
InSlot(u) == IF sigsave.sig = u THEN 1 ELSE 0
Kept(u) == sent[u] = local[u] + shared[u] + run[u] + InHand(u) + InSlot(u)

\* A signal with a handler has a place in the arrays and is none of the special ones.
LEMMA UserFacts ==
  ASSUME NEW u \in User
  PROVE  u \in Sig /\ u # "FLUSH" /\ u # "STOP" /\ u # "CONT" /\ u # None
BY OrderFacts

\* After a signal wait_sig has none in hand.
LEMMA OnwardNotInHand ==
  ASSUME waitsig \in WaitSig, NEW failed \in BOOLEAN, NEW x \in Nat, waitsig' = Onward(failed, x), NEW u
  PROVE  InHand(u)' = 0
BY OnwardFacts DEF InHand

\* The steps that NoSignalLost depends on
LEMMA FrameLost ==
  ASSUME [Next]_vars
  PROVE  \/ UNCHANGED <<local, shared, sent, run, waitsig, sigsave>>
         \/ \E a \in Actor, s \in Sig : SigSend(a, s)
         \/ \E a \in Raiser : Kill(a)
         \/ \E new \in SUBSET Maskable : Sigprocmask(new)
         \/ \E new \in SUBSET Maskable : Sigsuspend(new)
         \/ SetMask
         \/ Suspend
         \/ Suspended
         \/ Dispatch
         \/ Enter
         \/ HandlerReturn
         \/ Wake
         \/ ScanNext
         \/ Take
         \/ PutBack
         \/ TakeFlush
         \/ HandleUser
         \/ HandleFails
         \/ HandleStop
         \/ HandleCont
         \/ Out
<1>1. ASSUME NEW a \in Actor, KillNobody(a)
      PROVE  UNCHANGED <<local, shared, sent, run, waitsig, sigsave>>
  BY <1>1 DEF KillNobody, arrays, flags, stop, main, place
<1>2. ASSUME NEW a \in Actor, Raise(a)
      PROVE  UNCHANGED <<local, shared, sent, run, waitsig, sigsave>>
  BY <1>2 DEF Raise, arrays, flags, stop, main, place
<1>3. ASSUME NEW a \in Actor, Completed(a)
      PROVE  UNCHANGED <<local, shared, sent, run, waitsig, sigsave>>
  BY <1>3 DEF Completed, arrays, flags, stop, main, place
<1>4. ASSUME Proceed PROVE UNCHANGED <<local, shared, sent, run, waitsig, sigsave>>
  BY <1>4 DEF Proceed, arrays, flags, stop, main, place
<1>5. ASSUME Resume PROVE UNCHANGED <<local, shared, sent, run, waitsig, sigsave>>
  BY <1>5 DEF Resume, arrays, flags, stop, main, place
<1>6. ASSUME Return PROVE UNCHANGED <<local, shared, sent, run, waitsig, sigsave>>
  BY <1>6 DEF Return, arrays, flags, stop, main, place
<1> QED
  BY <1>1, <1>2, <1>3, <1>4, <1>5, <1>6
    DEF Next, SendStep, HandlerStep, WaitSigStep, vars

\* Every step that moves a signal moves it once.
LEMMA LostStep ==
  Types /\ Places /\ Handlers /\ FlushLocal /\ NoSignalLost /\ [Next]_vars => NoSignalLost'
<1> SUFFICES ASSUME Types, Places, Handlers, FlushLocal, NEW u \in User, Kept(u), [Next]_vars
             PROVE  Kept(u)'
  BY DEF NoSignalLost, Kept, InHand, InSlot
<1>1. ASSUME UNCHANGED <<local, shared, sent, run, waitsig, sigsave>> PROVE Kept(u)'
  BY <1>1 DEF Kept, InHand, InSlot, Cur, Types
<1>2. ASSUME NEW a \in Actor, NEW s \in Sig, SigSend(a, s) PROVE Kept(u)'
  <2>1. local'[u] + shared'[u] = local[u] + shared[u] + One(s = u)
    <3>1. CASE a \in Foreign
      BY <1>2, <3>1, UserFacts DEF SigSend, Types, TypeArrays, One
    <3>2. CASE a \notin Foreign
      BY <1>2, <3>2, UserFacts DEF SigSend, Types, TypeArrays, One
    <3> QED BY <3>1, <3>2
  <2>2. sent'[u] = sent[u] + One(s = u)
    BY <1>2, UserFacts DEF SigSend, Types, TypeGhosts, One
  <2>3. UNCHANGED <<run, waitsig, sigsave>> /\ local'[u] \in Nat /\ shared'[u] \in Nat
    BY <1>2, TypeArraysStep, UserFacts DEF SigSend, TypeArrays
  <2>4. InHand(u)' = InHand(u) /\ InSlot(u)' = InSlot(u)
    BY <2>3 DEF InHand, InSlot, Cur
  <2> QED
    BY <2>1, <2>2, <2>3, <2>4, UserFacts
    DEF Kept, Types, TypeArrays, TypeGhosts, InHand, InSlot, One
<1>3. ASSUME NEW a \in Raiser, Kill(a) PROVE Kept(u)'
  <2>1. Moved(a, "kill") /\ UNCHANGED <<shared, sent, run, waitsig, sigsave>>
    BY <1>3, DispatchMoves DEF Kill, arrays
  <2>2. local'[u] = local[u]
    BY <2>1, UserFacts DEF Moved, Types, TypeArrays
  <2> QED BY <2>1, <2>2 DEF Kept, InHand, InSlot, Cur
<1>4. ASSUME NEW new \in SUBSET Maskable, Sigprocmask(new) PROVE Kept(u)'
  <2>1. Moved(Main, "setmask") /\ UNCHANGED <<shared, sent, run, waitsig, sigsave>>
    BY <1>4, DispatchMoves DEF Sigprocmask, arrays
  <2>2. local'[u] = local[u]
    BY <2>1, UserFacts DEF Moved, Types, TypeArrays
  <2> QED BY <2>1, <2>2 DEF Kept, InHand, InSlot, Cur
<1>5. ASSUME NEW new \in SUBSET Maskable, Sigsuspend(new) PROVE Kept(u)'
  <2>1. Moved(Main, "suspend") /\ UNCHANGED <<shared, sent, run, waitsig, sigsave>>
    BY <1>5, DispatchMoves DEF Sigsuspend, arrays
  <2>2. local'[u] = local[u]
    BY <2>1, UserFacts DEF Moved, Types, TypeArrays
  <2> QED BY <2>1, <2>2 DEF Kept, InHand, InSlot, Cur
<1>6. ASSUME SetMask PROVE Kept(u)'
  <2>1. Moved(Main, "run") /\ UNCHANGED <<shared, sent, run, waitsig, sigsave>>
    BY <1>6, MaskMoves DEF SetMask, arrays
  <2>2. local'[u] = local[u]
    BY <2>1, UserFacts DEF Moved, Types, TypeArrays
  <2> QED BY <2>1, <2>2 DEF Kept, InHand, InSlot, Cur
<1>7. ASSUME Suspend PROVE Kept(u)'
  <2>1. Moved(Main, "suspended") /\ UNCHANGED <<shared, sent, run, waitsig, sigsave>>
    BY <1>7, MaskMoves DEF Suspend, arrays
  <2>2. local'[u] = local[u]
    BY <2>1, UserFacts DEF Moved, Types, TypeArrays
  <2> QED BY <2>1, <2>2 DEF Kept, InHand, InSlot, Cur
<1>8. ASSUME Suspended PROVE Kept(u)'
  BY <1>8, UserFacts, CurSig
    DEF Suspended, Goto, Kept, InHand, InSlot, Cur, Types, TypeArrays, TypeGhosts, WaitSig,
        TypeMasks, Slot, Empty, arrays
<1>9. ASSUME Dispatch PROVE Kept(u)'
  <2>1. Moved(Main, "enter") /\ UNCHANGED <<shared, sent, run, waitsig, sigsave>>
    BY <1>9, MaskMoves DEF Dispatch, arrays
  <2>2. local'[u] = local[u]
    BY <2>1, UserFacts DEF Moved, Types, TypeArrays
  <2> QED BY <2>1, <2>2 DEF Kept, InHand, InSlot, Cur
<1>10. ASSUME Enter PROVE Kept(u)'
  BY <1>10, UserFacts, CurSig
    DEF Enter, Goto, Kept, InHand, InSlot, Cur, Types, TypeArrays, TypeGhosts, WaitSig,
        TypeMasks, Slot, Empty, arrays
<1>11. ASSUME HandlerReturn PROVE Kept(u)'
  <2>1. Moved(Main, "return") /\ UNCHANGED <<shared, sent, run, waitsig, sigsave>>
    BY <1>11, MaskMoves DEF HandlerReturn, arrays
  <2>2. local'[u] = local[u]
    BY <2>1, UserFacts DEF Moved, Types, TypeArrays
  <2> QED BY <2>1, <2>2 DEF Kept, InHand, InSlot, Cur
<1>12. ASSUME Wake PROVE Kept(u)'
  BY <1>12, UserFacts, CurSig
    DEF Wake, Goto, Kept, InHand, InSlot, Cur, Types, TypeArrays, TypeGhosts, WaitSig,
        TypeMasks, Slot, Empty, arrays
<1>13. ASSUME ScanNext PROVE Kept(u)'
  BY <1>13, UserFacts, CurSig
    DEF ScanNext, Count, Goto, Kept, InHand, InSlot, Cur, Types, TypeArrays, TypeGhosts,
        WaitSig, TypeMasks, Slot, Empty, arrays
<1>14. ASSUME Take PROVE Kept(u)'
  <2>1. local'[u] + shared'[u] = local[u] + shared[u] - One(Cur = u)
    <3>1. CASE waitsig.rc = "nosync"
      BY <1>14, <3>1, UserFacts DEF Take, Types, TypeArrays, One
    <3>2. CASE waitsig.rc # "nosync"
      BY <1>14, <3>2, UserFacts DEF Take, Types, TypeArrays, One
    <3> QED BY <3>1, <3>2
  <2>2. waitsig'.at \in {"blocked", "handle"} /\ waitsig'.cur = waitsig.cur
    BY <1>14 DEF Take, Types, WaitSig
  <2>3. InHand(u)' = One(Cur = u) /\ InHand(u) = 0
    BY <1>14, <2>2 DEF Take, InHand, Cur, One
  <2>4. UNCHANGED <<sent, run, sigsave>> /\ local'[u] \in Nat /\ shared'[u] \in Nat
    BY <1>14, TypeArraysStep, UserFacts DEF Take, TypeArrays
  <2>5. InSlot(u)' = InSlot(u)
    BY <2>4 DEF InSlot
  <2> QED
    BY <2>1, <2>3, <2>4, <2>5, UserFacts
    DEF Kept, Types, TypeArrays, TypeGhosts, InSlot, One
<1>15. ASSUME PutBack PROVE Kept(u)'
  <2>1. InHand(u)' = 0 /\ InHand(u) = One(Cur = u)
    BY <1>15, OnwardNotInHand DEF PutBack, Types, InHand, One
  <2>2. shared'[u] = shared[u] + One(Cur = u)
    BY <1>15, UserFacts DEF PutBack, Types, TypeArrays, One
  <2>3. UNCHANGED <<local, sent, run, sigsave>>
    BY <1>15 DEF PutBack
  <2>4. InSlot(u)' = InSlot(u)
    BY <2>3 DEF InSlot
  <2> QED
    BY <2>1, <2>2, <2>3, <2>4, UserFacts
    DEF Kept, Types, TypeArrays, TypeGhosts, InSlot, One
<1>16. ASSUME TakeFlush PROVE Kept(u)'
  <2>1. Count(Cur) - 1 \in Nat
    BY <1>16, CurSig DEF TakeFlush, Count, Types, TypeArrays
  <2>2. waitsig' = [waitsig EXCEPT !.at = "idle", !.cur = 1, !.more = FALSE] => waitsig'.at = "idle"
    BY DEF Types, WaitSig
  <2>3. InHand(u)' = 0 /\ InHand(u) = 0
    BY <1>16, <2>1, <2>2, OnwardNotInHand DEF TakeFlush, Types, InHand
  <2>4. UNCHANGED <<shared, sent, run, sigsave>> /\ local'[u] = local[u]
    BY <1>16, UserFacts DEF TakeFlush, Types, TypeArrays
  <2> QED BY <2>3, <2>4 DEF Kept, InSlot
<1>17. ASSUME HandleUser PROVE Kept(u)'
  <2>1. waitsig.x \in Nat
    BY DEF Types, WaitSig
  <2>2. InHand(u)' = 0 /\ InHand(u) = One(Cur = u)
    BY <1>17, <2>1, OnwardNotInHand DEF HandleUser, Types, InHand, One
  <2>3. InSlot(u) = 0 /\ InSlot(u)' = One(Cur = u)
    BY <1>17, UserFacts DEF HandleUser, SetUp, CanSetUp, InSlot, One
  <2>4. UNCHANGED <<local, shared, sent, run>>
    BY <1>17 DEF HandleUser, arrays
  <2> QED
    BY <2>2, <2>3, <2>4, UserFacts
    DEF Kept, Types, TypeArrays, TypeGhosts, One
<1>18. ASSUME HandleFails PROVE Kept(u)'
  <2>1. InHand(u)' = 0 /\ InHand(u) = One(Cur = u)
    BY <1>18, OnwardNotInHand DEF HandleFails, Types, InHand, One
  <2>2. shared'[u] = shared[u] + One(Cur = u)
    BY <1>18, UserFacts DEF HandleFails, Cleared, Types, TypeArrays, One
  <2>3. UNCHANGED <<sent, run, sigsave>> /\ local'[u] = local[u]
    BY <1>18, UserFacts DEF HandleFails, Cleared
  <2>4. InSlot(u)' = InSlot(u)
    BY <2>3 DEF InSlot
  <2> QED
    BY <2>1, <2>2, <2>3, <2>4, UserFacts
    DEF Kept, Types, TypeArrays, TypeGhosts, InSlot, One
<1>19. ASSUME HandleStop PROVE Kept(u)'
  <2>1. waitsig.x \in Nat
    BY DEF Types, WaitSig
  <2>2. InHand(u)' = 0 /\ InHand(u) = 0
    BY <1>19, <2>1, OnwardNotInHand, UserFacts DEF HandleStop, Types, InHand
  <2>3. InSlot(u)' = InSlot(u)
    BY <1>19, UserFacts DEF HandleStop, SetUp, CanSetUp, InSlot
  <2>4. UNCHANGED <<sent, run>> /\ local'[u] = local[u] /\ shared'[u] = shared[u]
    BY <1>19, UserFacts DEF HandleStop, Cleared
  <2> QED BY <2>2, <2>3, <2>4 DEF Kept
<1>20. ASSUME HandleCont PROVE Kept(u)'
  <2>1. waitsig.x \in Nat
    BY DEF Types, WaitSig
  <2>2. InHand(u)' = 0 /\ InHand(u) = 0
    BY <1>20, <2>1, OnwardNotInHand, UserFacts DEF HandleCont, Types, InHand
  <2>3. InSlot(u)' = InSlot(u)
    BY <1>20, UserFacts DEF HandleCont, InSlot
  <2>4. UNCHANGED <<sent, run>> /\ local'[u] = local[u] /\ shared'[u] = shared[u]
    BY <1>20, UserFacts DEF HandleCont, Cleared
  <2> QED BY <2>2, <2>3, <2>4 DEF Kept
<1>21. ASSUME Out PROVE Kept(u)'
  BY <1>21, UserFacts, CurSig
    DEF Out, Goto, Kept, InHand, InSlot, Cur, Types, TypeArrays, TypeGhosts, WaitSig, TypeMasks,
        Slot, Empty, arrays
<1> QED
  BY <1>1, <1>2, <1>3, <1>4, <1>5, <1>6, <1>7, <1>8, <1>9, <1>10, <1>11, <1>12, <1>13, <1>14,
     <1>15, <1>16, <1>17, <1>18, <1>19, <1>20, <1>21, FrameLost

\* The steps that the account of the main thread depends on
LEMMA FrameOwed ==
  ASSUME [Next]_vars
  PROVE  \/ UNCHANGED <<complete, catch, flush, waitsig, pc>>
         \/ \E a \in Actor, s \in Sig : SigSend(a, s)
         \/ \E a \in Raiser : Kill(a)
         \/ \E a \in Actor : KillNobody(a)
         \/ \E a \in Actor : Raise(a)
         \/ \E a \in Actor : Completed(a)
         \/ \E new \in SUBSET Maskable : Sigprocmask(new)
         \/ \E new \in SUBSET Maskable : Sigsuspend(new)
         \/ Proceed
         \/ SetMask
         \/ Suspend
         \/ Suspended
         \/ Dispatch
         \/ Enter
         \/ Resume
         \/ HandlerReturn
         \/ Return
         \/ Wake
         \/ ScanNext
         \/ Take
         \/ PutBack
         \/ TakeFlush
         \/ HandleUser
         \/ HandleFails
         \/ HandleStop
         \/ HandleCont
         \/ Out
<1> QED
  BY
    DEF Next, SendStep, HandlerStep, WaitSigStep, vars

\* Every step keeps the account of the main thread: what it takes from one place it puts in
\* another, and a completion that is signalled has been waited for.
LEMMA OwedMainStep ==
  Types /\ Places /\ Handlers /\ FlushLocal /\ OwedMain /\ [Next]_vars => OwedMain'
<1> SUFFICES ASSUME Types, Places, Handlers, FlushLocal, OwedMain, [Next]_vars PROVE OwedMain'
  OBVIOUS
<1>1. ASSUME UNCHANGED <<complete, catch, flush, waitsig, pc>> PROVE OwedMain'
  BY <1>1 DEF OwedMain, One, Busy, Types
<1>2. ASSUME NEW a \in Actor, NEW s \in Sig, SigSend(a, s) PROVE OwedMain'
  BY <1>2, OnwardFacts, CurSig, ThreadAssumption
    DEF SigSend, Goto, OwedMain, One, Busy, Types, TypeArrays, TypeCatch, TypeComplete, WaitSig,
        TypePlace, Places, Backs, Nexts, Thread, Actor, flags, place
<1>3. ASSUME NEW a \in Raiser, Kill(a) PROVE OwedMain'
  <2>1. Moved(a, "kill") /\ UNCHANGED <<complete, catch, flush, waitsig>> /\ pc[a] # "complete"
    BY <1>3, DispatchMoves DEF Kill, Free, flags
  <2>2. (pc'[Main] = "complete") <=> (pc[Main] = "complete")
    BY <2>1 DEF Moved, Types, TypePlace, Actor, Thread
  <2> QED BY <2>1, <2>2 DEF OwedMain, One, Busy
<1>4. ASSUME NEW a \in Actor, KillNobody(a) PROVE OwedMain'
  BY <1>4, OnwardFacts, CurSig, ThreadAssumption
    DEF KillNobody, Goto, OwedMain, One, Busy, Types, TypeArrays, TypeCatch, TypeComplete,
        WaitSig, TypePlace, Places, Backs, Nexts, Thread, Actor, flags, place
<1>5. ASSUME NEW a \in Actor, Raise(a) PROVE OwedMain'
  BY <1>5, OnwardFacts, CurSig, ThreadAssumption
    DEF Raise, Goto, OwedMain, One, Busy, Types, TypeArrays, TypeCatch, TypeComplete, WaitSig,
        TypePlace, Places, Backs, Nexts, Thread, Actor, flags, place
<1>6. ASSUME NEW a \in Actor, Completed(a) PROVE OwedMain'
  <2>1. UNCHANGED <<catch, flush, waitsig>>
    BY <1>6 DEF Completed, flags
  <2>2. CASE a = Main
    <3>1. complete.main = 1 /\ complete'.main = 0 /\ pc[Main] = "complete"
      BY <1>6, <2>2 DEF Completed, Types, TypeComplete
    <3>2. pc'[Main] # "complete"
      BY <1>6, <2>2 DEF Completed, AfterFlush, Goto, Types, TypePlace, Actor, Thread, Places, Nexts
    <3> QED BY <2>1, <3>1, <3>2 DEF OwedMain, One, Busy, Types, TypeCatch
  <2>3. CASE a # Main
    <3>1. complete'.main = complete.main
      BY <1>6, <2>3 DEF Completed, Types, TypeComplete
    <3>2. pc'[Main] = pc[Main]
      BY <1>6, <2>3 DEF Completed, Goto, Types, TypePlace, Actor, Thread
    <3> QED BY <2>1, <3>1, <3>2 DEF OwedMain, One, Busy
  <2> QED BY <2>2, <2>3
<1>7. ASSUME NEW new \in SUBSET Maskable, Sigprocmask(new) PROVE OwedMain'
  <2>1. /\ Moved(Main, "setmask") /\ UNCHANGED <<complete, catch, flush, waitsig>>
        /\ pc[Main] # "complete"
    BY <1>7, DispatchMoves DEF Sigprocmask, Free, flags
  <2>2. (pc'[Main] = "complete") <=> (pc[Main] = "complete")
    BY <2>1 DEF Moved, Types, TypePlace, Actor, Thread
  <2> QED BY <2>1, <2>2 DEF OwedMain, One, Busy
<1>8. ASSUME NEW new \in SUBSET Maskable, Sigsuspend(new) PROVE OwedMain'
  <2>1. /\ Moved(Main, "suspend") /\ UNCHANGED <<complete, catch, flush, waitsig>>
        /\ pc[Main] # "complete"
    BY <1>8, DispatchMoves DEF Sigsuspend, Free, flags
  <2>2. (pc'[Main] = "complete") <=> (pc[Main] = "complete")
    BY <2>1 DEF Moved, Types, TypePlace, Actor, Thread
  <2> QED BY <2>1, <2>2 DEF OwedMain, One, Busy
<1>9. ASSUME Proceed PROVE OwedMain'
  BY <1>9, OnwardFacts, CurSig, ThreadAssumption
    DEF Proceed, Goto, OwedMain, One, Busy, Types, TypeArrays, TypeCatch, TypeComplete, WaitSig,
        TypePlace, Places, Backs, Nexts, Thread, Actor, flags, place
<1>10. ASSUME SetMask PROVE OwedMain'
  <2>1. Moved(Main, "run") /\ UNCHANGED <<complete, catch, flush, waitsig>> /\ pc[Main] # "complete"
    BY <1>10, MaskMoves DEF SetMask, Free, flags
  <2>2. (pc'[Main] = "complete") <=> (pc[Main] = "complete")
    BY <2>1 DEF Moved, Types, TypePlace, Actor, Thread
  <2> QED BY <2>1, <2>2 DEF OwedMain, One, Busy
<1>11. ASSUME Suspend PROVE OwedMain'
  <2>1. /\ Moved(Main, "suspended") /\ UNCHANGED <<complete, catch, flush, waitsig>>
        /\ pc[Main] # "complete"
    BY <1>11, MaskMoves DEF Suspend, Free, flags
  <2>2. (pc'[Main] = "complete") <=> (pc[Main] = "complete")
    BY <2>1 DEF Moved, Types, TypePlace, Actor, Thread
  <2> QED BY <2>1, <2>2 DEF OwedMain, One, Busy
<1>12. ASSUME Suspended PROVE OwedMain'
  BY <1>12, OnwardFacts, CurSig, ThreadAssumption
    DEF Suspended, Goto, OwedMain, One, Busy, Types, TypeArrays, TypeCatch, TypeComplete,
        WaitSig, TypePlace, Places, Backs, Nexts, Thread, Actor, flags, place
<1>13. ASSUME Dispatch PROVE OwedMain'
  <2>1. /\ Moved(Main, "enter") /\ UNCHANGED <<complete, catch, flush, waitsig>>
        /\ pc[Main] # "complete"
    BY <1>13, MaskMoves DEF Dispatch, Free, flags
  <2>2. (pc'[Main] = "complete") <=> (pc[Main] = "complete")
    BY <2>1 DEF Moved, Types, TypePlace, Actor, Thread
  <2> QED BY <2>1, <2>2 DEF OwedMain, One, Busy
<1>14. ASSUME Enter PROVE OwedMain'
  <2>1. /\ UNCHANGED <<complete, catch, flush, waitsig>>
        /\ pc[Main] # "complete" /\ pc'[Main] # "complete"
    BY <1>14 DEF Enter, Goto, flags, Types, TypePlace, Actor, Thread
  <2> QED BY <2>1 DEF OwedMain, One, Busy
<1>15. ASSUME Resume PROVE OwedMain'
  BY <1>15, OnwardFacts, CurSig, ThreadAssumption
    DEF Resume, Goto, OwedMain, One, Busy, Types, TypeArrays, TypeCatch, TypeComplete, WaitSig,
        TypePlace, Places, Backs, Nexts, Thread, Actor, flags, place
<1>16. ASSUME HandlerReturn PROVE OwedMain'
  <2>1. /\ Moved(Main, "return") /\ UNCHANGED <<complete, catch, flush, waitsig>>
        /\ pc[Main] # "complete"
    BY <1>16, MaskMoves DEF HandlerReturn, Free, flags
  <2>2. (pc'[Main] = "complete") <=> (pc[Main] = "complete")
    BY <2>1 DEF Moved, Types, TypePlace, Actor, Thread
  <2> QED BY <2>1, <2>2 DEF OwedMain, One, Busy
<1>17. ASSUME Return PROVE OwedMain'
  BY <1>17, OnwardFacts, CurSig, ThreadAssumption, StackTop
    DEF Return, Goto, OwedMain, One, Busy, Types, TypeArrays, TypeCatch, TypeComplete, WaitSig,
        TypePlace, Places, Backs, Nexts, Thread, Actor, flags, place, Handlers, Bound
<1>18. ASSUME Wake PROVE OwedMain'
  <2>1. /\ UNCHANGED <<complete, flush, pc>> /\ catch' = [catch EXCEPT ![Choice] = @ - 1]
        /\ waitsig.at = "idle" /\ waitsig'.at = "scan" /\ waitsig'.rc = Choice
    BY <1>18 DEF Wake, place
  <2>2. catch'.main = catch.main - One(Choice = "main")
    BY <1>18, <2>1, ChoiceFacts DEF Types, TypeCatch, One, Wake
  <2> QED BY <2>1, <2>2 DEF OwedMain, One, Busy, Types, TypeCatch, TypeComplete
<1>19. ASSUME ScanNext PROVE OwedMain'
  BY <1>19, OnwardFacts, CurSig, ThreadAssumption
    DEF ScanNext, Count, Goto, OwedMain, One, Busy, Types, TypeArrays, TypeCatch, TypeComplete,
        WaitSig, TypePlace, Places, Backs, Nexts, Thread, Actor, flags, place
<1>20. ASSUME Take PROVE OwedMain'
  BY <1>20, OnwardFacts, CurSig, ThreadAssumption
    DEF Take, Count, Goto, OwedMain, One, Busy, Types, TypeArrays, TypeCatch, TypeComplete,
        WaitSig, TypePlace, Places, Backs, Nexts, Thread, Actor, flags, place
<1>21. ASSUME PutBack PROVE OwedMain'
  BY <1>21, OnwardFacts, CurSig, ThreadAssumption, ZenonT(30)
    DEF PutBack, Goto, OwedMain, One, Busy, Types, TypeArrays, TypeCatch, TypeComplete, WaitSig,
        TypePlace, Places, Backs, Nexts, Thread, Actor, flags, place
<1>22. ASSUME TakeFlush PROVE OwedMain'
  <2>1. Count(Cur) - 1 \in Nat
    BY <1>22, CurSig DEF TakeFlush, Count, Types, TypeArrays
  <2>2. UNCHANGED <<complete, pc>> /\ catch'.main = catch.main
    BY <1>22 DEF TakeFlush, place, Types, TypeCatch
  <2>3. CASE waitsig.rc = "main"
    <3>1. waitsig' = [waitsig EXCEPT !.at = "idle", !.cur = 1, !.more = FALSE] => waitsig'.at = "idle"
      BY DEF Types, WaitSig
    <3>2. flush' = TRUE /\ ~Busy("main")' /\ Busy("main")
      BY <1>22, <2>3, <3>1 DEF TakeFlush, Busy
    <3> QED BY <2>2, <3>2 DEF OwedMain, One, Types, TypeCatch, TypeComplete
  <2>4. CASE waitsig.rc # "main"
    <3>1. flush' = flush /\ ~Busy("main")' /\ ~Busy("main")
      BY <1>22, <2>1, <2>4, OnwardFacts DEF TakeFlush, Busy, Types
    <3> QED BY <2>2, <3>1 DEF OwedMain, One
  <2> QED BY <2>3, <2>4
<1>23. ASSUME HandleUser PROVE OwedMain'
  BY <1>23, OnwardFacts, CurSig, ThreadAssumption
    DEF HandleUser, SetUp, Goto, OwedMain, One, Busy, Types, TypeArrays, TypeCatch,
        TypeComplete, WaitSig, TypePlace, Places, Backs, Nexts, Thread, Actor, flags, place
<1>24. ASSUME HandleFails PROVE OwedMain'
  BY <1>24, OnwardFacts, CurSig, ThreadAssumption, ZenonT(30)
    DEF HandleFails, Cleared, Goto, OwedMain, One, Busy, Types, TypeArrays, TypeCatch,
        TypeComplete, WaitSig, TypePlace, Places, Backs, Nexts, Thread, Actor, flags, place
<1>25. ASSUME HandleStop PROVE OwedMain'
  BY <1>25, OnwardFacts, CurSig, ThreadAssumption
    DEF HandleStop, SetUp, Cleared, Goto, OwedMain, One, Busy, Types, TypeArrays, TypeCatch,
        TypeComplete, WaitSig, TypePlace, Places, Backs, Nexts, Thread, Actor, flags, place
<1>26. ASSUME HandleCont PROVE OwedMain'
  BY <1>26, OnwardFacts, CurSig, ThreadAssumption
    DEF HandleCont, Cleared, Goto, OwedMain, One, Busy, Types, TypeArrays, TypeCatch,
        TypeComplete, WaitSig, TypePlace, Places, Backs, Nexts, Thread, Actor, flags, place
<1>27. ASSUME Out PROVE OwedMain'
  BY <1>27, OnwardFacts, CurSig, ThreadAssumption
    DEF Out, Goto, OwedMain, One, Busy, Types, TypeArrays, TypeCatch, TypeComplete, WaitSig,
        TypePlace, Places, Backs, Nexts, Thread, Actor, flags, place
<1> QED
  BY <1>1, <1>2, <1>3, <1>4, <1>5, <1>6, <1>7, <1>8, <1>9, <1>10, <1>11, <1>12, <1>13, <1>14,
     <1>15, <1>16, <1>17, <1>18, <1>19, <1>20, <1>21, <1>22, <1>23, <1>24, <1>25, <1>26, <1>27,
     FrameOwed

\* The steps that Stopping depends on
LEMMA FrameStopping ==
  ASSUME [Next]_vars
  PROVE  \/ UNCHANGED <<sigsave, stopped, sigCONT, pc, frame>>
         \/ \E a \in Actor, s \in Sig : SigSend(a, s)
         \/ \E a \in Raiser : Kill(a)
         \/ \E a \in Actor : KillNobody(a)
         \/ \E a \in Actor : Raise(a)
         \/ \E a \in Actor : Completed(a)
         \/ \E new \in SUBSET Maskable : Sigprocmask(new)
         \/ \E new \in SUBSET Maskable : Sigsuspend(new)
         \/ Proceed
         \/ SetMask
         \/ Suspend
         \/ Suspended
         \/ Dispatch
         \/ Enter
         \/ Resume
         \/ HandlerReturn
         \/ Return
         \/ HandleUser
         \/ HandleStop
         \/ HandleCont
<1>1. ASSUME Wake PROVE UNCHANGED <<sigsave, stopped, sigCONT, pc, frame>>
  BY <1>1 DEF Wake, arrays, flags, stop, main, place
<1>2. ASSUME ScanNext PROVE UNCHANGED <<sigsave, stopped, sigCONT, pc, frame>>
  BY <1>2 DEF ScanNext, arrays, flags, stop, main, place
<1>3. ASSUME Take PROVE UNCHANGED <<sigsave, stopped, sigCONT, pc, frame>>
  BY <1>3 DEF Take, arrays, flags, stop, main, place
<1>4. ASSUME PutBack PROVE UNCHANGED <<sigsave, stopped, sigCONT, pc, frame>>
  BY <1>4 DEF PutBack, arrays, flags, stop, main, place
<1>5. ASSUME TakeFlush PROVE UNCHANGED <<sigsave, stopped, sigCONT, pc, frame>>
  BY <1>5 DEF TakeFlush, arrays, flags, stop, main, place
<1>6. ASSUME HandleFails PROVE UNCHANGED <<sigsave, stopped, sigCONT, pc, frame>>
  BY <1>6 DEF HandleFails, arrays, flags, stop, main, place
<1>7. ASSUME Out PROVE UNCHANGED <<sigsave, stopped, sigCONT, pc, frame>>
  BY <1>7 DEF Out, arrays, flags, stop, main, place
<1> QED
  BY <1>1, <1>2, <1>3, <1>4, <1>5, <1>6, <1>7
    DEF Next, SendStep, HandlerStep, WaitSigStep, vars

\* Nothing interrupts a stopped main thread, and SIGCONT takes back a stop only with its event.
LEMMA StoppingStep ==
  Types /\ Places /\ Handlers /\ FlushLocal /\ Stopping /\ [Next]_vars => Stopping'
<1> SUFFICES ASSUME Types, Places, Handlers, FlushLocal, Stopping, [Next]_vars PROVE Stopping'
  OBVIOUS
<1>1. ASSUME UNCHANGED <<sigsave, stopped, sigCONT, pc, frame>> PROVE Stopping'
  BY <1>1 DEF Stopping, NotLeftStopped, Types
<1>2. ASSUME NEW a \in Actor, NEW s \in Sig, SigSend(a, s) PROVE Stopping'
  BY <1>2, OrderFacts, CurSig, ThreadAssumption
    DEF SigSend, Goto, Stopping, NotLeftStopped, Types, TypeFlags, TypeMasks, Slot, Empty,
        TypePlace, Places, Backs, Nexts, Thread, Actor, CanSetUp, stop, place
<1>3. ASSUME NEW a \in Raiser, Kill(a) PROVE Stopping'
  BY <1>3, OrderFacts, CurSig, ThreadAssumption, DispatchMoves
    DEF Kill, Moved, Goto, Stopping, NotLeftStopped, Types, TypeFlags, TypeMasks, Slot, Empty,
        TypePlace, Places, Backs, Nexts, Thread, Actor, CanSetUp, stop, place, DispatchPending
<1>4. ASSUME NEW a \in Actor, KillNobody(a) PROVE Stopping'
  BY <1>4, OrderFacts, CurSig, ThreadAssumption
    DEF KillNobody, Goto, Stopping, NotLeftStopped, Types, TypeFlags, TypeMasks, Slot, Empty,
        TypePlace, Places, Backs, Nexts, Thread, Actor, CanSetUp, stop, place
<1>5. ASSUME NEW a \in Actor, Raise(a) PROVE Stopping'
  BY <1>5, OrderFacts, CurSig, ThreadAssumption
    DEF Raise, Goto, Stopping, NotLeftStopped, Types, TypeFlags, TypeMasks, Slot, Empty,
        TypePlace, Places, Backs, Nexts, Thread, Actor, CanSetUp, stop, place
<1>6. ASSUME NEW a \in Actor, Completed(a) PROVE Stopping'
  BY <1>6, OrderFacts, CurSig, ThreadAssumption
    DEF Completed, AfterFlush, Goto, Stopping, NotLeftStopped, Types, TypeFlags, TypeMasks,
        Slot, Empty, TypePlace, Places, Backs, Nexts, Thread, Actor, CanSetUp, stop, place
<1>7. ASSUME NEW new \in SUBSET Maskable, Sigprocmask(new) PROVE Stopping'
  BY <1>7, OrderFacts, CurSig, ThreadAssumption, DispatchMoves
    DEF Sigprocmask, Moved, Goto, Stopping, NotLeftStopped, Types, TypeFlags, TypeMasks, Slot,
        Empty, TypePlace, Places, Backs, Nexts, Thread, Actor, CanSetUp, stop, place,
        DispatchPending
<1>8. ASSUME NEW new \in SUBSET Maskable, Sigsuspend(new) PROVE Stopping'
  BY <1>8, OrderFacts, CurSig, ThreadAssumption, DispatchMoves
    DEF Sigsuspend, Moved, Goto, Stopping, NotLeftStopped, Types, TypeFlags, TypeMasks, Slot,
        Empty, TypePlace, Places, Backs, Nexts, Thread, Actor, CanSetUp, stop, place,
        DispatchPending
<1>9. ASSUME Proceed PROVE Stopping'
  BY <1>9, OrderFacts, CurSig, ThreadAssumption
    DEF Proceed, Goto, Stopping, NotLeftStopped, Types, TypeFlags, TypeMasks, Slot, Empty,
        TypePlace, Places, Backs, Nexts, Thread, Actor, CanSetUp, stop, place
<1>10. ASSUME SetMask PROVE Stopping'
  BY <1>10, OrderFacts, CurSig, ThreadAssumption, MaskMoves
    DEF SetMask, Moved, Goto, Stopping, NotLeftStopped, Types, TypeFlags, TypeMasks, Slot,
        Empty, TypePlace, Places, Backs, Nexts, Thread, Actor, CanSetUp, stop, place,
        SetProcessMask, DispatchPending
<1>11. ASSUME Suspend PROVE Stopping'
  BY <1>11, OrderFacts, CurSig, ThreadAssumption, MaskMoves
    DEF Suspend, Moved, Goto, Stopping, NotLeftStopped, Types, TypeFlags, TypeMasks, Slot,
        Empty, TypePlace, Places, Backs, Nexts, Thread, Actor, CanSetUp, stop, place,
        SetProcessMask, DispatchPending
<1>12. ASSUME Suspended PROVE Stopping'
  BY <1>12, OrderFacts, CurSig, ThreadAssumption
    DEF Suspended, Goto, Stopping, NotLeftStopped, Types, TypeFlags, TypeMasks, Slot, Empty,
        TypePlace, Places, Backs, Nexts, Thread, Actor, CanSetUp, stop, place
<1>13. ASSUME Dispatch PROVE Stopping'
  <2>1. UNCHANGED <<sigsave, stopped, sigCONT>> /\ pc[Main] \in {"run", "call", "return"}
    BY <1>13 DEF Dispatch, stop
  <2>2. (pc'[Main] = "raise") \/ (pc'[Main] = "enter" /\ ~frame')
    BY <1>13 DEF Dispatch, SetProcessMask, DispatchPending, Goto, Types, TypePlace, Actor, Thread
  <2> QED BY <2>1, <2>2 DEF Stopping, NotLeftStopped
<1>14. ASSUME Enter PROVE Stopping'
  <2>1. /\ sigsave'.sig = None /\ sigCONT' = sigCONT /\ frame' = frame /\ ~frame
    BY <1>14 DEF Enter, Empty, Stopping
  <2>2. None # "STOP"
    BY NoneAssumption
  <2>3. CASE sigsave.sig = "STOP" /\ ppid_handle
    <3>1. pc'[Main] = "stopped" /\ stopped' = stopped
      BY <1>14, <2>3 DEF Enter, Goto, Types, TypePlace, Actor, Thread, TypeFlags
    <3> QED BY <2>1, <2>2, <2>3, <3>1 DEF Stopping, NotLeftStopped
  <2>4. CASE ~(sigsave.sig = "STOP" /\ ppid_handle)
    <3>1. pc'[Main] = "run"
      BY <1>14, <2>4 DEF Enter, Goto, Types, TypePlace, Actor, Thread
    <3> QED BY <2>1, <2>2, <3>1 DEF Stopping, NotLeftStopped
  <2> QED BY <2>3, <2>4
<1>15. ASSUME Resume PROVE Stopping'
  <2>1. None # "STOP"
    BY NoneAssumption
  <2>2. /\ UNCHANGED <<sigsave, stopped, frame>> /\ sigsave.sig = None
        /\ pc[Main] = "stopped" /\ pc'[Main] = "run"
    BY <1>15 DEF Resume, Goto, Stopping, Types, TypePlace, Actor, Thread
  <2> QED BY <2>1, <2>2 DEF Stopping, NotLeftStopped
<1>16. ASSUME HandlerReturn PROVE Stopping'
  BY <1>16, OrderFacts, CurSig, ThreadAssumption, MaskMoves
    DEF HandlerReturn, Moved, Goto, Stopping, NotLeftStopped, Types, TypeFlags, TypeMasks, Slot,
        Empty, TypePlace, Places, Backs, Nexts, Thread, Actor, CanSetUp, stop, place,
        SetProcessMask, DispatchPending
<1>17. ASSUME Return PROVE Stopping'
  BY <1>17, OrderFacts, CurSig, ThreadAssumption, StackTop
    DEF Return, Goto, Stopping, NotLeftStopped, Types, TypeFlags, TypeMasks, Slot, Empty,
        TypePlace, Places, Backs, Nexts, Thread, Actor, CanSetUp, stop, place, Handlers, Bound
<1>18. ASSUME HandleUser PROVE Stopping'
  BY <1>18, OrderFacts, CurSig, ThreadAssumption
    DEF HandleUser, SetUp, Goto, Stopping, NotLeftStopped, Types, TypeFlags, TypeMasks, Slot,
        Empty, TypePlace, Places, Backs, Nexts, Thread, Actor, CanSetUp, stop, place
<1>19. ASSUME HandleStop PROVE Stopping'
  BY <1>19, OrderFacts, CurSig, ThreadAssumption
    DEF HandleStop, SetUp, Cleared, Goto, Stopping, NotLeftStopped, Types, TypeFlags, TypeMasks,
        Slot, Empty, TypePlace, Places, Backs, Nexts, Thread, Actor, CanSetUp, stop, place
<1>20. ASSUME HandleCont PROVE Stopping'
  BY <1>20, OrderFacts, CurSig, ThreadAssumption
    DEF HandleCont, Cleared, Goto, Stopping, NotLeftStopped, Types, TypeFlags, TypeMasks, Slot,
        Empty, TypePlace, Places, Backs, Nexts, Thread, Actor, CanSetUp, stop, place
<1> QED
  BY <1>1, <1>2, <1>3, <1>4, <1>5, <1>6, <1>7, <1>8, <1>9, <1>10, <1>11, <1>12, <1>13, <1>14,
     <1>15, <1>16, <1>17, <1>18, <1>19, <1>20, FrameStopping

\* The threads that wait can be counted.
LEMMA CompletingFinite == IsFiniteSet(Completing) /\ Cardinality(Completing) \in Nat
<1>1. IsFiniteSet(Thread)
  BY ThreadAssumption, FS_AddElement DEF Thread
<1>2. IsFiniteSet(Completing)
  BY <1>1, FS_Subset DEF Completing
<1> QED BY <1>2, FS_CardinalityType

\* A thread that neither starts nor ends waiting leaves the count of those who wait alone.
LEMMA StaysOut ==
  ASSUME Types, NEW a \in Actor, NEW step, pc' = [pc EXCEPT ![a] = step],
         a \notin Thread \ {Main} \/ (pc[a] # "complete" /\ step # "complete")
  PROVE  Completing' = Completing
BY DEF Completing, Types, TypePlace, Actor

\* A thread that starts waiting adds one,
LEMMA Joins ==
  ASSUME Types, NEW a \in Thread \ {Main}, pc' = [pc EXCEPT ![a] = "complete"], pc[a] # "complete"
  PROVE  Cardinality(Completing)' = Cardinality(Completing) + 1
<1>1. Completing' = Completing \cup {a} /\ a \notin Completing
  BY DEF Completing, Types, TypePlace, Actor
<1> QED BY <1>1, CompletingFinite, FS_AddElement

\* and one whose wait ends takes one off.
LEMMA Leaves ==
  ASSUME Types, NEW a \in Thread \ {Main}, NEW step, pc' = [pc EXCEPT ![a] = step],
         pc[a] = "complete", step # "complete"
  PROVE  Cardinality(Completing)' = Cardinality(Completing) - 1
<1>1. Completing' = Completing \ {a} /\ a \in Completing
  BY DEF Completing, Types, TypePlace, Actor
<1> QED BY <1>1, CompletingFinite, FS_RemoveElement

\* A step of wait_sig on the signal in hand leaves the account of the other threads alone.
LEMMA OnTheWay ==
  ASSUME OwedNonmain, UNCHANGED <<complete, pc>>, catch'.nonmain = catch.nonmain,
         Busy("nonmain")' = Busy("nonmain")
  PROVE  OwedNonmain'
<1>1. Completing' = Completing
  BY DEF Completing
<1>2. One(Busy("nonmain"))' = One(Busy("nonmain"))
  BY DEF One
<1> QED BY <1>1, <1>2 DEF OwedNonmain

\* The steps that the account of the other threads depends on
LEMMA FrameOwedNonmain ==
  ASSUME [Next]_vars
  PROVE  \/ UNCHANGED <<complete, catch, waitsig, pc>>
         \/ \E a \in Actor, s \in Sig : SigSend(a, s)
         \/ \E a \in Raiser : Kill(a)
         \/ \E a \in Actor : KillNobody(a)
         \/ \E a \in Actor : Raise(a)
         \/ \E a \in Actor : Completed(a)
         \/ \E new \in SUBSET Maskable : Sigprocmask(new)
         \/ \E new \in SUBSET Maskable : Sigsuspend(new)
         \/ Proceed
         \/ SetMask
         \/ Suspend
         \/ Suspended
         \/ Dispatch
         \/ Enter
         \/ Resume
         \/ HandlerReturn
         \/ Return
         \/ Wake
         \/ ScanNext
         \/ Take
         \/ PutBack
         \/ TakeFlush
         \/ HandleUser
         \/ HandleFails
         \/ HandleStop
         \/ HandleCont
         \/ Out
<1> QED
  BY
    DEF Next, SendStep, HandlerStep, WaitSigStep, vars

\* Every step keeps the account of the other threads.
LEMMA OwedNonmainStep ==
  Types /\ Places /\ Handlers /\ FlushLocal /\ OwedNonmain /\ [Next]_vars => OwedNonmain'
<1> SUFFICES ASSUME Types, Places, Handlers, FlushLocal, OwedNonmain, [Next]_vars PROVE OwedNonmain'
  OBVIOUS
<1>1. ASSUME UNCHANGED <<complete, catch, waitsig, pc>> PROVE OwedNonmain'
  BY <1>1 DEF OwedNonmain, One, Busy, Completing, Types
<1>2. ASSUME NEW a \in Actor, NEW s \in Sig, SigSend(a, s) PROVE OwedNonmain'
  <2>1. /\ UNCHANGED <<complete, catch, waitsig>>
        /\ \E step : pc' = [pc EXCEPT ![a] = step] /\ pc[a] # "complete" /\ step # "complete"
    BY <1>2 DEF SigSend, Goto, Free
  <2>2. Completing' = Completing
    BY <2>1, StaysOut, ThreadAssumption DEF Moved, Actor, Thread
  <2> QED BY <2>1, <2>2 DEF OwedNonmain, Busy
<1>3. ASSUME NEW a \in Raiser, Kill(a) PROVE OwedNonmain'
  <2>1. Moved(a, "kill") /\ UNCHANGED <<complete, catch, waitsig>> /\ pc[a] # "complete"
    BY <1>3, DispatchMoves DEF Kill, Goto, Free
  <2>2. Completing' = Completing
    BY <2>1, StaysOut, ThreadAssumption DEF Moved, Actor, Thread
  <2> QED BY <2>1, <2>2 DEF OwedNonmain, Busy
<1>4. ASSUME NEW a \in Actor, KillNobody(a) PROVE OwedNonmain'
  <2>1. /\ UNCHANGED <<complete, catch, waitsig>>
        /\ \E step : pc' = [pc EXCEPT ![a] = step] /\ pc[a] # "complete" /\ step # "complete"
    BY <1>4 DEF KillNobody, Goto, Free
  <2>2. Completing' = Completing
    BY <2>1, StaysOut, ThreadAssumption DEF Moved, Actor, Thread
  <2> QED BY <2>1, <2>2 DEF OwedNonmain, Busy
<1>5. ASSUME NEW a \in Actor, Raise(a) PROVE OwedNonmain'
  <2>1. /\ UNCHANGED <<complete, waitsig>> /\ pc[a] = "raise"
        /\ pc' = [pc EXCEPT ![a] = IF a \in Foreign THEN "run" ELSE "complete"]
    BY <1>5 DEF Raise, Goto
  <2>2. CASE a \in Thread \ {Main}
    <3>1. catch'.nonmain = catch.nonmain + 1 /\ pc' = [pc EXCEPT ![a] = "complete"]
      BY <1>5, <2>1, <2>2, ThreadAssumption DEF Raise, Types, TypeCatch, Thread
    <3>2. Cardinality(Completing)' = Cardinality(Completing) + 1
      BY <2>1, <2>2, <3>1, Joins
    <3> QED
      BY <2>1, <3>1, <3>2, CompletingFinite
      DEF OwedNonmain, Busy, One, Types, TypeCatch, TypeComplete
  <2>3. CASE a \notin Thread \ {Main}
    <3>1. catch'.nonmain = catch.nonmain
      BY <1>5, <2>3 DEF Raise, Types, TypeCatch, Thread, Actor
    <3>2. Completing' = Completing
      BY <2>1, <2>3, StaysOut
    <3> QED BY <2>1, <3>1, <3>2 DEF OwedNonmain, Busy
  <2> QED BY <2>2, <2>3
<1>6. ASSUME NEW a \in Actor, Completed(a) PROVE OwedNonmain'
  <2>1. /\ UNCHANGED <<catch, waitsig>> /\ pc[a] = "complete"
        /\ pc' = [pc EXCEPT ![a] = IF op[a] = "FLUSH" THEN AfterFlush(a) ELSE "run"]
    BY <1>6 DEF Completed, Goto
  <2>2. CASE a \in Thread \ {Main}
    <3>1. complete'.nonmain = complete.nonmain - 1 /\ complete.nonmain > 0
      BY <1>6, <2>2 DEF Completed, Types, TypeComplete
    <3>2. (IF op[a] = "FLUSH" THEN AfterFlush(a) ELSE "run") # "complete"
      BY <2>2 DEF AfterFlush, Places
    <3>3. Cardinality(Completing)' = Cardinality(Completing) - 1
      BY <2>1, <2>2, <3>2, Leaves
    <3> QED
      BY <2>1, <3>1, <3>3, CompletingFinite
      DEF OwedNonmain, Busy, One, Types, TypeCatch, TypeComplete
  <2>3. CASE a \notin Thread \ {Main}
    <3>1. a = Main
      BY <2>1, <2>3 DEF Places, Actor, Thread
    <3>2. complete'.nonmain = complete.nonmain
      BY <1>6, <3>1 DEF Completed, Types, TypeComplete
    <3>3. Completing' = Completing
      BY <2>1, <2>3, StaysOut
    <3> QED BY <2>1, <3>2, <3>3 DEF OwedNonmain, Busy
  <2> QED BY <2>2, <2>3
<1>7. ASSUME NEW new \in SUBSET Maskable, Sigprocmask(new) PROVE OwedNonmain'
  <2>1. Moved(Main, "setmask") /\ UNCHANGED <<complete, catch, waitsig>> /\ pc[Main] # "complete"
    BY <1>7, DispatchMoves DEF Sigprocmask, Goto, Free
  <2>2. Completing' = Completing
    BY <2>1, StaysOut, ThreadAssumption DEF Moved, Actor, Thread
  <2> QED BY <2>1, <2>2 DEF OwedNonmain, Busy
<1>8. ASSUME NEW new \in SUBSET Maskable, Sigsuspend(new) PROVE OwedNonmain'
  <2>1. Moved(Main, "suspend") /\ UNCHANGED <<complete, catch, waitsig>> /\ pc[Main] # "complete"
    BY <1>8, DispatchMoves DEF Sigsuspend, Goto, Free
  <2>2. Completing' = Completing
    BY <2>1, StaysOut, ThreadAssumption DEF Moved, Actor, Thread
  <2> QED BY <2>1, <2>2 DEF OwedNonmain, Busy
<1>9. ASSUME Proceed PROVE OwedNonmain'
  <2>1. /\ UNCHANGED <<complete, catch, waitsig>>
        /\ \E step : pc' = [pc EXCEPT ![Main] = step]
    BY <1>9 DEF Proceed, Goto, Free
  <2>2. Completing' = Completing
    BY <2>1, StaysOut, ThreadAssumption DEF Moved, Actor, Thread
  <2> QED BY <2>1, <2>2 DEF OwedNonmain, Busy
<1>10. ASSUME SetMask PROVE OwedNonmain'
  <2>1. Moved(Main, "run") /\ UNCHANGED <<complete, catch, waitsig>> /\ pc[Main] # "complete"
    BY <1>10, MaskMoves DEF SetMask, Goto, Free
  <2>2. Completing' = Completing
    BY <2>1, StaysOut, ThreadAssumption DEF Moved, Actor, Thread
  <2> QED BY <2>1, <2>2 DEF OwedNonmain, Busy
<1>11. ASSUME Suspend PROVE OwedNonmain'
  <2>1. Moved(Main, "suspended") /\ UNCHANGED <<complete, catch, waitsig>> /\ pc[Main] # "complete"
    BY <1>11, MaskMoves DEF Suspend, Goto, Free
  <2>2. Completing' = Completing
    BY <2>1, StaysOut, ThreadAssumption DEF Moved, Actor, Thread
  <2> QED BY <2>1, <2>2 DEF OwedNonmain, Busy
<1>12. ASSUME Suspended PROVE OwedNonmain'
  <2>1. /\ UNCHANGED <<complete, catch, waitsig>>
        /\ \E step : pc' = [pc EXCEPT ![Main] = step]
    BY <1>12 DEF Suspended, Goto, Free
  <2>2. Completing' = Completing
    BY <2>1, StaysOut, ThreadAssumption DEF Moved, Actor, Thread
  <2> QED BY <2>1, <2>2 DEF OwedNonmain, Busy
<1>13. ASSUME Dispatch PROVE OwedNonmain'
  <2>1. Moved(Main, "enter") /\ UNCHANGED <<complete, catch, waitsig>> /\ pc[Main] # "complete"
    BY <1>13, MaskMoves DEF Dispatch, Goto, Free
  <2>2. Completing' = Completing
    BY <2>1, StaysOut, ThreadAssumption DEF Moved, Actor, Thread
  <2> QED BY <2>1, <2>2 DEF OwedNonmain, Busy
<1>14. ASSUME Enter PROVE OwedNonmain'
  <2>1. /\ UNCHANGED <<complete, catch, waitsig>>
        /\ \E step : pc' = [pc EXCEPT ![Main] = step]
    BY <1>14 DEF Enter, Goto, Free
  <2>2. Completing' = Completing
    BY <2>1, StaysOut, ThreadAssumption DEF Moved, Actor, Thread
  <2> QED BY <2>1, <2>2 DEF OwedNonmain, Busy
<1>15. ASSUME Resume PROVE OwedNonmain'
  <2>1. /\ UNCHANGED <<complete, catch, waitsig>>
        /\ \E step : pc' = [pc EXCEPT ![Main] = step]
    BY <1>15 DEF Resume, Goto, Free
  <2>2. Completing' = Completing
    BY <2>1, StaysOut, ThreadAssumption DEF Moved, Actor, Thread
  <2> QED BY <2>1, <2>2 DEF OwedNonmain, Busy
<1>16. ASSUME HandlerReturn PROVE OwedNonmain'
  <2>1. Moved(Main, "return") /\ UNCHANGED <<complete, catch, waitsig>> /\ pc[Main] # "complete"
    BY <1>16, MaskMoves DEF HandlerReturn, Goto, Free
  <2>2. Completing' = Completing
    BY <2>1, StaysOut, ThreadAssumption DEF Moved, Actor, Thread
  <2> QED BY <2>1, <2>2 DEF OwedNonmain, Busy
<1>17. ASSUME Return PROVE OwedNonmain'
  <2>1. /\ UNCHANGED <<complete, catch, waitsig>>
        /\ \E step : pc' = [pc EXCEPT ![Main] = step]
    BY <1>17 DEF Return, Goto, Free
  <2>2. Completing' = Completing
    BY <2>1, StaysOut, ThreadAssumption DEF Moved, Actor, Thread
  <2> QED BY <2>1, <2>2 DEF OwedNonmain, Busy
<1>18. ASSUME Wake PROVE OwedNonmain'
  <2>1. /\ UNCHANGED <<complete, pc>> /\ catch' = [catch EXCEPT ![Choice] = @ - 1]
        /\ waitsig.at = "idle" /\ waitsig'.at = "scan" /\ waitsig'.rc = Choice
    BY <1>18 DEF Wake, place
  <2>2. catch'.nonmain = catch.nonmain - One(Choice = "nonmain")
    BY <1>18, <2>1, ChoiceFacts DEF Types, TypeCatch, One, Wake
  <2>3. Completing' = Completing
    BY <2>1 DEF Completing
  <2> QED
    BY <2>1, <2>2, <2>3, CompletingFinite
    DEF OwedNonmain, One, Busy, Types, TypeCatch, TypeComplete
<1>19. ASSUME ScanNext PROVE OwedNonmain'
  BY <1>19, OnwardFacts, CurSig
    DEF ScanNext, Count, Goto, OwedNonmain, One, Busy, Completing, Types, TypeArrays, TypeCatch,
        TypeComplete, WaitSig, place
<1>20. ASSUME Take PROVE OwedNonmain'
  BY <1>20, OnwardFacts, CurSig
    DEF Take, Count, Goto, OwedNonmain, One, Busy, Completing, Types, TypeArrays, TypeCatch,
        TypeComplete, WaitSig, place
<1>21. ASSUME PutBack PROVE OwedNonmain'
  <2>1. UNCHANGED <<complete, pc>> /\ catch'.nonmain = catch.nonmain
    BY <1>21 DEF PutBack, place, Types, TypeCatch
  <2>2. waitsig.at = "blocked" /\ waitsig' = Onward(FALSE, 0)
    BY <1>21 DEF PutBack
  <2>3. waitsig'.at # "idle" /\ waitsig'.rc = waitsig.rc
    <3>1. 0 \in Nat
      BY DEF Types, WaitSig
    <3> QED BY <2>2, <3>1, OnwardFacts DEF Types
  <2>4. Busy("nonmain")' = Busy("nonmain")
    BY <2>2, <2>3 DEF Busy
  <2> QED BY <2>1, <2>4, OnTheWay
<1>22. ASSUME TakeFlush PROVE OwedNonmain'
  <2>1. Count(Cur) - 1 \in Nat
    BY <1>22, CurSig DEF TakeFlush, Count, Types, TypeArrays
  <2>2. UNCHANGED <<complete, pc>> /\ catch'.nonmain = catch.nonmain
    BY <1>22 DEF TakeFlush, place, Types, TypeCatch
  <2>3. CASE waitsig.rc = "main"
    <3>1. waitsig' = [waitsig EXCEPT !.at = "idle", !.cur = 1, !.more = FALSE] => waitsig'.at = "idle"
      BY DEF Types, WaitSig
    <3>2. ~Busy("nonmain")' /\ ~Busy("nonmain")
      BY <1>22, <2>3, <3>1 DEF TakeFlush, Busy
    <3>3. Busy("nonmain")' = Busy("nonmain")
      BY <3>2 DEF Busy
    <3> QED BY <2>2, <3>3, OnTheWay
  <2>4. CASE waitsig.rc # "main"
    <3>1. Busy("nonmain")' = Busy("nonmain")
      <4>1. Onward(FALSE, Count(Cur) - 1).rc = waitsig.rc /\ Onward(FALSE, Count(Cur) - 1).at # "idle"
        BY <2>1, OnwardFacts DEF Types
      <4> QED BY <1>22, <2>4, <4>1 DEF TakeFlush, Busy
    <3> QED BY <2>2, <3>1, OnTheWay
  <2> QED BY <2>3, <2>4
<1>23. ASSUME HandleUser PROVE OwedNonmain'
  <2>1. UNCHANGED <<complete, pc>> /\ catch'.nonmain = catch.nonmain
    BY <1>23 DEF HandleUser, place, Types, TypeCatch
  <2>2. waitsig.at = "handle" /\ waitsig' = Onward(FALSE, waitsig.x)
    BY <1>23 DEF HandleUser
  <2>3. waitsig'.at # "idle" /\ waitsig'.rc = waitsig.rc
    <3>1. waitsig.x \in Nat
      BY DEF Types, WaitSig
    <3> QED BY <2>2, <3>1, OnwardFacts DEF Types
  <2>4. Busy("nonmain")' = Busy("nonmain")
    BY <2>2, <2>3 DEF Busy
  <2> QED BY <2>1, <2>4, OnTheWay
<1>24. ASSUME HandleFails PROVE OwedNonmain'
  <2>1. UNCHANGED <<complete, pc>> /\ catch'.nonmain = catch.nonmain
    BY <1>24 DEF HandleFails, place, Types, TypeCatch
  <2>2. waitsig.at = "handle" /\ waitsig' = Onward(TRUE, 0)
    BY <1>24 DEF HandleFails
  <2>3. waitsig'.at # "idle" /\ waitsig'.rc = waitsig.rc
    <3>1. 0 \in Nat
      BY DEF Types, WaitSig
    <3> QED BY <2>2, <3>1, OnwardFacts DEF Types
  <2>4. Busy("nonmain")' = Busy("nonmain")
    BY <2>2, <2>3 DEF Busy
  <2> QED BY <2>1, <2>4, OnTheWay
<1>25. ASSUME HandleStop PROVE OwedNonmain'
  <2>1. UNCHANGED <<complete, pc>> /\ catch'.nonmain = catch.nonmain
    BY <1>25 DEF HandleStop, place, Types, TypeCatch
  <2>2. waitsig.at = "handle" /\ waitsig' = Onward(FALSE, waitsig.x)
    BY <1>25 DEF HandleStop
  <2>3. waitsig'.at # "idle" /\ waitsig'.rc = waitsig.rc
    <3>1. waitsig.x \in Nat
      BY DEF Types, WaitSig
    <3> QED BY <2>2, <3>1, OnwardFacts DEF Types
  <2>4. Busy("nonmain")' = Busy("nonmain")
    BY <2>2, <2>3 DEF Busy
  <2> QED BY <2>1, <2>4, OnTheWay
<1>26. ASSUME HandleCont PROVE OwedNonmain'
  <2>1. UNCHANGED <<complete, pc>> /\ catch'.nonmain = catch.nonmain
    BY <1>26 DEF HandleCont, place, Types, TypeCatch
  <2>2. waitsig.at = "handle" /\ waitsig' = Onward(FALSE, waitsig.x)
    BY <1>26 DEF HandleCont
  <2>3. waitsig'.at # "idle" /\ waitsig'.rc = waitsig.rc
    <3>1. waitsig.x \in Nat
      BY DEF Types, WaitSig
    <3> QED BY <2>2, <3>1, OnwardFacts DEF Types
  <2>4. Busy("nonmain")' = Busy("nonmain")
    BY <2>2, <2>3 DEF Busy
  <2> QED BY <2>1, <2>4, OnTheWay
<1>27. ASSUME Out PROVE OwedNonmain'
  <2>1. UNCHANGED <<catch, pc>> /\ waitsig.at = "out" /\ waitsig'.at = "idle" /\ waitsig'.rc = waitsig.rc
    BY <1>27 DEF Out, place, Types, WaitSig
  <2>2. complete'.nonmain = complete.nonmain + One(waitsig.rc = "nonmain")
    BY <1>27 DEF Out, Types, TypeComplete, One
  <2>3. Completing' = Completing
    BY <2>1 DEF Completing
  <2> QED
    BY <2>1, <2>2, <2>3, CompletingFinite
    DEF OwedNonmain, One, Busy, Types, TypeCatch, TypeComplete
<1> QED
  BY <1>1, <1>2, <1>3, <1>4, <1>5, <1>6, <1>7, <1>8, <1>9, <1>10, <1>11, <1>12, <1>13, <1>14,
     <1>15, <1>16, <1>17, <1>18, <1>19, <1>20, <1>21, <1>22, <1>23, <1>24, <1>25, <1>26, <1>27,
     FrameOwedNonmain

\* A thread that sends a signal has noted which.
OpSent == pc[Main] \in {"raise", "complete"} => op[Main] \in Sig

\* With no other thread that sends, nothing is under way for one.
LEMMA Alone ==
  ASSUME Raiser \subseteq {Main}, Types, OwedNonmain
  PROVE  Thread = {Main} /\ ~Busy("nonmain") /\ catch.nonmain = 0
<1>1. Thread = {Main}
  BY DEF Thread
<1>2. Cardinality(Completing) = 0
  BY <1>1, FS_EmptySet DEF Completing
<1> QED BY <1>1, <1>2 DEF OwedNonmain, One, Types, TypeCatch, TypeComplete

\* While the main thread sends nothing there are no local signals.
LEMMA NothingLocal ==
  ASSUME Types, LocalOfMain, pc[Main] \notin {"raise", "complete"}
  PROVE  \A s \in Sig : local[s] = 0
BY DEF LocalOfMain, Types, TypeArrays

\* A flush is then the only local signal.
LEMMA MovedLocal ==
  ASSUME Types, LocalOfMain, pc[Main] \notin {"raise", "complete"}, NEW next, Moved(Main, next)
  PROVE  LocalOfMain'
<1>1. \A s \in Sig : local[s] = 0
  BY NothingLocal
<1>2. CASE UNCHANGED local
  BY <1>1, <1>2 DEF LocalOfMain
<1>3. CASE ~UNCHANGED local
  <2>1. pc'[Main] = "raise" /\ op'[Main] = "FLUSH" /\ local' = [local EXCEPT !["FLUSH"] = @ + 1]
    BY <1>3 DEF Moved, Types, TypePlace, Actor, Thread
  <2>2. \A s \in Sig : local'[s] = IF s = "FLUSH" THEN 1 ELSE 0
    BY <1>1, <2>1, FlushSig DEF Types, TypeArrays
  <2> QED BY <2>1, <2>2 DEF LocalOfMain
<1> QED BY <1>2, <1>3

\* Other work of wait_sig adds no local signal.
LEMMA StillLocal ==
  ASSUME LocalOfMain, UNCHANGED <<pc, op>>, waitsig.at # "scan", catch'.main \in {catch.main, 1},
         \A s \in Sig : local'[s] \in {0, local[s]}
  PROVE  LocalOfMain'
BY DEF LocalOfMain

\* The steps, one by one
LEMMA Steps ==
  ASSUME [Next]_vars
  PROVE  \/ UNCHANGED vars
         \/ \E a \in Actor, s \in Sig : SigSend(a, s)
         \/ \E a \in Raiser : Kill(a)
         \/ \E a \in Actor : KillNobody(a)
         \/ \E a \in Actor : Raise(a)
         \/ \E a \in Actor : Completed(a)
         \/ \E new \in SUBSET Maskable : Sigprocmask(new)
         \/ \E new \in SUBSET Maskable : Sigsuspend(new)
         \/ Proceed
         \/ SetMask
         \/ Suspend
         \/ Suspended
         \/ Dispatch
         \/ Enter
         \/ Resume
         \/ HandlerReturn
         \/ Return
         \/ Wake
         \/ ScanNext
         \/ Take
         \/ PutBack
         \/ TakeFlush
         \/ HandleUser
         \/ HandleFails
         \/ HandleStop
         \/ HandleCont
         \/ Out
<1> QED
  BY
    DEF Next, SendStep, HandlerStep, WaitSigStep, vars

\* A completion that the main thread gets finds no local signal left.
LEMMA CompletedClean ==
  ASSUME Raiser \subseteq {Main}, Types, Places, OwedMain, OwedNonmain, LocalOfMain,
         NEW a \in Actor, Completed(a)
  PROVE  \A s \in Sig : local[s] = 0
<1>1. a = Main
  BY Alone DEF Completed, Actor, Places
<1>2. pc[Main] = "complete" /\ complete.main = 1
  BY <1>1 DEF Completed
<1>3. catch.main = 0 /\ ~Busy("main")
  BY <1>2 DEF OwedMain, One, Types, TypeCatch, TypeComplete
<1> QED BY <1>2, <1>3 DEF LocalOfMain, Types, TypeArrays

\* Every step keeps LocalOfMain: wait_sig does not get past the signal of the main thread.
LEMMA LocalStep ==
  Raiser \subseteq {Main} /\ Types /\ Places /\ FlushLocal
  /\ OwedMain /\ OwedNonmain /\ LocalOfMain /\ [Next]_vars => LocalOfMain'
<1> SUFFICES ASSUME Raiser \subseteq {Main}, Types, Places, FlushLocal, OwedMain, OwedNonmain,
                    LocalOfMain, [Next]_vars
             PROVE  LocalOfMain'
  OBVIOUS
<1>1. ASSUME UNCHANGED vars PROVE LocalOfMain'
  BY <1>1 DEF LocalOfMain, Busy, Types, vars
<1>2. ASSUME NEW a \in Actor, NEW s \in Sig, SigSend(a, s) PROVE LocalOfMain'
  <2>1. CASE a \in Foreign
    <3>1. UNCHANGED <<local, catch, waitsig, op>> /\ a # Main /\ pc' = [pc EXCEPT ![a] = "raise"]
      BY <1>2, <2>1, ThreadAssumption DEF SigSend, Goto
    <3>2. pc'[Main] = pc[Main] /\ op'[Main] = op[Main]
      BY <3>1 DEF Types, TypePlace, Actor, Thread
    <3> QED BY <3>1, <3>2 DEF LocalOfMain, Busy
  <2>2. CASE a \notin Foreign
    <3>1. a = Main /\ pc[Main] = "kill"
      BY <1>2, <2>2, Alone DEF SigSend, Actor
    <3>2. pc'[Main] = "raise" /\ op'[Main] = s /\ local' = [local EXCEPT ![s] = @ + 1]
      BY <1>2, <2>2, <3>1 DEF SigSend, Goto, Types, TypePlace, Actor, Thread
    <3>3. \A z \in Sig : local'[z] = IF z = s THEN 1 ELSE 0
      BY <3>1, <3>2, NothingLocal DEF Types, TypeArrays
    <3> QED BY <3>2, <3>3 DEF LocalOfMain
  <2> QED BY <2>1, <2>2
<1>3. ASSUME NEW a \in Raiser, Kill(a) PROVE LocalOfMain'
  <2>1. a = Main
    BY Alone DEF Thread
  <2>2. Moved(Main, "kill") /\ pc[Main] \notin {"raise", "complete"}
    BY <1>3, <2>1, DispatchMoves DEF Kill, Free
  <2> QED BY <2>2, MovedLocal
<1>4. ASSUME NEW a \in Actor, KillNobody(a) PROVE LocalOfMain'
  <2>1. a = Main
    BY <1>4, Alone DEF KillNobody, Actor, Places
  <2>2. pc[Main] \notin {"raise", "complete"} /\ UNCHANGED local
    BY <1>4, <2>1 DEF KillNobody, arrays
  <2> QED BY <2>2, NothingLocal DEF LocalOfMain
<1>5. ASSUME NEW a \in Actor, Raise(a) PROVE LocalOfMain'
  <2>1. UNCHANGED <<local, op, waitsig>> /\ pc[a] = "raise"
    BY <1>5 DEF Raise, arrays
  <2>2. CASE a = Main
    <3>1. catch.main = 0
      BY <2>1, <2>2 DEF OwedMain, One, Types, TypeCatch, TypeComplete
    <3>2. catch'.main = 1 /\ pc'[Main] = "complete"
      BY <1>5, <2>2, <3>1, ThreadAssumption
      DEF Raise, Goto, Types, TypeCatch, TypePlace, Actor, Thread
    <3> QED BY <2>1, <3>2 DEF LocalOfMain
  <2>3. CASE a # Main
    <3>1. a \in Foreign
      BY <2>3, Alone DEF Actor
    <3>2. catch'.main = catch.main /\ pc'[Main] = pc[Main]
      BY <1>5, <2>3, <3>1 DEF Raise, Goto, Types, TypeCatch, TypePlace, Actor, Thread
    <3> QED BY <2>1, <3>2 DEF LocalOfMain, Busy
  <2> QED BY <2>2, <2>3
<1>6. ASSUME NEW a \in Actor, Completed(a) PROVE LocalOfMain'
  <2>1. \A s \in Sig : local[s] = 0
    BY <1>6, CompletedClean
  <2>2. UNCHANGED local
    BY <1>6 DEF Completed, arrays
  <2> QED BY <2>1, <2>2 DEF LocalOfMain
<1>7. ASSUME NEW new \in SUBSET Maskable, Sigprocmask(new) PROVE LocalOfMain'
  <2>1. Moved(Main, "setmask") /\ pc[Main] \notin {"raise", "complete"}
    BY <1>7, DispatchMoves DEF Sigprocmask, Free
  <2> QED BY <2>1, MovedLocal
<1>8. ASSUME NEW new \in SUBSET Maskable, Sigsuspend(new) PROVE LocalOfMain'
  <2>1. Moved(Main, "suspend") /\ pc[Main] \notin {"raise", "complete"}
    BY <1>8, DispatchMoves DEF Sigsuspend, Free
  <2> QED BY <2>1, MovedLocal
<1>9. ASSUME Proceed PROVE LocalOfMain'
  <2>1. pc[Main] \notin {"raise", "complete"} /\ UNCHANGED local
    BY <1>9 DEF Proceed, arrays
  <2> QED BY <2>1, NothingLocal DEF LocalOfMain
<1>10. ASSUME SetMask PROVE LocalOfMain'
  <2>1. Moved(Main, "run") /\ pc[Main] \notin {"raise", "complete"}
    BY <1>10, MaskMoves DEF SetMask, Free
  <2> QED BY <2>1, MovedLocal
<1>11. ASSUME Suspend PROVE LocalOfMain'
  <2>1. Moved(Main, "suspended") /\ pc[Main] \notin {"raise", "complete"}
    BY <1>11, MaskMoves DEF Suspend, Free
  <2> QED BY <2>1, MovedLocal
<1>12. ASSUME Suspended PROVE LocalOfMain'
  <2>1. pc[Main] \notin {"raise", "complete"} /\ UNCHANGED local
    BY <1>12 DEF Suspended, arrays
  <2> QED BY <2>1, NothingLocal DEF LocalOfMain
<1>13. ASSUME Dispatch PROVE LocalOfMain'
  <2>1. Moved(Main, "enter") /\ pc[Main] \notin {"raise", "complete"}
    BY <1>13, MaskMoves DEF Dispatch, Free
  <2> QED BY <2>1, MovedLocal
<1>14. ASSUME Enter PROVE LocalOfMain'
  <2>1. pc[Main] \notin {"raise", "complete"} /\ UNCHANGED local
    BY <1>14 DEF Enter, arrays
  <2> QED BY <2>1, NothingLocal DEF LocalOfMain
<1>15. ASSUME Resume PROVE LocalOfMain'
  <2>1. pc[Main] \notin {"raise", "complete"} /\ UNCHANGED local
    BY <1>15 DEF Resume, arrays
  <2> QED BY <2>1, NothingLocal DEF LocalOfMain
<1>16. ASSUME HandlerReturn PROVE LocalOfMain'
  <2>1. Moved(Main, "return") /\ pc[Main] \notin {"raise", "complete"}
    BY <1>16, MaskMoves DEF HandlerReturn, Free
  <2> QED BY <2>1, MovedLocal
<1>17. ASSUME Return PROVE LocalOfMain'
  <2>1. pc[Main] \notin {"raise", "complete"} /\ UNCHANGED local
    BY <1>17 DEF Return, arrays
  <2> QED BY <2>1, NothingLocal DEF LocalOfMain
<1>18. ASSUME Wake PROVE LocalOfMain'
  <2>1. /\ UNCHANGED <<local, pc, op>> /\ catch' = [catch EXCEPT ![Choice] = @ - 1]
        /\ waitsig.at = "idle" /\ Choice \in {"main", "nonmain", "nosync"}
    BY <1>18, ChoiceFacts DEF Wake, place, arrays, Types
  <2>2. waitsig'.at = "scan" /\ waitsig'.rc = Choice /\ waitsig'.cur = 1
    BY <1>18 DEF Wake
  <2>3. CASE Choice = "main"
    <3>1. waitsig'.at = "scan" /\ Busy("main")' /\ \A i \in 1 .. waitsig'.cur - 1 : FALSE
      BY <2>2, <2>3 DEF Busy
    <3> QED BY <2>1, <3>1 DEF LocalOfMain
  <2>4. CASE Choice # "main"
    <3>1. catch'.main = catch.main
      BY <2>1, <2>4 DEF Types, TypeCatch
    <3> QED BY <2>1, <3>1, StillLocal
  <2> QED BY <2>3, <2>4
<1>19. ASSUME ScanNext PROVE LocalOfMain'
  <2>1. UNCHANGED <<local, catch, pc, op>> /\ waitsig.at = "scan" /\ Count(Cur) = 0
    BY <1>19 DEF ScanNext, place, arrays
  <2>2. waitsig.cur \in 1 .. Len(Order) /\ Len(Order) \in Nat
    BY OrderFacts DEF Types, WaitSig
  <2> SUFFICES ASSUME NEW s \in Sig, local[s] > 0, pc[Main] = "complete", catch.main # 1
               PROVE  /\ waitsig'.at = "scan" /\ Busy("main")'
                      /\ \A i \in 1 .. waitsig'.cur - 1 : Order[i] # s
    BY <2>1 DEF LocalOfMain
  <2>3. Busy("main") /\ \A i \in 1 .. waitsig.cur - 1 : Order[i] # s
    BY <2>1 DEF LocalOfMain
  <2>4. \A i \in 1 .. waitsig.cur : Order[i] # s
    BY <2>1, <2>2, <2>3 DEF Count, Busy, Cur
  <2>5. waitsig.cur < Len(Order)
    BY <2>2, <2>4, OrderFacts DEF Sig
  <2>6. waitsig' = [waitsig EXCEPT !.cur = @ + 1]
    BY <1>19, <2>5 DEF ScanNext
  <2>7. waitsig'.at = "scan" /\ waitsig'.rc = "main" /\ waitsig'.cur = waitsig.cur + 1
    BY <2>1, <2>3, <2>6 DEF Types, WaitSig, Busy
  <2> QED BY <2>2, <2>4, <2>7 DEF Busy
<1>20. ASSUME Take PROVE LocalOfMain'
  <2>1. UNCHANGED <<catch, pc, op>> /\ waitsig.at = "scan" /\ Count(Cur) > 0 /\ Cur \in Sig
    BY <1>20, CurSig DEF Take, place, Types
  <2>2. CASE waitsig.rc = "nosync"
    <3>1. UNCHANGED local /\ ~Busy("main")
      BY <1>20, <2>2 DEF Take, Busy
    <3> QED BY <2>1, <3>1 DEF LocalOfMain
  <2>3. CASE waitsig.rc # "nosync"
    <3>1. local' = [local EXCEPT ![Cur] = @ - 1] /\ local[Cur] > 0
      BY <1>20, <2>1, <2>3 DEF Take, Count
    <3>2. \A s \in Sig : local'[s] = 0
      BY <2>1, <3>1 DEF LocalOfMain, Types, TypeArrays
    <3> QED BY <3>2 DEF LocalOfMain
  <2> QED BY <2>2, <2>3
<1>21. ASSUME PutBack PROVE LocalOfMain'
  <2>1. UNCHANGED <<pc, op>> /\ waitsig.at # "scan" /\ catch'.main = catch.main
    BY <1>21 DEF PutBack, place, Types, TypeCatch
  <2>2. \A s \in Sig : local'[s] \in {0, local[s]}
    BY <1>21 DEF PutBack, arrays
  <2> QED BY <2>1, <2>2, StillLocal
<1>22. ASSUME TakeFlush PROVE LocalOfMain'
  <2>1. local' = [local EXCEPT !["FLUSH"] = @ - 1] /\ Count("FLUSH") > 0
    BY <1>22 DEF TakeFlush
  <2>2. local["FLUSH"] > 0
    BY <2>1 DEF Count, FlushLocal
  <2>3. \A s \in Sig : local'[s] = 0
    BY <2>1, <2>2, FlushSig DEF LocalOfMain, Types, TypeArrays
  <2> QED BY <2>3 DEF LocalOfMain
<1>23. ASSUME HandleUser PROVE LocalOfMain'
  <2>1. UNCHANGED <<pc, op>> /\ waitsig.at # "scan" /\ catch'.main = catch.main
    BY <1>23 DEF HandleUser, place, Types, TypeCatch
  <2>2. \A s \in Sig : local'[s] \in {0, local[s]}
    BY <1>23 DEF HandleUser, arrays
  <2> QED BY <2>1, <2>2, StillLocal
<1>24. ASSUME HandleFails PROVE LocalOfMain'
  <2>1. UNCHANGED <<pc, op>> /\ waitsig.at # "scan" /\ catch'.main = catch.main
    BY <1>24 DEF HandleFails, place, Types, TypeCatch
  <2>2. \A s \in Sig : local'[s] \in {0, local[s]}
    BY <1>24 DEF HandleFails, Cleared
  <2> QED BY <2>1, <2>2, StillLocal
<1>25. ASSUME HandleStop PROVE LocalOfMain'
  <2>1. UNCHANGED <<pc, op>> /\ waitsig.at # "scan" /\ catch'.main = catch.main
    BY <1>25 DEF HandleStop, place, Types, TypeCatch
  <2>2. \A s \in Sig : local'[s] \in {0, local[s]}
    BY <1>25 DEF HandleStop, Cleared
  <2> QED BY <2>1, <2>2, StillLocal
<1>26. ASSUME HandleCont PROVE LocalOfMain'
  <2>1. UNCHANGED <<pc, op>> /\ waitsig.at # "scan" /\ catch'.main = catch.main
    BY <1>26 DEF HandleCont, place, Types, TypeCatch
  <2>2. \A s \in Sig : local'[s] \in {0, local[s]}
    BY <1>26 DEF HandleCont, Cleared
  <2> QED BY <2>1, <2>2, StillLocal
<1>27. ASSUME Out PROVE LocalOfMain'
  <2>1. UNCHANGED <<pc, op>> /\ waitsig.at # "scan" /\ catch'.main = catch.main
    BY <1>27 DEF Out, place, Types, TypeCatch
  <2>2. \A s \in Sig : local'[s] \in {0, local[s]}
    BY <1>27 DEF Out, arrays
  <2> QED BY <2>1, <2>2, StillLocal
<1> QED
  BY <1>1, <1>2, <1>3, <1>4, <1>5, <1>6, <1>7, <1>8, <1>9, <1>10, <1>11, <1>12, <1>13, <1>14,
     <1>15, <1>16, <1>17, <1>18, <1>19, <1>20, <1>21, <1>22, <1>23, <1>24, <1>25, <1>26, <1>27,
     Steps

\* The steps that change where a thread is or what it sends
LEMMA FrameOp ==
  ASSUME [Next]_vars
  PROVE  \/ UNCHANGED <<pc, op>>
         \/ \E a \in Actor, s \in Sig : SigSend(a, s)
         \/ \E a \in Raiser : Kill(a)
         \/ \E a \in Actor : KillNobody(a)
         \/ \E a \in Actor : Raise(a)
         \/ \E a \in Actor : Completed(a)
         \/ \E new \in SUBSET Maskable : Sigprocmask(new)
         \/ \E new \in SUBSET Maskable : Sigsuspend(new)
         \/ Proceed
         \/ SetMask
         \/ Suspend
         \/ Suspended
         \/ Dispatch
         \/ Enter
         \/ Resume
         \/ HandlerReturn
         \/ Return
<1>1. ASSUME Wake PROVE UNCHANGED <<pc, op>>
  BY <1>1 DEF Wake, arrays, flags, stop, main, place
<1>2. ASSUME ScanNext PROVE UNCHANGED <<pc, op>>
  BY <1>2 DEF ScanNext, arrays, flags, stop, main, place
<1>3. ASSUME Take PROVE UNCHANGED <<pc, op>>
  BY <1>3 DEF Take, arrays, flags, stop, main, place
<1>4. ASSUME PutBack PROVE UNCHANGED <<pc, op>>
  BY <1>4 DEF PutBack, arrays, flags, stop, main, place
<1>5. ASSUME TakeFlush PROVE UNCHANGED <<pc, op>>
  BY <1>5 DEF TakeFlush, arrays, flags, stop, main, place
<1>6. ASSUME HandleUser PROVE UNCHANGED <<pc, op>>
  BY <1>6 DEF HandleUser, SetUp, arrays, flags, stop, main, place
<1>7. ASSUME HandleFails PROVE UNCHANGED <<pc, op>>
  BY <1>7 DEF HandleFails, arrays, flags, stop, main, place
<1>8. ASSUME HandleStop PROVE UNCHANGED <<pc, op>>
  BY <1>8 DEF HandleStop, SetUp, arrays, flags, stop, main, place
<1>9. ASSUME HandleCont PROVE UNCHANGED <<pc, op>>
  BY <1>9 DEF HandleCont, arrays, flags, stop, main, place
<1>10. ASSUME Out PROVE UNCHANGED <<pc, op>>
  BY <1>10 DEF Out, arrays, flags, stop, main, place
<1> QED
  BY <1>1, <1>2, <1>3, <1>4, <1>5, <1>6, <1>7, <1>8, <1>9, <1>10
    DEF Next, SendStep, HandlerStep, WaitSigStep, vars

\* A thread notes the signal before it raises the object.
LEMMA OpStep == Types /\ Places /\ Handlers /\ OpSent /\ [Next]_vars => OpSent'
<1> SUFFICES ASSUME Types, Places, Handlers, OpSent, [Next]_vars PROVE OpSent'
  OBVIOUS
<1>1. ASSUME UNCHANGED <<pc, op>> PROVE OpSent'
  BY <1>1 DEF OpSent, Types
<1>2. ASSUME NEW a \in Actor, NEW s \in Sig, SigSend(a, s) PROVE OpSent'
  <2>1. CASE a \in Foreign
    BY <1>2, <2>1, ThreadAssumption DEF SigSend, Goto, OpSent, Types, TypePlace, Actor, Thread
  <2>2. CASE a \notin Foreign
    BY <1>2, <2>2 DEF SigSend, Goto, OpSent, Types, TypePlace, Actor, Thread
  <2> QED BY <2>1, <2>2
<1>3. ASSUME NEW a \in Raiser, Kill(a) PROVE OpSent'
  <2>1. Moved(a, "kill")
    BY <1>3, DispatchMoves DEF Kill
  <2> QED BY <2>1, FlushSig DEF Moved, OpSent, Types, TypePlace, Actor, Thread
<1>4. ASSUME NEW a \in Actor, KillNobody(a) PROVE OpSent'
  BY <1>4
    DEF KillNobody, Goto, OpSent, Types, TypePlace, Actor, Thread, Places, Nexts, Backs, place
<1>5. ASSUME NEW a \in Actor, Raise(a) PROVE OpSent'
  BY <1>5
    DEF Raise, Goto, OpSent, Types, TypePlace, Actor, Thread, Places, Nexts, Backs, place
<1>6. ASSUME NEW a \in Actor, Completed(a) PROVE OpSent'
  BY <1>6
    DEF Completed, AfterFlush, Goto, OpSent, Types, TypePlace, Actor, Thread, Places, Nexts,
        Backs, place
<1>7. ASSUME NEW new \in SUBSET Maskable, Sigprocmask(new) PROVE OpSent'
  <2>1. Moved(Main, "setmask")
    BY <1>7, DispatchMoves DEF Sigprocmask
  <2> QED BY <2>1, FlushSig DEF Moved, OpSent, Types, TypePlace, Actor, Thread
<1>8. ASSUME NEW new \in SUBSET Maskable, Sigsuspend(new) PROVE OpSent'
  <2>1. Moved(Main, "suspend")
    BY <1>8, DispatchMoves DEF Sigsuspend
  <2> QED BY <2>1, FlushSig DEF Moved, OpSent, Types, TypePlace, Actor, Thread
<1>9. ASSUME Proceed PROVE OpSent'
  BY <1>9
    DEF Proceed, Goto, OpSent, Types, TypePlace, Actor, Thread, Places, Nexts, Backs, place
<1>10. ASSUME SetMask PROVE OpSent'
  <2>1. Moved(Main, "run")
    BY <1>10, MaskMoves DEF SetMask
  <2> QED BY <2>1, FlushSig DEF Moved, OpSent, Types, TypePlace, Actor, Thread
<1>11. ASSUME Suspend PROVE OpSent'
  <2>1. Moved(Main, "suspended")
    BY <1>11, MaskMoves DEF Suspend
  <2> QED BY <2>1, FlushSig DEF Moved, OpSent, Types, TypePlace, Actor, Thread
<1>12. ASSUME Suspended PROVE OpSent'
  BY <1>12
    DEF Suspended, Goto, OpSent, Types, TypePlace, Actor, Thread, Places, Nexts, Backs, place
<1>13. ASSUME Dispatch PROVE OpSent'
  <2>1. Moved(Main, "enter")
    BY <1>13, MaskMoves DEF Dispatch
  <2> QED BY <2>1, FlushSig DEF Moved, OpSent, Types, TypePlace, Actor, Thread
<1>14. ASSUME Enter PROVE OpSent'
  BY <1>14
    DEF Enter, Goto, OpSent, Types, TypePlace, Actor, Thread, Places, Nexts, Backs, place
<1>15. ASSUME Resume PROVE OpSent'
  BY <1>15
    DEF Resume, Goto, OpSent, Types, TypePlace, Actor, Thread, Places, Nexts, Backs, place
<1>16. ASSUME HandlerReturn PROVE OpSent'
  <2>1. Moved(Main, "return")
    BY <1>16, MaskMoves DEF HandlerReturn
  <2> QED BY <2>1, FlushSig DEF Moved, OpSent, Types, TypePlace, Actor, Thread
<1>17. ASSUME Return PROVE OpSent'
  BY <1>17, StackTop
    DEF Return, Goto, OpSent, Types, TypePlace, Actor, Thread, Places, Nexts, Backs, place,
        Handlers, Bound
<1> QED
  BY <1>1, <1>2, <1>3, <1>4, <1>5, <1>6, <1>7, <1>8, <1>9, <1>10, <1>11, <1>12, <1>13, <1>14,
     <1>15, <1>16, <1>17, FrameOp

\* The main thread stops waiting only with a completion.
LEMMA OnlyCompletedLeaves ==
  Types /\ pc[Main] = "complete" /\ pc'[Main] # "complete" /\ [Next]_vars => Completed(Main)
<1> SUFFICES ASSUME Types, pc[Main] = "complete", pc'[Main] # "complete", [Next]_vars
             PROVE  Completed(Main)
  OBVIOUS
<1>1. ASSUME UNCHANGED <<pc, op>> PROVE Completed(Main)
  BY <1>1 DEF Types
<1>2. ASSUME NEW a \in Actor, NEW s \in Sig, SigSend(a, s) PROVE Completed(Main)
  BY <1>2
    DEF SigSend, Goto, Types, TypePlace, Actor, Thread, place
<1>3. ASSUME NEW a \in Raiser, Kill(a) PROVE Completed(Main)
  <2>1. pc' \in {[pc EXCEPT ![a] = "kill"], [pc EXCEPT ![a] = "raise"]} /\ pc[a] # "complete"
    BY <1>3, DispatchMoves DEF Kill, Moved, Free
  <2> QED BY <2>1 DEF Types, TypePlace, Actor, Thread
<1>4. ASSUME NEW a \in Actor, KillNobody(a) PROVE Completed(Main)
  BY <1>4
    DEF KillNobody, Goto, Types, TypePlace, Actor, Thread, place
<1>5. ASSUME NEW a \in Actor, Raise(a) PROVE Completed(Main)
  BY <1>5
    DEF Raise, Goto, Types, TypePlace, Actor, Thread, place
<1>6. ASSUME NEW a \in Actor, Completed(a) PROVE Completed(Main)
  BY <1>6
    DEF Completed, AfterFlush, Goto, Types, TypePlace, Actor, Thread, place
<1>7. ASSUME NEW new \in SUBSET Maskable, Sigprocmask(new) PROVE Completed(Main)
  <2>1. /\ pc' \in {[pc EXCEPT ![Main] = "setmask"], [pc EXCEPT ![Main] = "raise"]}
        /\ pc[Main] # "complete"
    BY <1>7, DispatchMoves DEF Sigprocmask, Moved, Free
  <2> QED BY <2>1 DEF Types, TypePlace, Actor, Thread
<1>8. ASSUME NEW new \in SUBSET Maskable, Sigsuspend(new) PROVE Completed(Main)
  <2>1. /\ pc' \in {[pc EXCEPT ![Main] = "suspend"], [pc EXCEPT ![Main] = "raise"]}
        /\ pc[Main] # "complete"
    BY <1>8, DispatchMoves DEF Sigsuspend, Moved, Free
  <2> QED BY <2>1 DEF Types, TypePlace, Actor, Thread
<1>9. ASSUME Proceed PROVE Completed(Main)
  BY <1>9
    DEF Proceed, Goto, Types, TypePlace, Actor, Thread, place
<1>10. ASSUME SetMask PROVE Completed(Main)
  <2>1. /\ pc' \in {[pc EXCEPT ![Main] = "run"], [pc EXCEPT ![Main] = "raise"]}
        /\ pc[Main] # "complete"
    BY <1>10, MaskMoves DEF SetMask, Moved, Free
  <2> QED BY <2>1 DEF Types, TypePlace, Actor, Thread
<1>11. ASSUME Suspend PROVE Completed(Main)
  <2>1. /\ pc' \in {[pc EXCEPT ![Main] = "suspended"], [pc EXCEPT ![Main] = "raise"]}
        /\ pc[Main] # "complete"
    BY <1>11, MaskMoves DEF Suspend, Moved, Free
  <2> QED BY <2>1 DEF Types, TypePlace, Actor, Thread
<1>12. ASSUME Suspended PROVE Completed(Main)
  BY <1>12
    DEF Suspended, Goto, Types, TypePlace, Actor, Thread, place
<1>13. ASSUME Dispatch PROVE Completed(Main)
  <2>1. /\ pc' \in {[pc EXCEPT ![Main] = "enter"], [pc EXCEPT ![Main] = "raise"]}
        /\ pc[Main] # "complete"
    BY <1>13, MaskMoves DEF Dispatch, Moved, Free
  <2> QED BY <2>1 DEF Types, TypePlace, Actor, Thread
<1>14. ASSUME Enter PROVE Completed(Main)
  BY <1>14
    DEF Enter, Goto, Types, TypePlace, Actor, Thread, place
<1>15. ASSUME Resume PROVE Completed(Main)
  BY <1>15
    DEF Resume, Goto, Types, TypePlace, Actor, Thread, place
<1>16. ASSUME HandlerReturn PROVE Completed(Main)
  <2>1. /\ pc' \in {[pc EXCEPT ![Main] = "return"], [pc EXCEPT ![Main] = "raise"]}
        /\ pc[Main] # "complete"
    BY <1>16, MaskMoves DEF HandlerReturn, Moved, Free
  <2> QED BY <2>1 DEF Types, TypePlace, Actor, Thread
<1>17. ASSUME Return PROVE Completed(Main)
  BY <1>17
    DEF Return, Goto, Types, TypePlace, Actor, Thread, place
<1> QED
  BY <1>1, <1>2, <1>3, <1>4, <1>5, <1>6, <1>7, <1>8, <1>9, <1>10, <1>11, <1>12, <1>13, <1>14,
     <1>15, <1>16, <1>17, FrameOp

\* A stop stays with its handler until SIGCONT.
LEMMA StopHeldStep ==
  Types /\ Places /\ Handlers /\ Stopping /\ StopHeld /\ [Next]_vars => StopHeld'
<1> SUFFICES ASSUME Types, Places, Handlers, Stopping, StopHeld, [Next]_vars PROVE StopHeld'
  OBVIOUS
<1>0. pc[Main] = "stopped" => sigsave.sig = None /\ ~frame
  BY DEF Stopping
<1>1. ASSUME UNCHANGED <<sigsave, stop>>, pc[Main] = "stopped" <=> pc'[Main] = "stopped"
     PROVE  StopHeld'
  BY <1>1 DEF StopHeld, stop
<1>2. ASSUME UNCHANGED vars PROVE StopHeld'
  BY <1>2 DEF StopHeld, vars
<1>3. ASSUME NEW a \in Actor, NEW s \in Sig, SigSend(a, s) PROVE StopHeld'
  BY <1>1, <1>3, ThreadAssumption DEF SigSend, Goto, Types, TypePlace, Actor, Thread
<1>4. ASSUME NEW a \in Raiser, Kill(a) PROVE StopHeld'
  <2>1. \/ pc' = [pc EXCEPT ![a] = "kill"]
        \/ pc' = [pc EXCEPT ![a] = "raise"]
    BY <1>4, DispatchMoves DEF Kill, Moved
  <2> QED BY <1>1, <1>4, <2>1 DEF Kill, Free, Types, TypePlace, Actor, Thread
<1>5. ASSUME NEW a \in Actor, SendStep(a) PROVE StopHeld'
  <2>1. UNCHANGED <<sigsave, stop>>
    BY <1>5 DEF SendStep, KillNobody, Raise, Completed
  <2>2. pc[a] # "stopped" /\ \E p \in Nexts \cup {"complete", "call"} : pc' = [pc EXCEPT ![a] = p]
    <3>1. CASE KillNobody(a) \/ Raise(a)
      BY <3>1 DEF KillNobody, Raise, Goto, Nexts
    <3>2. CASE Completed(a)
      <4>1. a \in Thread
        BY <3>2 DEF Completed, Places, Actor
      <4> QED BY <3>2, <4>1 DEF Completed, AfterFlush, Goto, Places, Nexts
    <3> QED BY <1>5, <3>1, <3>2 DEF SendStep
  <2>3. pc[Main] = "stopped" <=> pc'[Main] = "stopped"
    BY <2>2 DEF Nexts, Types, TypePlace, Actor, Thread
  <2> QED BY <1>1, <2>1, <2>3
<1>6. ASSUME NEW next \in Nexts, Moved(Main, next), UNCHANGED <<sigsave, stop>>, pc[Main] # "stopped"
      PROVE  StopHeld'
  <2>1. pc'[Main] # "stopped"
    BY <1>6 DEF Moved, Nexts, Types, TypePlace, Actor, Thread
  <2> QED BY <1>1, <1>6, <2>1
<1>7. ASSUME NEW new \in SUBSET Maskable, Sigprocmask(new) \/ Sigsuspend(new) PROVE StopHeld'
  BY <1>6, <1>7, DispatchMoves DEF Sigprocmask, Sigsuspend, Free, Nexts
<1>8. ASSUME SetMask \/ Suspend \/ Dispatch \/ HandlerReturn PROVE StopHeld'
  BY <1>6, <1>8, MaskMoves DEF SetMask, Suspend, Dispatch, HandlerReturn, Free, Nexts
<1>9. ASSUME Proceed \/ Return PROVE StopHeld'
  <2>1. pc'[Main] # "stopped" /\ pc[Main] # "stopped"
    BY <1>9, StackTop
      DEF Proceed, Return, Goto, Types, TypePlace, Actor, Thread, Places, Backs, Handlers, Bound
  <2> QED BY <1>1, <1>9, <2>1 DEF Proceed, Return
<1>10. ASSUME Suspended PROVE StopHeld'
  BY <1>10 DEF Suspended, StopHeld, stop, Goto, Types, TypeMasks, Slot, TypePlace
<1>11. ASSUME Enter PROVE StopHeld'
  <2>1. /\ sigCONT' = sigCONT /\ ppid_handle' = ppid_handle /\ pc[Main] = "enter"
        /\ stopped' = (stopped /\ (sigsave.sig = "STOP" => ppid_handle))
        /\ pc'[Main] = IF sigsave.sig = "STOP" /\ ppid_handle THEN "stopped" ELSE "run"
    BY <1>11 DEF Enter, Goto, Types, TypePlace, Actor, Thread
  <2> QED BY <2>1, Zenon DEF StopHeld
<1>12. ASSUME Resume PROVE StopHeld'
  <2>1. /\ pc[Main] = "stopped" /\ sigCONT = 1 /\ sigCONT' = 0 /\ UNCHANGED <<stopped, ppid_handle>>
    BY <1>12 DEF Resume
  <2>2. ~stopped /\ pc'[Main] # "stopped"
    BY <1>12, <2>1 DEF Resume, StopHeld, Goto, Types, TypePlace, Actor, Thread
  <2> QED BY <2>1, <2>2 DEF StopHeld
<1>13. ASSUME Wake \/ ScanNext \/ Take \/ PutBack \/ TakeFlush \/ HandleFails \/ Out PROVE StopHeld'
  BY <1>1, <1>13
    DEF Wake, ScanNext, Take, PutBack, TakeFlush, HandleFails, Out, place, Types, TypePlace
<1>14. ASSUME HandleUser PROVE StopHeld'
  BY <1>0, <1>14, NoneAssumption DEF HandleUser, SetUp, CanSetUp, StopHeld, stop, place
<1>15. ASSUME HandleStop PROVE StopHeld'
  <2>1. UNCHANGED <<sigCONT, ppid_handle, pc>>
    BY <1>15 DEF HandleStop, place
  <2>2. CASE stopped /\ UNCHANGED <<sigsave, stopped>>
    BY <2>1, <2>2 DEF StopHeld
  <2>3. CASE ~stopped /\ SetUp("STOP") /\ stopped' = TRUE
    <3>1. sigsave.sig = None /\ (frame \/ pc[Main] = "run") /\ sigsave'.sig = "STOP"
      BY <2>3 DEF SetUp, CanSetUp
    <3>2. ~(ppid_handle /\ sigCONT = 1)
      BY <1>0, <3>1, NoneAssumption DEF StopHeld
    <3> QED BY <2>1, <3>1, <3>2 DEF StopHeld
  <2> QED BY <1>15, <2>2, <2>3 DEF HandleStop
<1>16. ASSUME HandleCont PROVE StopHeld'
  BY <1>16 DEF HandleCont, StopHeld, place, Types, TypeFlags
<1> QED
  BY <1>2, <1>3, <1>4, <1>5, <1>6, <1>7, <1>10, <1>11, <1>12, <1>13, <1>14, <1>15, <1>16,
     <1>8, <1>9
    DEF Next, HandlerStep, WaitSigStep

\* A thread that is moved on sends a flush, if anything.
LEMMA MovedDelivers ==
  ASSUME Types, NEW next, next \notin {"raise", "complete"}, Moved(Main, next)
  PROVE  Delivering'
<1>1. pc'[Main] = next \/ op'[Main] = "FLUSH"
  BY DEF Moved, Types, TypePlace, Actor, Thread
<1> QED BY <1>1, UserFacts DEF Delivering, Sending

\* wait_sig keeps it if it takes no such signal, and leaves the slot filled if it was.
LEMMA StillDelivering ==
  ASSUME Types, Delivering, UNCHANGED <<pc, op, mask, frame>>,
         \A s \in User : local'[s] = local[s],
         sigsave.sig # None => sigsave'.sig # None,
         waitsig.at = "handle" /\ Sending => sigsave'.sig # None
  PROVE  Delivering'
BY DEF Delivering, Sending

\* Every step keeps it: wait_sig takes the signal off the array to set up its handler, and
\* if it cannot then because another waits.
LEMMA DeliveringStep ==
  /\ Raiser \subseteq {Main} /\ Types /\ Places /\ Handlers /\ FlushLocal /\ OwedNonmain
  /\ StopHeld /\ Delivering /\ [Next]_vars
  => Delivering'
<1> SUFFICES ASSUME Raiser \subseteq {Main}, Types, Places, Handlers, FlushLocal, OwedNonmain,
                    StopHeld, Delivering, [Next]_vars
             PROVE  Delivering'
  OBVIOUS
<1>1. ASSUME UNCHANGED vars PROVE Delivering'
  BY <1>1 DEF Delivering, Sending, vars, Cur
<1>2. ASSUME NEW a \in Actor, NEW s \in Sig, SigSend(a, s) PROVE Delivering'
  <2>1. CASE a \in Foreign
    <3>1. UNCHANGED <<local, waitsig, op, mask, sigsave>> /\ a # Main /\ (frame => frame')
      BY <1>2, <2>1, ThreadAssumption DEF SigSend, main
    <3>2. pc'[Main] = pc[Main]
      BY <1>2, <3>1 DEF SigSend, Goto, Types, TypePlace, Actor, Thread
    <3> QED BY <3>1, <3>2 DEF Delivering, Sending, Cur
  <2>2. CASE a \notin Foreign
    <3>1. a = Main /\ frame'
      BY <1>2, <2>2, Alone DEF SigSend, Actor
    <3>2. op'[Main] = s /\ local'[s] > 0
      BY <1>2, <2>2, <3>1 DEF SigSend, Types, TypePlace, TypeArrays, Actor, Thread
    <3> QED BY <3>1, <3>2 DEF Delivering
  <2> QED BY <2>1, <2>2
<1>3. ASSUME NEW a \in Raiser, Kill(a) PROVE Delivering'
  <2>1. a = Main
    BY Alone DEF Thread
  <2> QED BY <1>3, <2>1, DispatchMoves, MovedDelivers DEF Kill
<1>4. ASSUME NEW a \in Actor, KillNobody(a) PROVE Delivering'
  <2>1. a = Main
    BY <1>4, Alone DEF KillNobody, Actor, Places
  <2> QED BY <1>4, <2>1 DEF KillNobody, Goto, Delivering, Sending, Types, TypePlace, Actor, Thread
<1>5. ASSUME NEW a \in Actor, Raise(a) PROVE Delivering'
  <2>1. UNCHANGED <<local, waitsig, op, mask, sigsave, frame>>
    BY <1>5 DEF Raise, arrays, main
  <2>2. pc[a] = "raise" /\ pc' \in {[pc EXCEPT ![a] = "run"], [pc EXCEPT ![a] = "complete"]}
    BY <1>5 DEF Raise, Goto
  <2>3. pc'[Main] \in {"raise", "complete"} => pc[Main] \in {"raise", "complete"}
    BY <2>2 DEF Types, TypePlace, Actor, Thread
  <2> QED BY <2>1, <2>3 DEF Delivering, Sending, Cur
<1>6. ASSUME NEW a \in Actor, Completed(a) PROVE Delivering'
  <2>1. a = Main
    BY <1>6, Alone DEF Completed, Actor, Places
  <2>2. pc'[Main] \notin {"raise", "complete"}
    BY <1>6, <2>1 DEF Completed, AfterFlush, Goto, Types, TypePlace, Places, Nexts, Actor, Thread
  <2> QED BY <2>2 DEF Delivering, Sending
<1>7. ASSUME NEW new \in SUBSET Maskable, Sigprocmask(new) PROVE Delivering'
  BY <1>7, DispatchMoves, MovedDelivers DEF Sigprocmask
<1>8. ASSUME NEW new \in SUBSET Maskable, Sigsuspend(new) PROVE Delivering'
  BY <1>8, DispatchMoves, MovedDelivers DEF Sigsuspend
<1>9. ASSUME Proceed PROVE Delivering'
  <2>1. pc'[Main] \notin {"raise", "complete"}
    BY <1>9 DEF Proceed, Goto, Types, TypePlace, Places, Actor, Thread
  <2> QED BY <2>1 DEF Delivering, Sending
<1>10. ASSUME SetMask PROVE Delivering'
  BY <1>10, MaskMoves, MovedDelivers DEF SetMask
<1>11. ASSUME Suspend PROVE Delivering'
  BY <1>11, MaskMoves, MovedDelivers DEF Suspend
<1>12. ASSUME Suspended PROVE Delivering'
  BY <1>12 DEF Suspended, Goto, Delivering, Sending, Types, TypePlace, Actor, Thread
<1>13. ASSUME Dispatch PROVE Delivering'
  BY <1>13, MaskMoves, MovedDelivers DEF Dispatch
<1>14. ASSUME Enter PROVE Delivering'
  BY <1>14 DEF Enter, Goto, Delivering, Sending, Types, TypePlace, Actor, Thread
<1>15. ASSUME Resume PROVE Delivering'
  BY <1>15 DEF Resume, Goto, Delivering, Sending, Types, TypePlace, Actor, Thread
<1>16. ASSUME HandlerReturn PROVE Delivering'
  BY <1>16, MaskMoves, MovedDelivers DEF HandlerReturn
<1>17. ASSUME Return PROVE Delivering'
  <2>1. pc'[Main] \in Backs
    BY <1>17, StackTop DEF Return, Goto, Types, TypePlace, Actor, Thread, Handlers, Bound
  <2> QED BY <2>1 DEF Delivering, Sending, Backs
<1>18. ASSUME Wake \/ ScanNext \/ PutBack \/ Out PROVE Delivering'
  <2>1. UNCHANGED <<local, pc, op, mask, frame, sigsave>> /\ waitsig.at # "handle"
    BY <1>18 DEF Wake, ScanNext, PutBack, Out, place, main, arrays
  <2> QED BY <2>1, StillDelivering
<1>19. ASSUME Take PROVE Delivering'
  <2>1. UNCHANGED <<pc, op, mask, frame, sigsave>> /\ waitsig.at = "scan" /\ Cur \in Sig
    BY <1>19, CurSig DEF Take, place, main, Types
  <2>2. CASE Sending /\ op[Main] \notin mask /\ sigsave.sig = None
    <3>1. frame /\ local[op[Main]] > 0
      BY <2>1, <2>2 DEF Delivering
    <3>2. ~stopped
      BY <2>2, NoneAssumption DEF StopHeld, Sending
    <3>3. CASE waitsig.rc # "nosync" /\ Cur = op[Main]
      <4>1. ~Blocked(Cur)
        BY <2>2, <3>2, <3>3, UserFacts DEF Blocked, Sending
      <4>2. waitsig' = [waitsig EXCEPT !.at = "handle", !.x = Count(Cur) - 1]
        BY <1>19, <4>1 DEF Take
      <4>3. waitsig'.at = "handle" /\ waitsig'.rc = waitsig.rc /\ Cur' = Cur
        BY <4>2 DEF Types, WaitSig, Cur
      <4> QED BY <2>1, <3>1, <3>3, <4>3 DEF Delivering
    <3>4. CASE ~(waitsig.rc # "nosync" /\ Cur = op[Main])
      <4>1. local'[op[Main]] = local[op[Main]]
        BY <1>19, <2>1, <2>2, <3>4, UserFacts DEF Take, Types, TypeArrays, Sending
      <4> QED BY <2>1, <3>1, <4>1 DEF Delivering
    <3> QED BY <3>3, <3>4
  <2>3. CASE ~(Sending /\ op[Main] \notin mask /\ sigsave.sig = None)
    BY <2>1, <2>3 DEF Delivering, Sending
  <2> QED BY <2>2, <2>3
<1>20. ASSUME TakeFlush PROVE Delivering'
  <2>1. UNCHANGED <<pc, op, mask, frame, sigsave>> /\ waitsig.at = "scan"
    BY <1>20 DEF TakeFlush, place, main
  <2>2. \A s \in User : local'[s] = local[s]
    BY <1>20, UserFacts DEF TakeFlush, Types, TypeArrays
  <2> QED BY <2>1, <2>2, StillDelivering
<1>21. ASSUME HandleUser PROVE Delivering'
  <2>1. UNCHANGED <<local, pc, op, mask, frame>> /\ sigsave'.sig = Cur /\ Cur \in User
    BY <1>21 DEF HandleUser, SetUp, arrays, place, main
  <2>2. sigsave'.sig # None
    BY <2>1, UserFacts, NoneAssumption
  <2> QED BY <2>1, <2>2, StillDelivering
<1>22. ASSUME HandleFails PROVE Delivering'
  <2>1. UNCHANGED <<pc, op, mask, frame, sigsave>> /\ ~CanSetUp
    BY <1>22 DEF HandleFails, place, main
  <2>2. \A s \in User : local'[s] = local[s]
    BY <1>22, UserFacts DEF HandleFails, Cleared, Types, TypeArrays
  <2>3. Sending => sigsave.sig # None
    BY <2>1 DEF CanSetUp, Delivering
  <2> QED BY <2>1, <2>2, <2>3, StillDelivering
<1>23. ASSUME HandleStop PROVE Delivering'
  <2>1. UNCHANGED <<pc, op, mask, frame>> /\ Cur = "STOP"
    BY <1>23 DEF HandleStop, place, main
  <2>2. \A s \in User : local'[s] = local[s]
    BY <1>23, UserFacts DEF HandleStop, Cleared, Types, TypeArrays
  <2>3. sigsave' = sigsave \/ sigsave'.sig = "STOP"
    BY <1>23 DEF HandleStop, SetUp
  <2>4. op[Main] \in User => op[Main] # Cur
    BY <2>1, UserFacts
  <2> QED BY <2>1, <2>2, <2>3, <2>4, NoneAssumption DEF Delivering, Sending
<1>24. ASSUME HandleCont PROVE Delivering'
  <2>1. UNCHANGED <<pc, op, mask, frame, sigsave>> /\ Cur = "CONT"
    BY <1>24 DEF HandleCont, place, main
  <2>2. \A s \in User : local'[s] = local[s]
    BY <1>24, UserFacts DEF HandleCont, Cleared, Types, TypeArrays
  <2>3. op[Main] \in User => op[Main] # Cur
    BY <2>1, UserFacts
  <2> QED BY <2>1, <2>2, <2>3 DEF Delivering, Sending
<1> QED
  BY <1>1, <1>2, <1>3, <1>4, <1>5, <1>6, <1>7, <1>8, <1>9, <1>10, <1>11, <1>12, <1>13, <1>14,
     <1>15, <1>16, <1>17, <1>18, <1>19, <1>20, <1>21, <1>22, <1>23, <1>24, Steps

\* A completion that the main thread gets finds nothing in the hands of wait_sig that it sent.
LEMMA CompletedDelivers ==
  ASSUME Raiser \subseteq {Main}, Types, Places, OwedMain, OwedNonmain, LocalOfMain, Delivering,
         Completed(Main), op[Main] \in User
  PROVE  local[op[Main]] = 0 /\ (op[Main] \notin mask => sigsave.sig # None)
<1>1. Main \in Actor
  BY DEF Actor, Thread
<1>2. local[op[Main]] = 0
  BY <1>1, CompletedClean, UserFacts
<1>3. pc[Main] = "complete" /\ complete.main = 1
  BY DEF Completed
<1>4. ~Busy("main") /\ ~Busy("nonmain")
  BY <1>3, Alone DEF OwedMain, One, Types, TypeCatch, TypeComplete
<1>5. waitsig.at = "handle" => waitsig.rc = "nosync"
  BY <1>4 DEF Busy, Types, WaitSig
<1> QED BY <1>2, <1>3, <1>5 DEF Delivering, Sending

\* The invariant holds initially,
LEMMA InitInv == Init => IInv
<1> SUFFICES ASSUME Init PROVE IInv
  OBVIOUS
<1>1. Types
  <2>1. 1 \in DOMAIN Order
    BY OrderFacts
  <2>2. <<>> \in Seq([oldmask : SUBSET Sig, back : Place])
    OBVIOUS
  <2>3. TypeArrays /\ TypeGhosts /\ TypeCatch /\ TypeComplete
    BY DEF Init, TypeArrays, TypeGhosts, TypeCatch, TypeComplete
  <2>4. waitsig \in WaitSig
    BY <2>1 DEF Init, WaitSig
  <2>5. TypePlace
    BY DEF Init, TypePlace, Place
  <2>6. TypeMasks
    BY <2>2 DEF Init, TypeMasks, Slot, Empty
  <2>7. TypeFlags
    BY Zenon DEF Init, TypeFlags
  <2> QED BY <2>3, <2>4, <2>5, <2>6, <2>7 DEF Types
<1>2. Places
  <2>1. \A i \in 1 .. Len(stack) : stack[i].back \in Backs
    BY DEF Init
  <2> QED BY <2>1 DEF Init, Places, Nexts, Thread, Actor
<1>3. Handlers /\ Stopping
  BY NoneAssumption DEF Init, Handlers, Bound, Thread, Actor, Stopping, NotLeftStopped, Empty
<1>4. FlushLocal
  BY FlushSig DEF Init, FlushLocal
<1>5. NoSignalLost
  BY UserFacts DEF Init, NoSignalLost, Empty
<1>6. OwedMain
  BY DEF Init, OwedMain, One, Busy, Thread, Actor
<1>7. OwedNonmain
  <2>1. Completing = {}
    BY DEF Init, Completing, Actor
  <2> QED BY <2>1, FS_EmptySet DEF Init, OwedNonmain, One, Busy
<1> QED BY <1>1, <1>2, <1>3, <1>4, <1>5, <1>6, <1>7, TypeParts DEF IInv

\* and every step keeps it.
LEMMA StepInv == IInv /\ [Next]_vars => IInv'
<1> SUFFICES ASSUME IInv, [Next]_vars PROVE IInv'
  OBVIOUS
<1>1. Types /\ Places /\ Handlers /\ FlushLocal
  BY TypeParts DEF IInv
<1>2. Types'
  BY <1>1, TypeArraysStep, TypeGhostsStep, TypeCatchStep, TypeCompleteStep, TypeWaitStep,
     TypePlaceStep, TypeMasksStep, TypeFlagsStep DEF Types
<1>3. TypeOK'
  BY <1>2 DEF TypeOK, Types, TypeArrays, TypeGhosts, TypeCatch, TypeComplete, WaitSig, TypePlace,
              TypeMasks, TypeFlags
<1>4. Places' /\ Handlers' /\ FlushLocal'
  BY <1>1, PlacesStep, HandlersStep, FlushStep
<1>5. NoSignalLost' /\ OwedMain' /\ OwedNonmain' /\ Stopping'
  BY <1>1, LostStep, OwedMainStep, OwedNonmainStep, StoppingStep DEF IInv
<1> QED BY <1>3, <1>4, <1>5 DEF IInv

\* The strengthening of the properties below is an invariant.
THEOREM Inductive == Spec => []IInv
BY InitInv, StepInv, PTL DEF Spec

\* The type invariant: no count of a signal, an object or a completion falls below 0, and
\* wait_sig never looks past the last signal.
THEOREM TypeCorrect == Spec => []TypeOK
<1>1. IInv => TypeOK
  BY DEF IInv
<1> QED BY <1>1, Inductive, PTL

\* sig_send, wait_sig, setup_handler and sigdelayed: every signal sent is in one of the arrays, in
\* hand, in sigsave or has run its handler, whoever sends, blocks or is in a handler meanwhile.
THEOREM SignalsKept == Spec => []NoSignalLost
<1>1. IInv => NoSignalLost
  BY DEF IInv
<1> QED BY <1>1, Inductive, PTL

\* The handshake of sig_send and wait_sig: the main thread that waits for a completion is owed
\* one, and a completion is there only for a thread that waits, so that no kill returns on the
\* completion of an earlier one.
THEOREM CompletionsSafe == Spec => [](CompletionOwed /\ NoStaleCompletion)
<1>1. IInv => CompletionOwed /\ NoStaleCompletion
  <2> SUFFICES ASSUME IInv PROVE CompletionOwed /\ NoStaleCompletion
    OBVIOUS
  <2>1. Types /\ OwedMain /\ OwedNonmain
    BY TypeParts DEF IInv
  <2>2. CompletionOwed
    BY <2>1 DEF OwedMain, One, Busy, CompletionOwed, Types, TypeCatch, TypeComplete
  <2>3. complete.main = 1 => pc[Main] = "complete"
    BY <2>1 DEF OwedMain, One, Types, TypeCatch, TypeComplete
  <2>4. complete.nonmain <= Cardinality(Completing)
    BY <2>1, CompletingFinite DEF OwedNonmain, One, Types, TypeCatch, TypeComplete
  <2> QED BY <2>2, <2>3, <2>4 DEF NoStaleCompletion, Completing
<1> QED BY <1>1, Inductive, PTL

\* sig_handle_tty_stop and SIGCONT in sig_handle: a process that was told to continue does not
\* wait for sigCONT with the event lost.
THEOREM StopSafe == Spec => []NotLeftStopped
<1>1. IInv => NotLeftStopped
  BY DEF IInv, Stopping
<1> QED BY <1>1, Inductive, PTL

\* kill of the main thread, in a process none of whose other threads sends signals: it returns with
\* its signal off the local array, and unless the mask holds it back with a handler waiting to be
\* run, whatever other processes send, and whether the process is stopped meanwhile.
THEOREM KillReachesHandler ==
  ASSUME Raiser \subseteq {Main}
  PROVE  Spec => KillDelivers
<1> DEFINE Inv == IInv /\ OpSent /\ LocalOfMain /\ StopHeld /\ Delivering
           Delivered == pc[Main] = "complete" /\ op[Main] \in User /\ pc'[Main] # "complete" =>
                          local[op[Main]] = 0 /\ (op[Main] \notin mask => sigsave.sig # None)
<1>1. Init => Inv
  <2>1. Init => OpSent /\ Delivering
    BY DEF Init, OpSent, Delivering, Sending, Actor, Thread
  <2>2. Init => LocalOfMain /\ StopHeld
    BY DEF Init, LocalOfMain, StopHeld, Actor, Thread
  <2> QED BY <2>1, <2>2, InitInv
<1>2. Inv /\ [Next]_vars => Inv'
  BY StepInv, LocalStep, OpStep, StopHeldStep, DeliveringStep, TypeParts DEF IInv
<1>3. Inv /\ [Next]_vars => [Delivered]_vars
  <2> SUFFICES ASSUME Inv, [Next]_vars, pc[Main] = "complete", op[Main] \in User,
                      pc'[Main] # "complete"
               PROVE  local[op[Main]] = 0 /\ (op[Main] \notin mask => sigsave.sig # None)
    OBVIOUS
  <2>1. Types
    BY TypeParts DEF IInv
  <2>2. Completed(Main)
    BY <2>1, OnlyCompletedLeaves
  <2> QED BY <2>1, <2>2, CompletedDelivers DEF IInv
<1>4. KillDelivers <=> [][Delivered]_vars
  BY DEF KillDelivers
<1> QED BY <1>1, <1>2, <1>3, <1>4, PTL DEF Spec

=============================================================================
