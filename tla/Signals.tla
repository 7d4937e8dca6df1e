------------------------------- MODULE Signals -------------------------------
(***************************************************************************)
(* Signals in winsup/cygwin: sig_send, sig_dispatch_pending and the        *)
(* wait_sig thread of sigproc.cc, sig_handle, setup_handler and            *)
(* set_process_mask of exceptions.cc, the handler trampoline sigdelayed /   *)
(* sigreturn, and the calls kill, sigprocmask and sigsuspend.              *)
(*                                                                         *)
(* A signal is a count in one of two arrays, local (sent by a thread of    *)
(* the process that waits for its completion) and shared (sent by others,  *)
(* and signals put back because they are blocked).  Its sender counts it   *)
(* and then raises one of three catch objects; wait_sig takes signals off  *)
(* the array that goes with the object, and only the main thread runs      *)
(* handlers, through the single slot sigsave.  The slot can be filled      *)
(* while the main thread is in the program, or in a call that has          *)
(* registered a frame (sigframe) whose return address can be patched.      *)
(***************************************************************************)
EXTENDS Integers, Sequences, FiniteSets

CONSTANTS
  Sigs,        \* the signals with a handler, as a sequence in order of number
  Stops,       \* whether SIGSTOP and SIGCONT are sent too
  Main,        \* the main thread
  Raiser,      \* the threads, Main among them or not, that call kill on the process
  Foreign,     \* other processes that send signals
  Maskable,    \* the signals the program blocks
  Suspends,    \* whether the program calls sigsuspend
  MaxSent,     \* for each signal, bound on the number of times it is sent
  None

ASSUME SigAssumption ==
  /\ Sigs \in Seq(STRING) /\ \A s \in {"FLUSH", "STOP", "CONT"} : \A i \in DOMAIN Sigs : Sigs[i] # s
  /\ Maskable \subseteq {Sigs[i] : i \in DOMAIN Sigs}
  /\ Stops \in BOOLEAN /\ Suspends \in BOOLEAN

ASSUME ThreadAssumption ==
  /\ IsFiniteSet(Raiser) /\ IsFiniteSet(Foreign)
  /\ Foreign \cap (Raiser \cup {Main}) = {}

VARIABLES
  local, shared,    \* local_sigtodo and myself->sigtodo
  catch,            \* sigcatch_main, sigcatch_nonmain, sigcatch_nosync
  complete,         \* sigcomplete_main, sigcomplete_nonmain
  pending_signals,
  flush,
  waitsig,          \* the wait_sig thread; x is the count of the signal in hand
  sigsave,          \* the handler that waits to be run, its mask, and the one to restore
  stopped,          \* PID_STOPPED
  sigCONT,          \* the event
  ppid_handle,      \* whether the process has a Cygwin parent
  pc, op, then,     \* where each thread or process is, the signal it sends, and
                    \* what follows a call of sig_dispatch_pending
  frame,            \* mainthread.frame is set
  mask,             \* the signal mask
  arg, keep,        \* the mask a call is to set, and the one it is to restore
  stack,            \* the handlers the main thread is in
  asked,            \* the mask the program asked for
  sent, run         \* how often each signal was sent, and its handler run

vars == <<local, shared, catch, complete, pending_signals, flush, waitsig, sigsave, stopped,
          sigCONT, ppid_handle, pc, op, then, frame, mask, arg, keep, stack, asked, sent, run>>

arrays == <<local, shared>>
flags == <<pending_signals, flush>>
stop == <<stopped, sigCONT, ppid_handle>>
main == <<mask, arg, keep, stack, asked>>
place == <<pc, op, then, frame>>

\* The arrays in the order in which wait_sig looks at them
Order == <<"FLUSH">> \o Sigs \o (IF Stops THEN <<"STOP", "CONT">> ELSE <<>>)
Sig == {Order[i] : i \in DOMAIN Order}
User == {Sigs[i] : i \in DOMAIN Sigs}
Thread == Raiser \cup {Main}
Actor == Thread \cup Foreign

ASSUME NoneAssumption == None \notin Sig \cup {"STOP"}

ASSUME MaxSentAssumption == \A s \in Sig \ {"FLUSH"} : MaxSent[s] \in Nat

Empty == [sig |-> None, oldmask |-> {}, newmask |-> {}]

Init ==
  /\ local = [s \in Sig |-> 0] /\ shared = [s \in Sig |-> 0]
  /\ catch = [main |-> 0, nonmain |-> 0, nosync |-> 0]
  /\ complete = [main |-> 0, nonmain |-> 0]
  /\ pending_signals = FALSE /\ flush = FALSE
  /\ waitsig = [at |-> "idle", rc |-> "nosync", cur |-> 1, x |-> 0, more |-> FALSE]
  /\ sigsave = Empty
  /\ stopped = FALSE /\ sigCONT = 0
  /\ ppid_handle \in (IF Stops THEN BOOLEAN ELSE {TRUE})
  /\ pc = [a \in Actor |-> "run"] /\ op = [a \in Actor |-> None]
  /\ then = [a \in Thread |-> "run"]
  /\ frame = FALSE
  /\ mask = {} /\ arg = {} /\ keep = {} /\ asked = {}
  /\ stack = <<>>
  /\ sent = [s \in Sig |-> 0] /\ run = [s \in Sig |-> 0]

Goto(a, step) == pc' = [pc EXCEPT ![a] = step]

\* The caller is in the program, or in a handler, and no handler waits to be run.
Free(a) == pc[a] = "run" /\ (a = Main => sigsave.sig = None)

-----------------------------------------------------------------------------
(* sig_send and sig_dispatch_pending *)

\* sig_dispatch_pending, and the step that follows it: with the flag set the
\* caller sends itself __SIGFLUSH, otherwise it goes on, and the main thread
\* is then in a call with its frame registered unless it is back in the program.
DispatchPending(a, next) ==
  /\ then' = [then EXCEPT ![a] = next]
  /\ IF pending_signals
       THEN /\ local' = [local EXCEPT !["FLUSH"] = @ + 1]
            /\ op' = [op EXCEPT ![a] = "FLUSH"]
            /\ Goto(a, "raise")
       ELSE Goto(a, next) /\ UNCHANGED <<local, op>>
  /\ frame' = IF a # Main THEN frame
              ELSE pending_signals \/ next \in {"kill", "setmask", "suspend", "suspended"}

\* kill, up to sig_send
Kill(a) ==
  /\ Free(a) /\ a \in Raiser
  /\ \E s \in Sig \ {"FLUSH"} : sent[s] < MaxSent[s]
  /\ DispatchPending(a, "kill")
  /\ UNCHANGED <<shared, catch, complete, flags, waitsig, sigsave, stop, main, sent, run>>

\* kill_worker with no such process, or signal 0
KillNobody(a) ==
  /\ pc[a] = "kill"
  /\ Goto(a, "run")
  /\ frame' = IF a = Main THEN FALSE ELSE frame
  /\ UNCHANGED <<arrays, catch, complete, flags, waitsig, sigsave, stop, op, then, main, sent, run>>

\* sig_send: InterlockedIncrement (todo)
SigSend(a, s) ==
  /\ pc[a] = IF a \in Foreign THEN "run" ELSE "kill"
  /\ s # "FLUSH" /\ sent[s] < MaxSent[s]
  /\ sent' = [sent EXCEPT ![s] = @ + 1]
  /\ IF a \in Foreign THEN shared' = [shared EXCEPT ![s] = @ + 1] /\ UNCHANGED local
                      ELSE local' = [local EXCEPT ![s] = @ + 1] /\ UNCHANGED shared
  /\ op' = IF a \in Foreign THEN op ELSE [op EXCEPT ![a] = s]
  /\ Goto(a, "raise")
  /\ frame' = (a = Main \/ frame)
  /\ UNCHANGED <<catch, complete, flags, waitsig, sigsave, stop, then, main, run>>

\* Mutant: another process does not raise the event.
RaiseLocalOnly(a) ==
  /\ pc[a] = "raise"
  /\ catch' = IF a \in Foreign THEN catch
              ELSE IF a = Main THEN [catch EXCEPT !.main = @ + 1]
              ELSE [catch EXCEPT !.nonmain = @ + 1]
  /\ Goto(a, IF a \in Foreign THEN "run" ELSE "complete")
  /\ UNCHANGED <<arrays, complete, flags, waitsig, sigsave, stop, op, then, frame, main, sent, run>>

\* ReleaseSemaphore or SetEvent (thiscatch)
Raise(a) ==
  /\ pc[a] = "raise"
  /\ catch' = IF a \in Foreign THEN [catch EXCEPT !.nosync = 1]
              ELSE IF a = Main THEN [catch EXCEPT !.main = @ + 1]
              ELSE [catch EXCEPT !.nonmain = @ + 1]
  /\ Goto(a, IF a \in Foreign THEN "run" ELSE "complete")
  /\ UNCHANGED <<arrays, complete, flags, waitsig, sigsave, stop, op, then, frame, main, sent, run>>

\* A flush that is the first thing sigprocmask or sigsuspend does is followed by
\* call_signal_handler.
AfterFlush(a) == IF then[a] \in {"setmask", "suspend"} THEN "call" ELSE then[a]

\* Mutant: the main thread does not wait for the completion of its signal.
CompletedHasty(a) ==
  /\ pc[a] = "complete"
  /\ \/ /\ a = Main /\ (complete.main = 1 \/ op[a] # "FLUSH")
        /\ complete' = [complete EXCEPT !.main = 0]
     \/ /\ a # Main /\ complete.nonmain > 0
        /\ complete' = [complete EXCEPT !.nonmain = @ - 1]
  /\ Goto(a, IF op[a] = "FLUSH" THEN AfterFlush(a) ELSE "run")
  /\ frame' = (a # Main /\ frame)
  /\ UNCHANGED <<arrays, catch, flags, waitsig, sigsave, stop, op, then, main, sent, run>>

\* WaitForSingleObject (thiscomplete, WSSC); sig_send's own frame, which took
\* the place of its caller's, is gone.
Completed(a) ==
  /\ pc[a] = "complete"
  /\ \/ /\ a = Main /\ complete.main = 1
        /\ complete' = [complete EXCEPT !.main = 0]
     \/ /\ a # Main /\ complete.nonmain > 0
        /\ complete' = [complete EXCEPT !.nonmain = @ - 1]
  /\ Goto(a, IF op[a] = "FLUSH" THEN AfterFlush(a) ELSE "run")
  /\ frame' = (a # Main /\ frame)
  /\ UNCHANGED <<arrays, catch, flags, waitsig, sigsave, stop, op, then, main, sent, run>>

-----------------------------------------------------------------------------
(* The main thread: signal mask, handlers, stopping *)

\* set_process_mask, and the step that follows it
SetProcessMask(new, next) ==
  /\ mask' = new \ {"STOP"}
  /\ IF mask' # mask THEN DispatchPending(Main, next)
     ELSE /\ Goto(Main, next)
          /\ frame' = (next = "suspended")
          /\ UNCHANGED <<local, op, then>>

\* sigprocmask (new), up to set_process_mask
Sigprocmask(new) ==
  /\ Free(Main)
  /\ stack = <<>>
  /\ arg' = new /\ asked' = new
  /\ DispatchPending(Main, "setmask")
  /\ UNCHANGED <<shared, catch, complete, flags, waitsig, sigsave, stop, mask, keep, stack,
                 sent, run>>

\* handle_sigsuspend (temp), up to the frame it registers
Sigsuspend(temp) ==
  /\ Suspends
  /\ Free(Main)
  /\ stack = <<>>
  /\ arg' = temp
  /\ DispatchPending(Main, "suspend")
  /\ UNCHANGED <<shared, catch, complete, flags, waitsig, sigsave, stop, mask, keep, stack,
                 asked, sent, run>>

\* call_signal_handler, with no handler to call
Proceed ==
  /\ pc[Main] = "call"
  /\ sigsave.sig = None
  /\ Goto(Main, then[Main])
  /\ frame' = TRUE
  /\ UNCHANGED <<arrays, catch, complete, flags, waitsig, sigsave, stop, op, then, main, sent, run>>

\* sigprocmask calls set_process_mask.
SetMask ==
  /\ pc[Main] = "setmask"
  /\ SetProcessMask(arg, "run")
  /\ arg' = {}
  /\ UNCHANGED <<shared, catch, complete, flags, waitsig, sigsave, stop, keep, stack, asked,
                 sent, run>>

\* handle_sigsuspend notes the mask and sets the other.
Suspend ==
  /\ pc[Main] = "suspend"
  /\ keep' = mask
  /\ SetProcessMask(arg, "suspended")
  /\ arg' = {}
  /\ UNCHANGED <<shared, catch, complete, flags, waitsig, sigsave, stop, stack, asked, sent, run>>

\* signal_arrived, set with sigsave, ends the wait: the mask the handler is to
\* restore is the one from before the call; the one it runs with is not touched.
Suspended ==
  /\ pc[Main] = "suspended"
  /\ sigsave.sig # None
  /\ sigsave' = [sigsave EXCEPT !.oldmask = keep]
  /\ keep' = {}
  /\ Goto(Main, "run")
  /\ frame' = FALSE
  /\ UNCHANGED <<arrays, catch, complete, flags, waitsig, stop, op, then, mask, arg, stack,
                 asked, sent, run>>

\* sigdelayed: the mask of the handler is set ...
Dispatch ==
  /\ pc[Main] \in {"run", "call", "return"}
  /\ sigsave.sig # None
  /\ LET back == CASE pc[Main] = "run" -> "run"
                   [] pc[Main] = "call" -> then[Main]
                   [] OTHER -> Head(stack).back
         below == IF pc[Main] = "return" THEN Tail(stack) ELSE stack
     IN  stack' = <<[oldmask |-> sigsave.oldmask, back |-> back]>> \o below
  /\ SetProcessMask(sigsave.newmask, "enter")
  /\ UNCHANGED <<shared, catch, complete, flags, waitsig, sigsave, stop, arg, keep, asked,
                 sent, run>>

\* ... and sigsave is free again when the handler is entered; the one of a stop
\* is sig_handle_tty_stop, which ignores it when there is no parent to tell.
Enter ==
  /\ pc[Main] = "enter"
  /\ sigsave' = Empty
  /\ run' = [run EXCEPT ![sigsave.sig] = @ + 1]
  /\ IF sigsave.sig = "STOP" /\ ppid_handle THEN Goto(Main, "stopped") ELSE Goto(Main, "run")
  /\ stopped' = (stopped /\ (sigsave.sig = "STOP" => ppid_handle))
  /\ UNCHANGED <<arrays, catch, complete, flags, waitsig, sigCONT, ppid_handle, op, then, frame,
                 main, sent>>

\* sig_handle_tty_stop waits for sigCONT.
Resume ==
  /\ pc[Main] = "stopped"
  /\ sigCONT = 1
  /\ sigCONT' = 0
  /\ Goto(Main, "run")
  /\ UNCHANGED <<arrays, catch, complete, flags, waitsig, sigsave, stopped, ppid_handle, op, then,
                 frame, main, sent, run>>

\* sigreturn: the mask from before the handler is restored ...
HandlerReturn ==
  /\ Free(Main)
  /\ stack # <<>>
  /\ SetProcessMask(Head(stack).oldmask, "return")
  /\ UNCHANGED <<shared, catch, complete, flags, waitsig, sigsave, stop, arg, keep, stack, asked,
                 sent, run>>

\* ... and if no other handler has come up, the interrupted call goes on.
Return ==
  /\ pc[Main] = "return"
  /\ sigsave.sig = None
  /\ Goto(Main, Head(stack).back)
  /\ frame' = (Head(stack).back # "run")
  /\ stack' = Tail(stack)
  /\ UNCHANGED <<arrays, catch, complete, flags, waitsig, sigsave, stop, op, then, mask, arg, keep,
                 asked, sent, run>>

-----------------------------------------------------------------------------
(* The wait_sig thread *)

Cur == Order[waitsig.cur]

\* The object that ends the wait: after a signal of this process another
\* process's has its turn, otherwise the main thread's goes first.
Choice ==
  LET first == IF waitsig.rc = "nosync" THEN "main" ELSE "nosync"
  IN  IF catch[first] > 0 THEN first
      ELSE IF catch.main > 0 THEN "main"
      ELSE IF catch.nonmain > 0 THEN "nonmain" ELSE "nosync"

Wake ==
  /\ waitsig.at = "idle"
  /\ catch.main + catch.nonmain + catch.nosync > 0
  /\ catch' = [catch EXCEPT ![Choice] = @ - 1]
  /\ waitsig' = [at |-> "scan", rc |-> Choice, cur |-> 1, x |-> 0, more |-> FALSE]
  /\ pending_signals' = FALSE
  /\ UNCHANGED <<arrays, complete, flush, sigsave, stop, place, main, sent, run>>

Count(s) == IF waitsig.rc = "nosync" THEN shared[s] ELSE local[s]

\* Nothing to do for this signal: on to the next one, around the loop again, or
\* out.
ScanNext ==
  /\ waitsig.at = "scan"
  /\ Count(Cur) = 0
  /\ waitsig' = IF waitsig.cur < Len(Order)
                  THEN [waitsig EXCEPT !.cur = @ + 1]
                  ELSE [waitsig EXCEPT !.at = IF waitsig.more THEN "scan" ELSE "out",
                                       !.cur = 1, !.more = FALSE]
  /\ UNCHANGED <<arrays, catch, complete, flags, sigsave, stop, place, main, sent, run>>

\* After a signal: a signal of this process ends the scan, as does a failed
\* interrupt; x > 0 asks for another round.
Onward(failed, x) ==
  IF waitsig.rc # "nosync" \/ failed
    THEN [waitsig EXCEPT !.at = "out", !.cur = 1, !.x = 0, !.more = FALSE]
  ELSE IF waitsig.cur < Len(Order)
    THEN [waitsig EXCEPT !.at = "scan", !.cur = @ + 1, !.x = 0, !.more = @ \/ x > 0]
    ELSE [waitsig EXCEPT !.at = IF waitsig.more \/ x > 0 THEN "scan" ELSE "out",
                         !.cur = 1, !.x = 0, !.more = FALSE]

Blocked(s) == s # "STOP" /\ (s \in mask \/ (s # "CONT" /\ stopped))

\* A signal is taken off its array and looked up in the mask.
Take ==
  /\ waitsig.at = "scan"
  /\ Count(Cur) > 0 /\ Cur # "FLUSH"
  /\ IF waitsig.rc = "nosync" THEN shared' = [shared EXCEPT ![Cur] = @ - 1] /\ UNCHANGED local
                              ELSE local' = [local EXCEPT ![Cur] = @ - 1] /\ UNCHANGED shared
  /\ pending_signals' = (pending_signals \/ (waitsig.rc # "nosync" /\ Count(Cur) > 1))
  /\ waitsig' = [waitsig EXCEPT !.at = IF Blocked(Cur) THEN "blocked" ELSE "handle",
                                !.x = Count(Cur) - 1]
  /\ UNCHANGED <<catch, complete, flush, sigsave, stop, place, main, sent, run>>

\* Mutant: a blocked signal is forgotten.
PutBackForgetful ==
  /\ waitsig.at = "blocked"
  /\ pending_signals' = TRUE
  /\ waitsig' = Onward(FALSE, 0)
  /\ UNCHANGED <<arrays, catch, complete, flush, sigsave, stop, place, main, sent, run>>

\* A blocked signal goes to the shared array.
PutBack ==
  /\ waitsig.at = "blocked"
  /\ shared' = [shared EXCEPT ![Cur] = @ + 1]
  /\ pending_signals' = TRUE
  /\ waitsig' = Onward(FALSE, 0)
  /\ UNCHANGED <<local, catch, complete, flush, sigsave, stop, place, main, sent, run>>

\* __SIGFLUSH for the main thread has the shared array looked at next, and the
\* completion put off till then.
TakeFlush ==
  /\ waitsig.at = "scan"
  /\ Count(Cur) > 0 /\ Cur = "FLUSH"
  /\ local' = [local EXCEPT !["FLUSH"] = @ - 1]
  /\ \/ /\ waitsig.rc = "main"
        /\ flush' = TRUE
        /\ catch' = [catch EXCEPT !.nosync = 1]
        /\ waitsig' = [waitsig EXCEPT !.at = "idle", !.cur = 1, !.more = FALSE]
     \/ /\ waitsig.rc # "main"
        /\ waitsig' = Onward(FALSE, Count(Cur) - 1)
        /\ UNCHANGED <<flush, catch>>
  /\ pending_signals' = (pending_signals \/ Count(Cur) > 1)
  /\ UNCHANGED <<shared, complete, sigsave, stop, place, main, sent, run>>

\* sig_clear
Cleared(todo, ss) == [s \in Sig |-> IF s \in ss THEN 0 ELSE todo[s]]

\* setup_handler finds the slot free, and the main thread in the program or with
\* a frame registered.
CanSetUp == sigsave.sig = None /\ (frame \/ pc[Main] = "run")

\* setup_handler and interrupt_setup, which also works out the handler's mask: that
\* of sigsuspend is still part of it, though the old one is restored later
SetUp(s) ==
  /\ CanSetUp
  /\ sigsave' = [sig |-> s, oldmask |-> mask, newmask |-> mask \cup {s}]

\* sig_handle for a signal with a handler
HandleUser ==
  /\ waitsig.at = "handle" /\ Cur \in User
  /\ SetUp(Cur)
  /\ waitsig' = Onward(FALSE, waitsig.x)
  /\ UNCHANGED <<arrays, catch, complete, flags, stop, place, main, sent, run>>

\* setup_handler fails: the signal goes back, and wait_sig will try again.
HandleFails ==
  /\ waitsig.at = "handle" /\ Cur \in User \cup {"STOP"}
  /\ ~(Cur = "STOP" /\ stopped)
  /\ ~CanSetUp
  /\ shared' = [Cleared(shared, IF Cur = "STOP" THEN {"CONT"} ELSE {}) EXCEPT ![Cur] = @ + 1]
  /\ local' = Cleared(local, IF Cur = "STOP" THEN {"CONT"} ELSE {})
  /\ pending_signals' = TRUE
  /\ catch' = [catch EXCEPT !.nosync = 1]
  /\ waitsig' = Onward(TRUE, 0)
  /\ UNCHANGED <<complete, flush, sigsave, stop, place, main, sent, run>>

\* SIGSTOP: a pending SIGCONT is cleared, a second stop is eaten, and the main
\* thread is sent to sig_handle_tty_stop.
HandleStop ==
  /\ waitsig.at = "handle" /\ Cur = "STOP"
  /\ \/ stopped /\ UNCHANGED <<sigsave, stopped>>
     \/ ~stopped /\ SetUp("STOP") /\ stopped' = TRUE
  /\ local' = Cleared(local, {"CONT"}) /\ shared' = Cleared(shared, {"CONT"})
  /\ waitsig' = Onward(FALSE, waitsig.x)
  /\ UNCHANGED <<catch, complete, flags, sigCONT, ppid_handle, place, main, sent, run>>

\* Mutant: the stopped process is not woken.
HandleContSilent ==
  /\ waitsig.at = "handle" /\ Cur = "CONT"
  /\ stopped' = FALSE
  /\ local' = Cleared(local, {"STOP"}) /\ shared' = Cleared(shared, {"STOP"})
  /\ waitsig' = Onward(FALSE, waitsig.x)
  /\ UNCHANGED <<catch, complete, flags, sigsave, sigCONT, ppid_handle, place, main, sent, run>>

\* SIGCONT: pending stops are cleared, and a stopped process is woken.
HandleCont ==
  /\ waitsig.at = "handle" /\ Cur = "CONT"
  /\ stopped' = FALSE
  /\ sigCONT' = IF stopped THEN 1 ELSE sigCONT
  /\ local' = Cleared(local, {"STOP"}) /\ shared' = Cleared(shared, {"STOP"})
  /\ waitsig' = Onward(FALSE, waitsig.x)
  /\ UNCHANGED <<catch, complete, flags, sigsave, ppid_handle, place, main, sent, run>>

\* Mutant: a flush does not complete anything.
OutFlushForgotten ==
  /\ waitsig.at = "out"
  /\ complete' = IF waitsig.rc = "nonmain" THEN [complete EXCEPT !.nonmain = @ + 1]
                 ELSE IF waitsig.rc = "main" THEN [complete EXCEPT !.main = 1]
                 ELSE complete
  /\ flush' = FALSE
  /\ waitsig' = [waitsig EXCEPT !.at = "idle"]
  /\ UNCHANGED <<arrays, catch, pending_signals, sigsave, stop, place, main, sent, run>>

\* out: the completion is signalled to whoever waits for it.
Out ==
  /\ waitsig.at = "out"
  /\ complete' = IF waitsig.rc = "nonmain" THEN [complete EXCEPT !.nonmain = @ + 1]
                 ELSE IF waitsig.rc = "main" \/ flush THEN [complete EXCEPT !.main = 1]
                 ELSE complete
  /\ flush' = IF waitsig.rc = "nonmain" THEN flush ELSE FALSE
  /\ waitsig' = [waitsig EXCEPT !.at = "idle"]
  /\ UNCHANGED <<arrays, catch, pending_signals, sigsave, stop, place, main, sent, run>>

-----------------------------------------------------------------------------
(* The specification *)

SendStep(a) == KillNobody(a) \/ Raise(a) \/ Completed(a)

HandlerStep ==
  \/ Proceed \/ SetMask \/ Suspend \/ Suspended
  \/ Dispatch \/ Enter \/ Resume \/ HandlerReturn \/ Return

WaitSigStep ==
  \/ Wake \/ ScanNext \/ Take \/ PutBack \/ TakeFlush \/ HandleUser \/ HandleFails
  \/ HandleStop \/ HandleCont \/ Out

Next ==
  \/ \E a \in Actor, s \in Sig : SigSend(a, s)
  \/ \E a \in Raiser : Kill(a)
  \/ \E a \in Actor : SendStep(a)
  \/ \E new \in SUBSET Maskable : Sigprocmask(new) \/ Sigsuspend(new)
  \/ HandlerStep
  \/ WaitSigStep

Spec == Init /\ [][Next]_vars

\* Threads and processes that can run do; handlers return.  Nobody need send a
\* signal or change the mask.
Fairness ==
  /\ \A a \in Actor : WF_vars(SendStep(a))
  /\ WF_vars(HandlerStep)
  /\ WF_vars(WaitSigStep)

FairSpec == Spec /\ Fairness

\* The program goes on making calls that start with sig_dispatch_pending.
CallingSpec == FairSpec /\ WF_vars(\E new \in SUBSET Maskable : Sigprocmask(new))

-----------------------------------------------------------------------------
Slot == [sig : Sig \cup {None}, oldmask : SUBSET Sig, newmask : SUBSET Sig]
Place == {"run", "raise", "complete", "kill", "call", "setmask", "suspend", "suspended",
          "enter", "stopped", "return"}

TypeOK ==
  /\ local \in [Sig -> Nat] /\ shared \in [Sig -> Nat]
  /\ catch \in [main : Nat, nonmain : Nat, nosync : {0, 1}]
  /\ complete \in [main : {0, 1}, nonmain : Nat]
  /\ pending_signals \in BOOLEAN /\ flush \in BOOLEAN
  /\ mask \in SUBSET Sig /\ asked \in SUBSET Sig
  /\ sigsave \in Slot
  /\ waitsig \in [at : {"idle", "scan", "blocked", "handle", "out"}, rc : {"main", "nonmain", "nosync"},
                  cur : DOMAIN Order, x : Nat, more : BOOLEAN]
  /\ stopped \in BOOLEAN /\ sigCONT \in {0, 1}
  /\ pc \in [Actor -> Place]
  /\ op \in [Actor -> Sig \cup {None}]
  /\ then \in [Thread -> Place]
  /\ frame \in BOOLEAN /\ ppid_handle \in BOOLEAN
  /\ arg \in SUBSET Sig /\ keep \in SUBSET Sig
  /\ stack \in Seq([oldmask : SUBSET Sig, back : Place])
  /\ sent \in [Sig -> Nat] /\ run \in [Sig -> Nat]

\* Every signal sent is in one of the arrays, in the hands of wait_sig, in
\* sigsave, or has run its handler once: none is lost or doubled on its way
\* between the arrays.
NoSignalLost ==
  \A s \in User :
    sent[s] = local[s] + shared[s] + run[s]
              + (IF waitsig.at \in {"blocked", "handle"} /\ Cur = s THEN 1 ELSE 0)
              + (IF sigsave.sig = s THEN 1 ELSE 0)

\* kill of the main thread returns when wait_sig is done with its signal: it is off
\* the local array, and if the mask lets it through then a handler waits to be
\* run before the program goes on, its own or one that was in its way.  (With
\* another thread that sends signals wait_sig may complete the wrong kill, see
\* the FIXME in wait_sig.)
KillDelivers ==
  [][pc[Main] = "complete" /\ op[Main] \in User /\ pc'[Main] # "complete" =>
       local[op[Main]] = 0 /\ (op[Main] \notin mask => sigsave.sig # None)]_vars

\* wait_sig: "returns from kill/raise do not occur until the signal has been
\* handled, as per POSIX".  It does not hold: setup_handler fails if another
\* handler waits to be run, and the signal is put back.
KillReturnsHandled ==
  [][\A s \in User \ mask :
       pc[Main] = "complete" /\ op[Main] = s /\ pc'[Main] # "complete" =>
         sigsave.sig = s \/ shared[s] = 0]_vars

\* The declaration of pending_signals: "true if signals pending".  It is what
\* sig_dispatch_pending goes by when the mask has changed.
PendingFlagHonest ==
  waitsig.at = "idle" /\ catch.nosync = 0 /\ (\A a \in Foreign : pc[a] # "raise") =>
    pending_signals \/ \A s \in User : shared[s] = 0

\* A completion is there only for a thread that waits for one: nobody's kill
\* returns on the completion of an earlier one.
NoStaleCompletion ==
  /\ complete.main = 1 => pc[Main] = "complete"
  /\ complete.nonmain <= Cardinality({a \in Thread \ {Main} : pc[a] = "complete"})

\* A thread that waits for the completion of its signal gets one: wait_sig owes
\* it one for every catch object raised.
CompletionOwed ==
  pc[Main] = "complete" =>
    \/ complete.main = 1 \/ catch.main = 1 \/ flush
    \/ waitsig.at # "idle" /\ waitsig.rc = "main"

\* set_process_mask: "Set the signal mask for this process": outside handlers the
\* mask is the one the program asked for.
MaskKept ==
  pc[Main] = "run" /\ stack = <<>> /\ sigsave.sig = None => mask = asked

\* A stopped process has been told to stop, and one that was told to continue
\* is not left waiting: the wakeup cannot come before the wait and be lost.
NotLeftStopped ==
  pc[Main] = "stopped" => stopped \/ sigCONT = 1

\* A signal sent by another process has its handler run if the program unblocks it
\* for good, goes on making calls, and is not stopped.  This is so in a program
\* that sends itself nothing: see the README for one that does.
SentHandled ==
  \A s \in User : <>[](s \notin asked) => (sent[s] > run[s] ~> sent[s] = run[s] \/ stopped)

\* kill returns.
KillReturns == \A a \in Thread : pc[a] = "complete" ~> pc[a] # "complete"

\* handle_sigsuspend is called a "Non-raceable sigsuspend" whose mask will "Let
\* signals we're interested in through": a pending signal that is not in the
\* mask of sigsuspend ends it.
SuspendWakes ==
  \A s \in User : pc[Main] = "suspended" /\ shared[s] > 0 /\ s \notin mask ~> pc[Main] # "suspended"

\* handle_sigsuspend: "A signal dispatch function will have been added to our
\* stack": a thread that waits in sigsuspend has a frame for it.
SuspendedInFrame == pc[Main] = "suspended" => frame

NoStopComing ==
  /\ sent["STOP"] = MaxSent["STOP"] /\ shared["STOP"] = 0
  /\ ~(waitsig.at = "handle" /\ Cur = "STOP")

\* A process that is sent SIGCONT while it is stopped, and no SIGSTOP after it,
\* goes on.
ContinueResumes ==
  pc[Main] = "stopped" /\ shared["CONT"] > 0 /\ NoStopComing ~> pc[Main] # "stopped"

=============================================================================
