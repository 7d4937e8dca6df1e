------------------------------- MODULE SubProc -------------------------------
(***************************************************************************)
(* Child processes in winsup/cygwin: sigproc.cc (proc_subproc and the      *)
(* wait_subproc thread), wait.cc (wait4) and the part of wait_sig that     *)
(* answers SIGCHLD.                                                        *)
(*                                                                         *)
(* Four kinds of actors meet here.  Threads of the program call wait4 and  *)
(* the main thread forks; wait_subproc waits, without a lock, for the      *)
(* handles of the children and moves the dead ones to the zombies;         *)
(* wait_sig scans the queue of waiting threads on every SIGCHLD and clears *)
(* it before a signal handler runs; the children stop, exec and exit when  *)
(* they like.  Every call of proc_subproc runs under sync_proc_subproc     *)
(* (see Muto) and is one step.                                             *)
(***************************************************************************)
EXTENDS Integers, Sequences, FiniteSets, SequencesExt

CONSTANTS
  Child,      \* process ids of children
  Job,        \* the children that belong to a process group of their own
  Execer,     \* the children that exec
  Waiter,     \* threads that call wait4
  Requests,   \* the arguments they pass: pid, WNOHANG, WUNTRACED
  Main,       \* the main thread, the one that handles signals
  PSIZE,      \* size of the array of children
  NZOMBIES,   \* size of the array of zombies
  MaxTodo,    \* bound on sigtodo[SIGCHLD] when a child stops
  Dispositions, \* what SIGCHLD may be set to: "default", "ignore", "handler"
  NoCldStop,  \* SA_NOCLDSTOP is set for SIGCHLD
  OtherSignals, \* signals with a handler arrive too
  None        \* no pid

ASSUME ThreadAssumption == IsFiniteSet(Waiter) /\ Main \in Waiter

ASSUME ChildAssumption ==
  /\ IsFiniteSet(Child) /\ Job \subseteq Child /\ Execer \subseteq Child
  /\ None \notin Child /\ Child \cap {"any", "mygroup", "job"} = {}

ASSUME RequestAssumption ==
  Requests \subseteq
    [pid : {"any", "mygroup", "job"} \cup Child, nohang : BOOLEAN, untraced : BOOLEAN]

ASSUME SizeAssumption ==
  PSIZE \in Nat \ {0} /\ NZOMBIES \in Nat \ {0} /\ MaxTodo \in Nat

ASSUME SignalAssumption ==
  /\ Dispositions \subseteq {"default", "ignore", "handler"}
  /\ NoCldStop \in BOOLEAN /\ OtherSignals \in BOOLEAN

VARIABLES
  children,   \* pchildren and hchildren: <<[pid, h]>>
  zombies,    \* zombies: <<pid>>
  waitq,      \* the list at waitq_head: <<thread>>
  w,          \* each thread's waitq structure
  hProcess,   \* hProcess in each child's pinfo, 0 before it is born
  dead,       \* the processes of each child that have ended
  stopsig,    \* stopsig in each child's pinfo, as 0 or 1
  telling,    \* stopped children that are about to send SIGCHLD
  subproc,    \* wait_subproc: where it is, the handles it waits for, the index
              \* it got, and events[0]; "done" once there is no lock any more
  sigtodo,    \* sigtodo[SIGCHLD]
  nosync,     \* sigcatch_nosync, an auto-reset event
  sigpc,      \* where wait_sig is
  blocked,    \* SIGCHLD is in the signal mask
  action,     \* the disposition of SIGCHLD
  sigsave,    \* a handler waits for the main thread to come out of wait4
  pc,         \* where each thread is in wait4
  args,       \* its arguments
  fate        \* what has become of each child

vars == <<children, zombies, waitq, w, hProcess, dead, stopsig, telling, subproc,
          sigtodo, nosync, sigpc, blocked, action, sigsave, pc, args, fate>>

tables == <<children, zombies, waitq, w, stopsig, fate>>
procs == <<hProcess, dead, telling>>
sigs == <<sigtodo, nosync, sigpc, blocked, action, sigsave>>
calls == <<pc, args>>

Target == {"any", "mygroup", "job"} \cup Child
NoRequest == [pid |-> None, nohang |-> FALSE, untraced |-> FALSE]

\* w->pid against a child: -1, 0, less than -1, or a pid
Match(target, c) ==
  \/ target = "any"
  \/ target = "mygroup" /\ c \notin Job
  \/ target = "job" /\ c \in Job
  \/ target = c

Pids == {children[i].pid : i \in DOMAIN children}
Dead(p) == p.h \in dead[p.pid]

Init ==
  /\ children = <<>> /\ zombies = <<>> /\ waitq = <<>>
  /\ w = [t \in Waiter |-> [pid |-> None, nohang |-> FALSE, untraced |-> FALSE,
                            status |-> "none", ev |-> FALSE, set |-> FALSE]]
  /\ hProcess = [c \in Child |-> 0]
  /\ dead = [c \in Child |-> {}]
  /\ stopsig = [c \in Child |-> 0]
  /\ telling = {}
  /\ subproc = [at |-> "loop", events |-> <<>>, val |-> 0, wake |-> 0]
  /\ sigtodo = 0 /\ nosync = 0 /\ sigpc = "idle"
  /\ blocked = FALSE /\ action \in Dispositions /\ sigsave = FALSE
  /\ pc = [t \in Waiter |-> "idle"]
  /\ args = [t \in Waiter |-> NoRequest]
  /\ fate = [c \in Child |-> "unborn"]

-----------------------------------------------------------------------------
(* The scan of the waiting threads: scan_wait, checkstate,                   *)
(* stopped_or_terminated and remove_zombie, on a record of the tables.       *)

Tables == [q |-> waitq, w |-> w, zs |-> zombies, stop |-> stopsig, fate |-> fate]

\* remove_zombie: the last one takes its place
RemoveZombie(zs, i) ==
  SubSeq([zs EXCEPT ![i] = zs[Len(zs)]], 1, Len(zs) - 1)

FirstMatch(seq, P(_)) == CHOOSE i \in DOMAIN seq : P(i) /\ \A j \in 1 .. i - 1 : ~P(j)

\* Mutant: the thread that was served stays in the queue.
FoundLinked(s, k, c, status) ==
  [s EXCEPT !.w[s.q[k]].pid = c, !.w[s.q[k]].status = status, !.w[s.q[k]].set = TRUE]

\* stopped_or_terminated unlinks the thread and wakes it up.
Found(s, k, c, status) ==
  [s EXCEPT !.q = RemoveAt(s.q, k),
            !.w[s.q[k]].pid = c, !.w[s.q[k]].status = status, !.w[s.q[k]].set = TRUE]

\* Mutant: WNOHANG is not looked at.
NotFoundNohang(s, k, clearing, some) ==
  LET t == s.q[k]
  IN  [s EXCEPT !.q = RemoveAt(s.q, k),
                !.w[t].pid = None,
                !.w[t].status = IF clearing THEN "signal" ELSE @,
                !.w[t].ev = IF clearing THEN @ ELSE FALSE,
                !.w[t].set = TRUE]

\* The thread found no children, or is told about a signal.
NotFound(s, k, clearing, some) ==
  LET t == s.q[k]
  IN  [s EXCEPT !.q = RemoveAt(s.q, k),
                !.w[t].pid = None,
                !.w[t].status = IF clearing THEN "signal" ELSE @,
                !.w[t].ev = IF clearing \/ (some /\ s.w[t].nohang) THEN @ ELSE FALSE,
                !.w[t].set = TRUE]

\* One turn of the loop, for the k-th thread of what the queue is by then: the
\* thread after one that is unlinked is passed over.
ScanOne(s, k, clearing) ==
  LET x == s.w[s.q[k]]
      dying(i) == Match(x.pid, s.zs[i])
      stopped(i) == /\ Match(x.pid, children[i].pid)
                    /\ x.untraced /\ s.stop[children[i].pid] # 0
      alive == \E i \in DOMAIN children : Match(x.pid, children[i].pid)
  IN  IF \E i \in DOMAIN s.zs : dying(i)
        THEN LET i == FirstMatch(s.zs, dying)
                 c == s.zs[i]
             IN  [Found(s, k, c, "exited") EXCEPT !.zs = RemoveZombie(s.zs, i),
                                                  !.fate[c] = "reaped"]
      ELSE IF \E i \in DOMAIN children : stopped(i)
        THEN LET c == children[FirstMatch(children, stopped)].pid
             IN  [Found(s, k, c, "stopped") EXCEPT !.stop[c] = 0]
      ELSE IF ~clearing /\ ~x.nohang /\ alive
        THEN s
        ELSE NotFound(s, k, clearing, alive)

\* The tables after each turn of the loop
Turns(s, clearing) ==
  LET turn[k \in 0 .. Len(s.q)] ==
        IF k = 0 THEN s
        ELSE IF k <= Len(turn[k - 1].q) THEN ScanOne(turn[k - 1], k, clearing) ELSE turn[k - 1]
  IN  turn

\* scan_wait, and waitq_head.next = NULL at the end of a clearing
Scan(s, clearing) ==
  LET done == Turns(s, clearing)[Len(s.q)]
  IN  IF clearing THEN [done EXCEPT !.q = <<>>] ELSE done

SetTables(s) ==
  /\ waitq' = s.q /\ w' = s.w /\ zombies' = s.zs
  /\ stopsig' = s.stop /\ fate' = s.fate

\* proc_subproc (PROC_CLEARWAIT, clearing)
ClearWait(clearing) == SetTables(Scan(Tables, clearing)) /\ UNCHANGED children

-----------------------------------------------------------------------------
(* The main thread: fork, sigaction, the signal mask, exit *)

\* Mutant: the new child goes to the front of the array.
ForkInFront(c) ==
  /\ pc[Main] = "idle"
  /\ fate[c] = "unborn"
  /\ Len(children) < PSIZE - 1
  /\ hProcess' = [hProcess EXCEPT ![c] = 1]
  /\ children' = <<[pid |-> c, h |-> 1]>> \o children
  /\ fate' = [fate EXCEPT ![c] = "child"]
  /\ subproc' = [subproc EXCEPT !.wake = 1]
  /\ UNCHANGED <<zombies, waitq, w, stopsig, dead, telling, sigs, calls>>

\* PROC_ADDCHILD; a child that does not fit in the table is terminated by fork,
\* which fails.
Fork(c) ==
  /\ pc[Main] = "idle"
  /\ fate[c] = "unborn"
  /\ Len(children) < PSIZE - 1
  /\ hProcess' = [hProcess EXCEPT ![c] = 1]
  /\ children' = Append(children, [pid |-> c, h |-> 1])
  /\ fate' = [fate EXCEPT ![c] = "child"]
  /\ subproc' = [subproc EXCEPT !.wake = 1]
  /\ UNCHANGED <<zombies, waitq, w, stopsig, dead, telling, sigs, calls>>

\* sigaction (SIGCHLD): pending signals are looked at again, and all are
\* forgotten unless the new disposition is a handler (sig_clear).
Sigaction(a) ==
  /\ pc[Main] = "idle"
  /\ action' = a
  /\ nosync' = IF sigtodo > 0 THEN 1 ELSE nosync
  /\ sigtodo' = IF a = "handler" THEN sigtodo ELSE 0
  /\ UNCHANGED <<tables, procs, subproc, sigpc, blocked, sigsave, calls>>

\* sigprocmask; set_process_mask has pending signals looked at again.
Sigprocmask ==
  /\ pc[Main] = "idle"
  /\ blocked' = ~blocked
  /\ nosync' = IF sigtodo > 0 THEN 1 ELSE nosync
  /\ UNCHANGED <<tables, procs, subproc, sigtodo, sigpc, action, sigsave, calls>>

\* proc_terminate at exit and exec: waits are cleared, the children disowned,
\* and the pointer to the lock is cleared.
Terminate ==
  /\ pc[Main] = "idle"
  /\ LET s == Scan(Tables, TRUE)
     IN  /\ waitq' = s.q /\ w' = s.w /\ stopsig' = s.stop
         /\ fate' = [c \in Child |->
              IF c \in Pids \/ c \in Range(s.zs) THEN "disowned" ELSE s.fate[c]]
  /\ zombies' = <<>>
  /\ children' = <<>>
  /\ subproc' = [at |-> "done", events |-> <<>>, val |-> 0, wake |-> 0]
  /\ pc' = [pc EXCEPT ![Main] = "gone"]
  /\ UNCHANGED <<procs, sigs, args>>

-----------------------------------------------------------------------------
(* wait4 *)

\* The call, up to proc_subproc: from here on handlers wait for wait4 to end.
Wait4(t, request) ==
  /\ pc[t] = "idle"
  /\ args' = [args EXCEPT ![t] = request]
  /\ pc' = [pc EXCEPT ![t] = "call"]
  /\ UNCHANGED <<tables, procs, subproc, sigs>>

\* PROC_WAIT: a pid that is not a child's is refused, else the thread enters the
\* queue and the queue is scanned.  Without the lock nothing is done.
ProcWait(t) ==
  /\ pc[t] = "call"
  /\ LET a == args[t]
         mychild == a.pid \in Child => a.pid \in Pids \cup Range(zombies)
         x == [w[t] EXCEPT !.pid = a.pid, !.nohang = a.nohang, !.untraced = a.untraced]
         y == [x EXCEPT !.status = "none", !.ev = TRUE, !.set = FALSE]
         s == CASE subproc.at = "done" -> [Tables EXCEPT !.w[t] = x]
                [] subproc.at # "done" /\ ~mychild ->
                     [Tables EXCEPT !.w[t] = [x EXCEPT !.ev = FALSE]]
                [] subproc.at # "done" /\ mychild ->
                     Scan([Tables EXCEPT !.w[t] = y, !.q = <<t>> \o @], FALSE)
     IN  /\ SetTables(s)
         /\ pc' = [pc EXCEPT ![t] = IF s.w[t].ev THEN "wait" ELSE "nochild"]
  /\ UNCHANGED <<children, procs, subproc, sigs, args>>

\* The end of wait4: status is left at -1, the arguments are gone, and a handler
\* that waits for the main thread runs.
Leave(t) ==
  /\ w' = [w EXCEPT ![t] = [@ EXCEPT !.status = "signal", !.pid = None,
                                     !.nohang = FALSE, !.untraced = FALSE]]
  /\ args' = [args EXCEPT ![t] = NoRequest]
  /\ pc' = [pc EXCEPT ![t] = "idle"]

\* wait4 returns a pid, 0 or ECHILD.
Return(t) ==
  /\ \/ pc[t] = "nochild"
     \/ pc[t] = "wait" /\ w[t].set /\ (w[t].status # "signal" \/ ~w[t].ev)
  /\ fate' = IF w[t].ev /\ w[t].status = "exited"
               THEN [fate EXCEPT ![w[t].pid] = "returned"] ELSE fate
  /\ Leave(t)
  /\ sigsave' = IF t = Main THEN FALSE ELSE sigsave
  /\ UNCHANGED <<children, zombies, waitq, stopsig, procs, subproc, sigtodo, nosync,
                 sigpc, blocked, action>>

\* A signal ended the wait: the handler runs, and the call starts again if the
\* handler was installed with SA_RESTART; otherwise EINTR.
Interrupted(t) ==
  /\ pc[t] = "wait"
  /\ w[t].set /\ w[t].ev /\ w[t].status = "signal"
  /\ \/ t = Main /\ sigsave /\ pc' = [pc EXCEPT ![t] = "call"] /\ UNCHANGED <<w, args>>
     \/ Leave(t)
  /\ sigsave' = IF t = Main THEN FALSE ELSE sigsave
  /\ UNCHANGED <<children, zombies, waitq, stopsig, fate, procs, subproc, sigtodo,
                 nosync, sigpc, blocked, action>>

-----------------------------------------------------------------------------
(* The wait_subproc thread *)

\* WaitForMultipleObjects (nchildren + 1, events, ...): it waits for the handles
\* that are in the array now.
SubWait ==
  /\ subproc.at = "loop"
  /\ subproc' = [subproc EXCEPT !.at = "wait", !.events = children]
  /\ UNCHANGED <<tables, procs, sigs, calls>>

\* A handle is signalled: the smallest index counts.
SubSignalled ==
  /\ subproc.at = "wait"
  /\ \E i \in DOMAIN subproc.events : Dead(subproc.events[i])
  /\ LET over(i) == Dead(subproc.events[i])
     IN  subproc' = [subproc EXCEPT !.at = "term", !.val = FirstMatch(subproc.events, over)]
  /\ UNCHANGED <<tables, procs, sigs, calls>>

\* The wakeup event of PROC_ADDCHILD, or the timeout of a second: look at the
\* array again.
SubAgain ==
  /\ subproc.at = "wait"
  /\ subproc.wake = 1 \/ ~\E i \in DOMAIN subproc.events : Dead(subproc.events[i])
  /\ subproc' = [subproc EXCEPT !.at = "loop", !.events = <<>>, !.wake = 0]
  /\ UNCHANGED <<tables, procs, sigs, calls>>

\* PROC_CHILDTERMINATED when the child has handed its pid to a new process
SubExeced ==
  /\ subproc.at = "term"
  /\ LET val == subproc.val
     IN  /\ children[val].h # hProcess[children[val].pid]
         /\ children' = [children EXCEPT ![val].h = hProcess[children[val].pid]]
  /\ subproc' = [subproc EXCEPT !.at = "loop", !.events = <<>>, !.val = 0]
  /\ UNCHANGED <<zombies, waitq, w, stopsig, fate, procs, sigs, calls>>

\* The arrays without the child at val: the last one moves up.
Without(val) == SubSeq([children EXCEPT ![val] = children[Len(children)]],
                       1, Len(children) - 1)

\* Mutant: the hole in the arrays is not filled with the last child.
SubTerminatedHole ==
  /\ subproc.at = "term"
  /\ LET val == subproc.val
         c == children[val].pid
     IN  /\ children[val].h = hProcess[c]
         /\ zombies' = Append(zombies, c)
         /\ children' = SubSeq(children, 1, Len(children) - 1)
  /\ subproc' = [subproc EXCEPT !.at = "send", !.events = <<>>, !.val = 0]
  /\ UNCHANGED <<waitq, w, stopsig, fate, procs, sigs, calls>>

\* PROC_CHILDTERMINATED when the child is gone: it becomes a zombie, unless
\* the table is full or SIGCHLD is ignored.
SubTerminated ==
  /\ subproc.at = "term"
  /\ LET val == subproc.val
         c == children[val].pid
     IN  /\ children[val].h = hProcess[c]
         /\ IF Len(zombies) + 1 >= NZOMBIES \/ action = "ignore"
              THEN fate' = [fate EXCEPT ![c] = "discarded"] /\ UNCHANGED zombies
              ELSE zombies' = Append(zombies, c) /\ UNCHANGED fate
         /\ children' = Without(val)
  /\ subproc' = [subproc EXCEPT !.at = "send", !.events = <<>>, !.val = 0]
  /\ UNCHANGED <<waitq, w, stopsig, procs, sigs, calls>>

\* sig_send (myself_nowait, SIGCHLD)
SubSend ==
  /\ subproc.at = "send"
  /\ sigtodo' = sigtodo + 1
  /\ nosync' = 1
  /\ subproc' = [subproc EXCEPT !.at = "loop"]
  /\ UNCHANGED <<tables, procs, sigpc, blocked, action, sigsave, calls>>

-----------------------------------------------------------------------------
(* The wait_sig thread, as far as SIGCHLD and the clearing of waits go *)

SigWake ==
  /\ sigpc = "idle" /\ nosync = 1
  /\ nosync' = 0
  /\ sigpc' = "scan"
  /\ UNCHANGED <<tables, procs, subproc, sigtodo, blocked, action, sigsave, calls>>

\* interrupt_setup: waits are cleared, and the handler runs now if the main
\* thread is not inside wait4, or when it leaves it.
Interrupt ==
  /\ ~sigsave
  /\ ClearWait(TRUE)
  /\ sigsave' = (pc[Main] \in {"call", "wait", "nochild"})

\* One SIGCHLD is taken off the array, handled if it is not blocked, and put
\* back if the handler cannot be set up: another one still waits, or
\* setup_handler finds no place where the main thread can be interrupted.
SigTake ==
  /\ sigpc = "scan" /\ sigtodo > 0
  /\ \/ /\ blocked
        /\ sigpc' = "clear"
        /\ UNCHANGED <<tables, sigtodo, nosync, sigsave>>
     \/ /\ ~blocked /\ action \in {"default", "ignore"}
        /\ sigtodo' = sigtodo - 1
        /\ sigpc' = IF sigtodo > 1 THEN "clearmore" ELSE "clear"
        /\ UNCHANGED <<tables, nosync, sigsave>>
     \/ /\ ~blocked /\ action = "handler"
        /\ Interrupt
        /\ sigtodo' = sigtodo - 1
        /\ sigpc' = IF sigtodo > 1 THEN "clearmore" ELSE "clear"
        /\ UNCHANGED nosync
     \/ /\ ~blocked /\ action = "handler"
        /\ nosync' = 1
        /\ sigpc' = "clear"
        /\ UNCHANGED <<tables, sigtodo, sigsave>>
  /\ UNCHANGED <<procs, subproc, blocked, action, calls>>

\* Mutant: the waiting threads are looked at only if SIGCHLD was handled.
SigClearHandled ==
  /\ sigpc \in {"clear", "clearmore"}
  /\ IF blocked THEN UNCHANGED tables ELSE ClearWait(FALSE)
  /\ sigpc' = IF sigpc = "clearmore" THEN "scan" ELSE "idle"
  /\ UNCHANGED <<procs, subproc, sigtodo, nosync, blocked, action, sigsave, calls>>

\* proc_subproc (PROC_CLEARWAIT, 0), and around the loop if more were counted
SigClear ==
  /\ sigpc \in {"clear", "clearmore"}
  /\ ClearWait(FALSE)
  /\ sigpc' = IF sigpc = "clearmore" THEN "scan" ELSE "idle"
  /\ UNCHANGED <<procs, subproc, sigtodo, nosync, blocked, action, sigsave, calls>>

\* No SIGCHLD is left.
SigDone ==
  /\ sigpc = "scan" /\ sigtodo = 0
  /\ sigpc' = "idle"
  /\ UNCHANGED <<tables, procs, subproc, sigtodo, nosync, blocked, action, sigsave, calls>>

\* Another signal, one that has a handler.
SigOther ==
  /\ OtherSignals
  /\ sigpc = "idle"
  /\ Interrupt
  /\ UNCHANGED <<procs, subproc, sigtodo, nosync, sigpc, blocked, action, calls>>

-----------------------------------------------------------------------------
(* The children *)

Running(c) == hProcess[c] # 0 /\ hProcess[c] \notin dead[c]

\* sig_handle_tty_stop: stopsig is set first, the parent is told afterwards.  It
\* runs in the child's main thread: the next stop comes when this one has told.
Stop(c) ==
  /\ Running(c) /\ stopsig[c] = 0 /\ c \notin telling
  /\ sigtodo < MaxTodo
  /\ stopsig' = [stopsig EXCEPT ![c] = 1]
  /\ telling' = IF NoCldStop THEN telling ELSE telling \cup {c}
  /\ UNCHANGED <<children, zombies, waitq, w, fate, hProcess, dead, subproc, sigs, calls>>

\* Mutant: the parent's event is not set.
TellSilent(c) ==
  /\ c \in telling
  /\ telling' = telling \ {c}
  /\ sigtodo' = sigtodo + 1
  /\ UNCHANGED <<tables, hProcess, dead, subproc, nosync, sigpc, blocked, action,
                 sigsave, calls>>

\* sig_send (parent, SIGCHLD), whether or not the child is still stopped
Tell(c) ==
  /\ c \in telling
  /\ telling' = telling \ {c}
  /\ sigtodo' = sigtodo + 1
  /\ nosync' = 1
  /\ UNCHANGED <<tables, hProcess, dead, subproc, sigpc, blocked, action, sigsave, calls>>

\* SIGCONT, handled by the child's wait_sig: it may be before the parent is told.
Continue(c) ==
  /\ Running(c) /\ stopsig[c] = 1
  /\ stopsig' = [stopsig EXCEPT ![c] = 0]
  /\ UNCHANGED <<children, zombies, waitq, w, fate, procs, subproc, sigs, calls>>

\* exec: the old process enters the handle of the new one and then exits.  The
\* thread that execs is not in sig_handle_tty_stop.
Exec(c) ==
  /\ c \in Execer /\ Running(c) /\ hProcess[c] = 1 /\ c \notin telling
  /\ hProcess' = [hProcess EXCEPT ![c] = 2]
  /\ UNCHANGED <<tables, dead, telling, subproc, sigs, calls>>

\* One of the child's processes ends, or is killed: a stopped one that has not
\* told its parent yet never does.
Exit(c, h) ==
  /\ h \in 1 .. hProcess[c] /\ h \notin dead[c]
  /\ dead' = [dead EXCEPT ![c] = @ \cup {h}]
  /\ telling' = IF h = hProcess[c] THEN telling \ {c} ELSE telling
  /\ UNCHANGED <<tables, hProcess, subproc, sigs, calls>>

-----------------------------------------------------------------------------
(* The specification *)

MainStep ==
  \/ \E c \in Child : Fork(c)
  \/ \E a \in Dispositions : Sigaction(a)
  \/ Sigprocmask \/ Terminate

WaitStep(t) == ProcWait(t) \/ Return(t) \/ Interrupted(t)

SubStep ==
  SubWait \/ SubSignalled \/ SubAgain \/ SubExeced \/ SubTerminated \/ SubSend

SigStep == SigWake \/ SigTake \/ SigClear \/ SigDone

ChildStep(c) ==
  Stop(c) \/ Tell(c) \/ Continue(c) \/ Exec(c) \/ \E h \in {1, 2} : Exit(c, h)

Next ==
  \/ MainStep
  \/ \E t \in Waiter : \E request \in Requests : Wait4(t, request)
  \/ \E t \in Waiter : WaitStep(t)
  \/ SubStep \/ SigStep \/ SigOther
  \/ \E c \in Child : ChildStep(c)

Spec == Init /\ [][Next]_vars

\* The threads run, and a child that has stopped goes on to tell its parent.
\* Nobody need fork, exit or send a signal.
Fairness ==
  /\ \A t \in Waiter : WF_vars(WaitStep(t))
  /\ WF_vars(SubStep)
  /\ WF_vars(SigStep)
  /\ \A c \in Child : WF_vars(Tell(c))

FairSpec == Spec /\ Fairness

-----------------------------------------------------------------------------
TypeOK ==
  /\ children \in Seq([pid : Child, h : {1, 2}])
  /\ zombies \in Seq(Child)
  /\ waitq \in Seq(Waiter)
  /\ w \in [Waiter -> [pid : Target \cup {None}, nohang : BOOLEAN, untraced : BOOLEAN,
                       status : {"none", "signal", "exited", "stopped"},
                       ev : BOOLEAN, set : BOOLEAN]]
  /\ hProcess \in [Child -> {0, 1, 2}]
  /\ dead \in [Child -> SUBSET {1, 2}]
  /\ stopsig \in [Child -> {0, 1}]
  /\ telling \subseteq Child
  /\ subproc \in [at : {"loop", "wait", "term", "send", "done"},
                  events : Seq([pid : Child, h : {1, 2}]), val : Nat, wake : {0, 1}]
  /\ sigtodo \in Nat /\ nosync \in {0, 1}
  /\ sigpc \in {"idle", "scan", "clear", "clearmore"}
  /\ blocked \in BOOLEAN /\ sigsave \in BOOLEAN
  /\ action \in {"default", "ignore", "handler"}
  /\ pc \in [Waiter -> {"idle", "call", "wait", "nochild", "gone"}]
  /\ args \in [Waiter -> [pid : Target \cup {None}, nohang : BOOLEAN, untraced : BOOLEAN]]
  /\ fate \in [Child -> {"unborn", "child", "reaped", "returned", "discarded", "disowned"}]

\* Every child is in exactly one place of one of the arrays until a wait takes
\* it, however the arrays are compacted: none is lost, none can be waited for
\* twice.
EachChildOnce ==
  \A c \in Child :
    LET places == {i \in DOMAIN children : children[i].pid = c}
        graves == {i \in DOMAIN zombies : zombies[i] = c}
    IN  Cardinality(places) + Cardinality(graves) = IF fate[c] = "child" THEN 1 ELSE 0

\* The index that WaitForMultipleObjects gave wait_subproc, without a lock, still
\* names the child whose handle was signalled when proc_subproc uses it.
IndexStable ==
  subproc.at = "term" =>
    /\ subproc.val \in DOMAIN children
    /\ children[subproc.val] = subproc.events[subproc.val]

\* A child is a zombie, or reported as terminated, only when the last process
\* that bears its pid has ended; a process that ended in an exec does not count.
OnlyDeadReaped ==
  \A c \in Child :
    c \in Range(zombies) \/ fate[c] \in {"reaped", "returned", "discarded"} => ~Running(c)

\* A child taken from the zombies is on its way to the thread it was taken for:
\* a signal that clears the waits before that thread wakes up cannot turn it
\* into EINTR.
FoundIsKept ==
  \A c \in Child :
    fate[c] = "reaped" =>
      \E t \in Waiter : /\ pc[t] = "wait" /\ w[t].pid = c
                         /\ w[t].status = "exited" /\ w[t].ev /\ w[t].set

\* The zombies fit into their table.
ZombiesFit == Len(zombies) < NZOMBIES

\* No lost SIGCHLD: while a thread is blocked and a zombie matches what it waits
\* for, a scan of the queue is still to come.
ScanToCome ==
  \A t \in Range(waitq) :
    (\E c \in Range(zombies) : Match(w[t].pid, c)) =>
      \/ subproc.at = "send"
      \/ sigpc \in {"clear", "clearmore"}
      \/ sigtodo > 0 /\ (nosync = 1 \/ sigpc = "scan")

\* A wait is answered with ECHILD in this step: by a scan that found the thread in
\* the queue, or by its own call of proc_subproc.
Echild(t) ==
  \/ w[t].ev /\ ~w'[t].ev
  \/ pc[t] = "call" /\ pc'[t] = "nochild" /\ subproc.at # "done"

\* ECHILD is honest: while the process lives, a wait for any child fails with it
\* only when there is no child left, alive or dead.
EchildHonest ==
  [][\A t \in Waiter :
       Echild(t) /\ args[t].pid = "any" => children' = <<>> /\ zombies' = <<>>]_vars

\* interrupt_setup: "Clear any waiting threads prior to dispatching to handler
\* function": the main thread does not block in wait4 while a handler waits for
\* it to come out.
HandlerNotHeldUp ==
  sigsave /\ pc[Main] = "wait" => w[Main].set \/ ~w[Main].ev

\* A thread that waits for a child whose processes have all ended returns, or
\* the child goes to another thread or was never to be waited for.
DeadChildEndsWait ==
  \A t \in Waiter, c \in Child :
    pc[t] = "wait" /\ Match(args[t].pid, c) /\ fate[c] = "child" /\ dead[c] = 1 .. hProcess[c]
      ~> pc[t] = "idle" \/ fate[c] # "child"

\* A thread that has no child left to wait for returns with an error.
NoChildEndsWait ==
  \A t \in Waiter :
    pc[t] = "wait" /\ args[t].pid = "any" /\ children = <<>> /\ zombies = <<>>
      ~> pc[t] = "idle"

\* A thread that waits with WUNTRACED returns when a child stops and tells so,
\* unless the child does not stay stopped.
StoppedChildEndsWait ==
  \A t \in Waiter, c \in Child :
    pc[t] = "wait" /\ args[t].untraced /\ Match(args[t].pid, c) /\ stopsig[c] = 1
      ~> pc[t] = "idle" \/ stopsig[c] = 0 \/ fate[c] # "child"

=============================================================================
