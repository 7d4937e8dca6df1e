------------------------------ MODULE MCSubProc ------------------------------
(* Child processes with a few children and threads. *)
EXTENDS SubProc, TLC

Request(pid, nohang, untraced) == [pid |-> pid, nohang |-> nohang, untraced |-> untraced]

\* wait, waitpid for one child or for a process group, and polling with WNOHANG
MCRequests ==
  { Request("any", FALSE, TRUE), Request("any", TRUE, FALSE),
    Request("mygroup", FALSE, FALSE), Request("job", FALSE, TRUE) }
  \cup { Request(c, FALSE, FALSE) : c \in Execer }

\* waitpid (..., WUNTRACED) only
MCWaitStopped == { Request("any", FALSE, TRUE) } \cup { Request(c, FALSE, TRUE) : c \in Job }

=============================================================================
