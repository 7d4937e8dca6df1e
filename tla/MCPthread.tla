----------------------------- MODULE MCPthread -----------------------------
(* Pthread with a main thread and two others. *)
EXTENDS Pthread, TLC

CONSTANTS t1, t2

\* The main thread manages the other two; one changes its cancellation and has
\* cleanup handlers, the other joins and cancels.
MCCalls ==
  Main :> {"create", "exit", "cancel", "detach"}
  @@ t1 :> {"exit", "set", "push", "fork"}
  @@ t2 :> {"exit", "cancel", "join"}

=============================================================================
