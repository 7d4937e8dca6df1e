---------------------------- MODULE MCPthreadCond ----------------------------
(* An instance of PthreadCond for TLC *)
EXTENDS PthreadCond

=============================================================================
