--------------------------- MODULE MCPthreadMutex ---------------------------
(* An instance of PthreadMutex for TLC *)
EXTENDS PthreadMutex, TLC

ThreadSymmetry == Permutations(Thread)

=============================================================================
