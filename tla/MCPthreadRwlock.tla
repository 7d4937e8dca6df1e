--------------------------- MODULE MCPthreadRwlock ---------------------------
(* Instances of PthreadRwlock for TLC *)
EXTENDS PthreadRwlock, TLC

ThreadSymmetry == Permutations(Thread)

\* No step and no property of the run looks at what a call returned.
WithoutResults ==
  <<writer, readers, waiting_readers, waiting_writers, rwlock, pc, calls, late>>

=============================================================================
