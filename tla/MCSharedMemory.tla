--------------------------- MODULE MCSharedMemory ---------------------------
(* An instance of SharedMemory for TLC: a client with two threads, and one *)
(* with one                                                                *)
EXTENDS SharedMemory, TLC

CONSTANTS a1, a2, b1
MCThread == {a1, a2, b1}
MCOwner == a1 :> 1 @@ a2 :> 1 @@ b1 :> 2
MCRoutineKey == shmids

=============================================================================
