------------------------------- MODULE MCMuto -------------------------------
(* Instances of Muto for TLC *)
EXTENDS Muto, TLC

ThreadSymmetry == Permutations(Thread)

=============================================================================
