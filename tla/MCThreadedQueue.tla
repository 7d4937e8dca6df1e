--------------------------- MODULE MCThreadedQueue ---------------------------
(* An instance of ThreadedQueue for TLC: the two loops of the server *)
EXTENDS ThreadedQueue

=============================================================================
