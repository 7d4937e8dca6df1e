------------------------------ MODULE MCSignals ------------------------------
(* Signals with two handlers and a few senders. *)
EXTENDS Signals, TLC

\* Two signals with handlers, in order of number
MCSigs == <<"USR1", "USR2">>
MCOne == <<"USR1">>

MCTwice == [s \in Sig |-> 2]
\* The process is stopped twice.
MCJobs == [s \in Sig |-> CASE s = "STOP" -> 2 [] s = "CONT" -> 1 [] OTHER -> 1]

=============================================================================
