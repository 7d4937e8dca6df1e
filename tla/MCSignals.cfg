CONSTANTS
  Sigs <- MCSigs
  Stops = FALSE
  Main = main
  Raiser = {main}
  Foreign = {p1}
  Maskable = {"USR1"}
  Suspends = TRUE
  MaxSent <- MCTwice
  None = None
SPECIFICATION Spec
INVARIANTS NoSignalLost CompletionOwed
PROPERTIES KillDelivers
CHECK_DEADLOCK FALSE
