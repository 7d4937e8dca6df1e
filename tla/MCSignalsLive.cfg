CONSTANTS
  Sigs <- MCOne
  Stops = TRUE
  Main = main
  Raiser = {}
  Foreign = {p1}
  Maskable = {"USR1"}
  Suspends = FALSE
  MaxSent <- MCJobs
  None = None
SPECIFICATION CallingSpec
PROPERTIES SentHandled ContinueResumes
CHECK_DEADLOCK FALSE
