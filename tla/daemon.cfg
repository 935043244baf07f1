SPECIFICATION Spec
CONSTANTS
  None = None
  Projects = {"pad"}
  QueueBound = 1
  Clients = {"editor", "operator"}
  Requests <- MCRequests
  InitialMode = "standalone"
  HasReceiver = TRUE
  Rejected = Rejected
INVARIANTS
  TypeOK
  ErrorsChangeNothing
  CleanExit
  ClockOnlyInClockMode
