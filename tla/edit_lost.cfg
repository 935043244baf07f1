SPECIFICATION Spec
CONSTANTS
  None = None
  Projects = {"pad", "stab"}
  QueueBound = 1
  Clients = {"editor"}
  Requests <- EditRequests
  InitialMode = "standalone"
  HasReceiver = FALSE
  Rejected = Rejected
PROPERTIES
  TempoChangesOnlyTempo
