SPECIFICATION ConsoleSpec
CONSTANTS
  None = None
  Clients = {"console", "shell"}
  Console = "console"
  Keys = {"up", "down", "s", "p", "r"}
  Requests <- MCRequests
  Interval <- MCInterval
  InitialBpm = 21
  StartLatency = 1
  SppEnabled = TRUE
  Positions = {0, 1}
  TickModulus = 2
  PhaseBound = 2
  QueueBound = 1
INVARIANTS
  ConsoleTypeOK
  EvenPulses
  ScreenTruthful
  CleanExit
PROPERTIES
  ImplementsClockTransport
