SPECIFICATION Spec
CONSTANTS
  None = None
  Songs = {"pad"}
  LoopDuration <- MCLoopDuration
  Notes <- MCNotes
  Bends <- MCBends
  Bpms = {120}
  PulseTicks = 1
  TickModulus = 64
  Center = 8
  Commands <- StandaloneCommands
  StoreOps = {"Create", "Clear"}
  QueueBound = 1
  LoopCountCap = 1
INVARIANTS
  PlayerAlive
