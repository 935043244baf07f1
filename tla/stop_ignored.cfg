SPECIFICATION FairSpec
CONSTANTS
  None = None
  Songs = {"rest"}
  LoopDuration <- MCLoopDuration
  Notes <- MCNotes
  Bends <- MCBends
  Bpms = {120}
  PulseTicks = 1
  TickModulus = 64
  Center = 8
  Commands <- StandaloneCommands
  StoreOps = {"Create"}
  QueueBound = 1
  LoopCountCap = 1
PROPERTIES
  StopHonoured
