SPECIFICATION FairSpec
CONSTANTS
  None = None
  Songs = {"pad", "stab"}
  LoopDuration <- MCLoopDuration
  Notes <- MCNotes
  Bends <- MCBends
  Bpms = {120}
  PulseTicks = 1
  TickModulus = 64
  Center = 8
  Commands <- StandaloneCommands
  StoreOps = {"Create", "Modify"}
  QueueBound = 2
  LoopCountCap = 1
PROPERTIES
  StopHonoured
  StartHonoured
  PendingCommitted
  PassEnds
