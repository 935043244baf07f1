SPECIFICATION Spec
CONSTANTS
  None = None
  Songs = {"pad", "stab"}
  LoopDuration <- MCLoopDuration
  Notes <- MCNotes
  Bends <- MCBends
  Bpms = {120}
  PulseTicks = 1
  TickModulus = 64
  Center = 8
  Commands <- LocalCommands
  StoreOps = {"Create", "Modify", "Clear"}
  QueueBound = 1
  LoopCountCap = 1
INVARIANTS
  TypeOK
  SilentUnlessRunning
  StoppedAtZero
  ClockModeRolling
  NoStuckNote
PROPERTIES
  ImplementsEngine
  SeamlessResume
