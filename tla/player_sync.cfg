SPECIFICATION Spec
CONSTANTS
  None = None
  Songs = {"pad", "stab"}
  LoopDuration <- MCLoopDuration
  Notes <- MCNotes
  Bends <- MCBends
  Bpms = {120}
  PulseTicks = 1
  TickModulus = 64
  Center = 8
  Commands <- SyncCommands
  StoreOps = {"Modify"}
  QueueBound = 2
  LoopCountCap = 1
INVARIANTS
  CentredWhenSilent
  NothingLeftBehind
  NotesOfConfiguredSong
  CarryInRange
PROPERTIES
  ImplementsTransport
  ImplementsEngine
