SPECIFICATION FairSpec
CONSTANTS
  None = None
  Projects = {"pad"}
  QueueBound = 1
  Window = 2
  FirstTimeout = 4
  Long = 3
  Short = 1
  ShortFirst = FALSE
  ForwardingEnabled = TRUE
  GapCap = 4
  InboxBound = 1
INVARIANTS
  TypeOK
  BpmOnlyWhileTracking
  SilencePausesLoop
  ClockHeld
  SlavesFollowLoop
  TempoFresh
PROPERTIES
  SilenceNoticed
