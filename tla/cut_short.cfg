SPECIFICATION Spec
CONSTANTS
  None = None
  Projects <- MCProjects
  SyncTempi = {}
  Interval <- MCInterval
  StartLatency = 1
  TimeBound = 8
  PassBound = 2
PROPERTIES
  PassesFinish
CHECK_DEADLOCK FALSE
