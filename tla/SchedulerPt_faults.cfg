SPECIFICATION Spec
CONSTANTS
  WORD = 4096
  MaxTasks = 2
  Intervals = {1, 2}
  Priorities = {0}
  StartTime = 4095
  MaxTime = 4097
  CreateMayFail = TRUE
  HookMayChange = TRUE
INVARIANTS
  TypeOK
  TickBarrier
  OneWorkerPerTask
  NoEarlyRun
  HandlesInBounds
  NoRunLost
  HookExclusive
PROPERTIES
  OverrunsAreLate
  ImplementsRounds
