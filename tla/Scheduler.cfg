SPECIFICATION Spec
CONSTANTS
  WORD = 4096
  MaxTasks = 2
  Intervals = {2, 30}
  Priorities = {0}
  StartTime = 4094
  MaxTime = 4098
  CallbacksAdd = FALSE
INVARIANTS
  TypeOK
  SleepSparesWaiting
  StatisticsAgree
PROPERTIES
  ImplementsRounds
  ShutdownExits
  DueTasksRun
