SPECIFICATION Spec
CONSTANTS
  WORD = 4096
  MaxTasks = 2
  Intervals = {1, 30}
  Priorities = {0}
  StartTime = 0
  MaxTime = 4
  CallbacksAdd = FALSE
INVARIANT
  SleepsUntilDue
