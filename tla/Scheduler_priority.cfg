SPECIFICATION Spec
CONSTANTS
  WORD = 64
  MaxTasks = 2
  Intervals = {1}
  Priorities = {0, 255}
  StartTime = 0
  MaxTime = 2
  CallbacksAdd = FALSE
INVARIANT
  HighPriorityFirst
