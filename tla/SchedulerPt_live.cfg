SPECIFICATION Spec
CONSTANTS
  WORD = 4096
  MaxTasks = 2
  Intervals = {1, 2000}
  Priorities = {0}
  StartTime = 4095
  MaxTime = 4097
  CreateMayFail = FALSE
  HookMayChange = FALSE
PROPERTIES
  ShutdownExits
  DueTasksRun
