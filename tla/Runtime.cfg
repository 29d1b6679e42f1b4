SPECIFICATION FairSpec
CONSTANTS
  Threads = {t1, t2}
  Main = t1
  Names = {f1}
  Levels = {0, 3}
  Keys = {k1, k2}
  NULL = NULL
  Unlocked = Unlocked
  MaxCalls = 3
  MaxEntries = 2
  NsPerUs = 1
  MaxNow = 2
CHECK_DEADLOCK FALSE
INVARIANTS TypeOK WholeLines LinesOnDisk FileIsOpen
PROPERTIES ConfigAnswers UptimeMonotone CallsReturn
