CONSTANTS
  Threads = {t1}
  MaxTasks = 1
  MaxMessages = 4
  MaxDrops = 0
SPECIFICATION Spec
INVARIANT AtMostOneOutcome
CHECK_DEADLOCK FALSE
