CONSTANTS
  Threads = {t1}
  MaxTasks = 2
  MaxMessages = 5
  MaxDrops = 1
SPECIFICATION Spec
INVARIANTS TypeOK TasksAccountedFor CleanExitsAreStored OutcomesTellFate DrainedMeansEmpty
CHECK_DEADLOCK FALSE
