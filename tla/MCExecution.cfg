CONSTANTS
  Threads = {t1}
  MaxMessages = 6
  MaxExecs = 2
  MaxDrops = 1
  Cancellable = {1, 2}
SPECIFICATION Spec
INVARIANTS TypeOK NoSilentOrphan StatusTellsOutcome
PROPERTIES ReleaseAfterClose OperationsEnd
CHECK_DEADLOCK FALSE
