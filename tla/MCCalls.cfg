CONSTANTS
  Threads = {t1, t2}
  MaxCalls = 2
  MaxErrors = 1
  MaxDrops = 1
SPECIFICATION Spec
SYMMETRY Symmetry
INVARIANTS TypeOK NothingDangles ResultWasAccepted RejectionHasCause ErrorReachesAll
CHECK_DEADLOCK FALSE
