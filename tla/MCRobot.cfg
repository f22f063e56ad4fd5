CONSTANTS
  Threads = {main, h1}
  Main = main
  AutoStart = TRUE
  MaxItems = 2
  MaxMessages = 4
  MaxExecs = 2
  MaxDrops = 1
  Cancellable = {1}
SPECIFICATION RobotSpec
INVARIANTS RobotTypeOK CleanRunIsComplete BodiesExclusive AtMostOneLateItem
PROPERTY ProcessEnds
CHECK_DEADLOCK FALSE
