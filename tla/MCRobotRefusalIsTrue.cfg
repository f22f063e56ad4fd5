CONSTANTS
  Threads = {main, h1}
  Main = main
  AutoStart = FALSE
  MaxItems = 2
  MaxMessages = 8
  MaxExecs = 2
  MaxDrops = 1
  Cancellable = {}
SPECIFICATION RobotSpec
PROPERTY RefusalIsTrue
CHECK_DEADLOCK FALSE
