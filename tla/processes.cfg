SPECIFICATION FairSpec
CONSTANTS
  a = a
  b = b
  Servers = {a, b}
  Order <- RegisteredOrder
  MaxRestarts = 2
  MaxCrashes = 2
  MaxStarts = 2
INVARIANTS OneProcessPerServer RestartsBounded UndisturbedShutdownIsClean
PROPERTIES UnhealthyServerAttended ShutdownReturnsEventually
CHECK_DEADLOCK FALSE
