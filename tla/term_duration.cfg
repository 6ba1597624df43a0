SPECIFICATION FairSpec
CONSTANTS
  Progs = {"syscall"}
  Order <- TwoModules
  Duration = 3
  Interval = 2
  RingSize = 2
  MaxEvents = 1
  MaxSignals = 0
PROPERTIES StopsAfterDuration
CHECK_DEADLOCK FALSE
