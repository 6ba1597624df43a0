SPECIFICATION FairSpec
CONSTANTS
  Progs = {"syscall", "network", "cpu", "anomaly", "dashboard"}
  Order <- TwoModules
  Duration = 3
  Interval = 2
  RingSize = 2
  MaxEvents = 3
  MaxSignals = 2
INVARIANTS TerminalTypeOK EndsExplained
PROPERTIES Stops
CHECK_DEADLOCK FALSE
