SPECIFICATION Spec
CONSTANTS
  t1 = t1
  t2 = t2
  t3 = t3
  p1 = p1
  p2 = p2
  Threads = {t1, t2, t3}
  Pids = {p1, p2}
  ProcOf <- MCProcOf
  Thresh = 2
  Window = 1
  MapSize = 2
  ClockMod = 64
  BootTime = 2
  Builds = {"register", "memory"}
  MaxTime = 4
  MaxCalls = 3
  MaxRun = 2
INVARIANTS TypeOK AlertsBounded
PROPERTIES ImplementsRateWindow
CHECK_DEADLOCK FALSE
