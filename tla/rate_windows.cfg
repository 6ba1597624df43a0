SPECIFICATION Spec
CONSTANTS
  Rules = {"openat", "clone"}
  Pids = {p1, p2}
  Thresh <- MCThreshMixed
  Window = 2
  MapSize = 1
  ClockMod = 64
  BootTime = 3
  MaxTime = 8
  MaxCalls = 6
INVARIANTS TypeOK AlertJustified AlertsDisjoint StormCaught
SYMMETRY AlikePids
CHECK_DEADLOCK FALSE
