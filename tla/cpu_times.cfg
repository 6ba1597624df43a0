SPECIFICATION Spec
CONSTANTS
  Tasks = {t, u}
  Cpus = {c, d}
  Idle = Idle
  MapSize = 1
  BootTime = 1
  MaxTime = 4
  MaxWakeups = 2
INVARIANTS TypeOK OffCpuExact AccountedAtMostElapsed WakeupCountedOnce
PROPERTIES OnCpuNeverOver
SYMMETRY Alike
CHECK_DEADLOCK FALSE
