SPECIFICATION Spec
CONSTANTS
  Tasks = {t, u}
  Cpus = {c}
  Idle = Idle
  MapSize = 1
  BootTime = 1
  MaxTime = 4
  MaxWakeups = 3
PROPERTIES OnCpuIsRunTime
SYMMETRY Alike
CHECK_DEADLOCK FALSE
