SPECIFICATION Spec
CONSTANTS
  t1 = t1
  p1 = p1
  p2 = p2
  Threads = {t1, t2}
  Pids = {p1, p2}
  ProcOf <- MCProcOf
  Socks = {s, u}
  NoSock = NoSock
  Cpus = {c}
  RingSize = 1
  StoreSize = 2
  StartSize = 1
  BytesSize = 1
  MaxActive <- MCMaxActive
  MaxBytes = 2
  MaxOps = 3
INVARIANTS TypeOK EventNamesItsCall FollowedIsReported TotalsCoverEvents
SYMMETRY AlikeSocks
CHECK_DEADLOCK FALSE
