SPECIFICATION Spec
CONSTANTS
  Threads = {a}
  Ips = {i}
  Cpus = {c}
  RingSize = 1
  StoreSize = 1
  SeenSize = 1
  MaxConns = 2
INVARIANTS SeenMeansReported
SYMMETRY Alike
CHECK_DEADLOCK FALSE
