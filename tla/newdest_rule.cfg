SPECIFICATION FairSpec
CONSTANTS
  Threads = {a, b}
  Ips = {i, j}
  Cpus = {c, d}
  RingSize = 1
  StoreSize = 2
  SeenSize = 1
  MaxConns = 2
INVARIANTS TypeOK AlertNamesTheConnection EveryContactAlerted RepeatNeedsFullMap
PROPERTIES ContactSettles
CHECK_DEADLOCK FALSE
