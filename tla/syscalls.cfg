SPECIFICATION Spec
CONSTANTS
  proc1 = proc1
  proc2 = proc2
  lead1 = lead1
  other1 = other1
  lead2 = lead2
  Pids = {proc1, proc2}
  Ids = {lead1, other1, lead2}
  PidOf <- MCPidOf
  Leader <- MCLeader
  InfoSize = 3
  BytesSize = 1
  MaxBytes = 1
  MaxOps = 2
INVARIANTS TypeOK EventNamesItsCall ReturnedIsReported LeftoversExplained TotalsMatchEvents
CHECK_DEADLOCK FALSE
