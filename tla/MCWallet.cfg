CONSTANTS
  Procs = {p1}
  Passes = {"a"}
  Amounts = {1}
  Drip = 3
  Fee = 1
  OTS_CAPACITY = 1
  Sealing = TRUE
  MaxOps = 2
  MaxPool = 1
  MaxFaults = 2
CONSTRAINT OneSubject
SPECIFICATION Spec
CHECK_DEADLOCK FALSE
INVARIANTS LeavesUsedOnce ScanComplete RatchetReachable
PROPERTIES MasterKept
