CONSTANTS
  Threads = {t1, t2}
  Ips = {i1, i2}
  Balance = 5
  Float = 1
  Reserve = 2
  Fee = 1
  DailyCap = 2
  MaxRequests = 3
  MaxTime = 2
  MaxFaults = 2
SPECIFICATION Spec
SYMMETRY Symmetry
CHECK_DEADLOCK FALSE
INVARIANTS RatchetInStep OneDripPerWindow
