CONSTANTS
  Amounts = {0, 1}
  DailyCap = 1
  InitialHkt = 1
  Confirm = 1
  Attestors = {"a", "b"}
  Primary = "a"
  Threshold = 2
  MaxHead = 3
  MaxEvents = 1
  MaxBurns = 1
  MaxDays = 1
  MaxFaults = 1
SPECIFICATION Spec
INVARIANT NeverMintsTwice
