SPECIFICATION FairSpec
CONSTANTS
  Jobs = {j1}
  Callers = {c1, c2}
  Slots = 1
  MaxFaults = 3
  MaxLeaves = 1
INVARIANT RecoveryDrained
PROPERTIES Readmits
CHECK_DEADLOCK FALSE
