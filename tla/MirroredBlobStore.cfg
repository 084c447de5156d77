SPECIFICATION FairSpec
CONSTANTS
  Ops = {o1}
  Probe = probe
  Callers = {c1}
  Slots = 1
  MaxFaults = 1
  MaxLoad = 1
  MaxExtras = 1
INVARIANTS DrainedUnlessTorn
PROPERTIES Readmits PermitsReturn
CHECK_DEADLOCK FALSE
