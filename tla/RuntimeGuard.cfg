SPECIFICATION Spec
CONSTANTS
  Procs = {p1, p2, p3}
  Keys = {serve, scheduler}
  Checks = {c1, c2}
  MaxFaults = 2
SYMMETRY Symmetry
INVARIANTS StartsAlone CleanIsDrained ConfirmedUnlessProbed
CHECK_DEADLOCK FALSE
