SPECIFICATION Spec
CONSTANTS
  Keys = {k1, k2}
  Digests = {d1, d2}
  Callers = {c1, c2}
  MaxSnapshots = 1
  MaxPerQuery = 1
  Strict = TRUE
  Damage = FALSE
  MaxRuns = 3
  MaxFaults = 0
  MaxAge = 0
  MaxStops = 0
SYMMETRY Symmetry
INVARIANTS EvidencePresent SerializedPublication
CHECK_DEADLOCK FALSE
