SPECIFICATION FairSpec
CONSTANTS
  Keys = {k1}
  Digests = {d1}
  Callers = {c1}
  MaxSnapshots = 1
  MaxPerQuery = 1
  Strict = FALSE
  Damage = TRUE
  MaxRuns = 2
  MaxFaults = 1
  MaxAge = 1
  MaxStops = 1

INVARIANTS LookupEpochFence RecoveryFencesCommits NoFalseCorruption
PROPERTIES Reopens OrphansReclaimed
CHECK_DEADLOCK FALSE
