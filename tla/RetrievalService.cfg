SPECIFICATION FairSpec
CONSTANTS
  Keys = {k1, k2}
  Clients = {c1, c2}
  Configurations <- MCConfigurations
  MaxFlights = 2
  MaxWaiters = 2
  MaxWaitersPerKey = 2
  CacheCap = 1
  Fresh = 1
  Retention = 1
  MaxGen = 2
  MaxPanics = 1
INVARIANTS FlightsSound PromotionFence ShutdownFinal
PROPERTIES CancellationIsolated CacheMonotone CallsAnswered
CHECK_DEADLOCK FALSE
