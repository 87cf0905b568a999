\* Two names in a cache of one entry, with failed writes and restarts.
SPECIFICATION FairSpec
CONSTANTS
  a1 = a1
  a2 = a2
  N = 1
  QuorumMin = 1
  OverlapNum = 34
  OverlapDen = 100
  TtlCap = 2
  MediumTtlCap = 2
  LowTtlCap = 1
  Targets <- MCTargets
  Addresses <- MCAddresses
  Ttls <- MCTtlsOne
  Keys = {k1, k2}
  Requests = {q1, q2}
  Liars = {}
  Truths <- MCTruthsOne
  StaleMaxS = 0
  StaleDefault = 1
  PrefetchMin = 2
  PrefetchNum = 1
  PrefetchDen = 10
  CacheMaxEntries = 1
  FlightMax = 1
  MaxTime = 4
  MaxFaults = 2
  MaxChanges = 1
  Torn = Torn
  None = None
INVARIANTS
  CacheBounded
PROPERTY
  EveryRequestEnds
CHECK_DEADLOCK FALSE
