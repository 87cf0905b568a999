\* One name, three upstreams of which one lies: shared refreshes, prefetches,
\* failures, stale answers, failed writes, restarts and a name that moves.
SPECIFICATION Spec
CONSTANTS
  a1 = a1
  a2 = a2
  N = 3
  QuorumMin = 2
  OverlapNum = 34
  OverlapDen = 100
  TtlCap = 3
  MediumTtlCap = 2
  LowTtlCap = 1
  Targets <- MCTargets
  Addresses <- MCAddresses
  Ttls <- MCTtls
  Keys = {k1}
  Requests = {q1, q2}
  Liars <- MCLiars
  Truths <- MCTruths
  StaleMaxS = 0
  StaleDefault = 1
  PrefetchMin = 2
  PrefetchNum = 1
  PrefetchDen = 10
  CacheMaxEntries = 1
  FlightMax = 1
  MaxTime = 5
  MaxFaults = 2
  MaxChanges = 2
  Torn = Torn
  None = None
SYMMETRY Symmetry
INVARIANTS
  TypeOK
  RefreshIsShared
  HighIsTrue
  AgeBounded
CHECK_DEADLOCK FALSE
