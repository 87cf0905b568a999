\* The last record of a name is removed; no upstream fails.
SPECIFICATION Spec
CONSTANTS
  a1 = a1
  a2 = a2
  N = 2
  QuorumMin = 2
  OverlapNum = 34
  OverlapDen = 100
  TtlCap = 2
  MediumTtlCap = 2
  LowTtlCap = 1
  Targets <- MCTargets
  Addresses <- MCAddresses
  Ttls <- MCTtlsOne
  Keys = {k1}
  Requests = {q1, q2}
  Liars = {}
  Truths <- MCTruthsGone
  StaleMaxS = 0
  StaleDefault = 2
  PrefetchMin = 2
  PrefetchNum = 1
  PrefetchDen = 10
  CacheMaxEntries = 1
  FlightMax = 1
  MaxTime = 5
  MaxFaults = 0
  MaxChanges = 1
  Torn = Torn
  None = None
INVARIANT
  StaleOnlyOnUpstreamError
CHECK_DEADLOCK FALSE
