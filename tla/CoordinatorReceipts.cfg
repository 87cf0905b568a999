\* POST /receipts: two requests at a time, spends, audits, registry changes,
\* no crash, no comment tolls.
CONSTANTS
  w1 = w1
  w2 = w2
  s1 = s1
  s2 = s2
  a1 = a1
  Torn = Torn
  Wallets = {w1}
  Passports = {}
  Sites = {}
  Tickets = {}
  Verifications = {}
  AuditIds = {a1}
  t1 = t1
  t2 = t2
  v1 = v1
  q1 = q1
  q2 = q2
  Reqs = {q1, q2}
  Envelopes <- MCEnvelopes
  ServeCredits = 1
  VerifyCredits = 1
  StoreCredits = 2
  HasResolverKey = TRUE
  AllowUnverifiedServe = FALSE
  DailyCreditCap = 2
  BonusDailyCap = 1
  PoolDailyCap = 1
  MaxPerMinute = 1
  MaxPerMinuteWallet = 1
  MaxPerMinuteSite = 1
  WalletCooldown = 1
  HoldTtl = 1
  AuditTtl = 1
  VerificationTtl = 1
  RegistryTtl = 2
  Minute = 1
  DayLength = 2
  BonusMax = 1
  SplitNum = 1
  SplitDen = 1
  MaxSiteReceipts = 1
  Amounts = {1}
  Multipliers = {}
  InitLedger <- MCEmptyLedger
  InitPools <- MCPools
  RegistryNodes = {w1}
  MaxTime = 2
  MaxSettle = 1
  MaxCrashes = 0
SPECIFICATION Spec
SYMMETRY ReqSymmetry
INVARIANTS
  TypeOK
  NoOverdraft
  CapsRespected
  BalanceIsDerived
  RegistryStalenessBounded
CHECK_DEADLOCK FALSE
