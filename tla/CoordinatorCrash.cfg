\* Comment tolls and node receipts sent straight to the coordinator, with
\* crashes inside saveState and between requests.
CONSTANTS
  w1 = w1
  w2 = w2
  s1 = s1
  s2 = s2
  a1 = a1
  q1 = q1
  q2 = q2
  Torn = Torn
  Wallets = {w1}
  Passports = {}
  Sites = {s1}
  t1 = t1
  t2 = t2
  v1 = v1
  Tickets = {t1, t2}
  Verifications = {}
  AuditIds = {}
  Reqs = {}
  Envelopes <- MCNoOne
  ServeCredits = 1
  VerifyCredits = 1
  StoreCredits = 1
  HasResolverKey = FALSE
  AllowUnverifiedServe = TRUE
  DailyCreditCap = 1
  BonusDailyCap = 2
  PoolDailyCap = 1
  MaxPerMinute = 1
  MaxPerMinuteWallet = 1
  MaxPerMinuteSite = 1
  WalletCooldown = 1
  HoldTtl = 1
  AuditTtl = 1
  VerificationTtl = 1
  RegistryTtl = 1
  Minute = 0
  DayLength = 2
  BonusMax = 2
  SplitNum = 1
  SplitDen = 2
  MaxSiteReceipts = 1
  Amounts = {2}
  Multipliers = {2}
  InitLedger <- MCLedger
  InitPools <- MCPools
  RegistryNodes = {}
  MaxTime = 2
  MaxSettle = 2
  MaxCrashes = 2
SPECIFICATION Spec
SYMMETRY TicketSymmetry
INVARIANTS
  AnsweredIsSaved
  NoUnpaidTicket
PROPERTIES
  TicketLifecycle
CHECK_DEADLOCK FALSE
