\* A moderator who changes a verdict makes the plugin settle a ticket again.
CONSTANTS
  w1 = w1
  w2 = w2
  s1 = s1
  s2 = s2
  t1 = t1
  t2 = t2
  c1 = c1
  c2 = c2
  v1 = v1
  Torn = Torn
  Wallets = {w1}
  Passports = {}
  Sites = {s1, s2}
  Tickets = {t1}
  Comments = {c1, c2}
  Verifications = {v1}
  AuditIds = {}
  Reqs = {}
  Envelopes <- MCNoOne
  ServeCredits = 1
  VerifyCredits = 1
  StoreCredits = 1
  HasResolverKey = FALSE
  AllowUnverifiedServe = TRUE
  DailyCreditCap = 1
  BonusDailyCap = 4
  PoolDailyCap = 1
  MaxPerMinute = 1
  MaxPerMinuteWallet = 1
  MaxPerMinuteSite = 1
  WalletCooldown = 0
  HoldTtl = 0
  AuditTtl = 1
  VerificationTtl = 0
  RegistryTtl = 1
  Minute = 0
  DayLength = 1
  BonusMax = 2
  SplitNum = 1
  SplitDen = 4
  MaxSiteReceipts = 1
  Amounts = {4}
  Multipliers = {1, 3}
  InitLedger <- MCLedger
  InitPools <- MCPools
  RegistryNodes = {w1}
  MaxTime = 1
  MaxSettle = 2
  MaxCrashes = 0
  MaxCalls = 2
SPECIFICATION PSpec
SYMMETRY CommentSymmetry
INVARIANT
  SettledOnce
CHECK_DEADLOCK FALSE
