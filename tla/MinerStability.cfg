\* The miner witness alone: a quiet evaluation after a long attack.
CONSTANTS
  Services = {"miner"}
  k1 = k1
  k2 = k2
  n1 = n1
  n2 = n2
  d1 = d1
  None = None
  Keys = {k1, k2}
  MaxSlot = 1
  AnAdmin = k1
  AnVersions = {1}
  AnNames = {n1, n2}
  AnMints = {"m1", "m2"}
  AnDests = {"a", "b"}
  AnTtls = {60}
  AnAmounts = {1}
  LockDays = {30}
  RepConfigs <- MCRepConfigs
  RepEntries <- MCRepEntries
  RepEpochs = {1}
  RepMaxEntries = 4
  HeadRoots = {99}
  TbWallets = {k1, k2}
  TbMaxNonce = 2
  TbMaxInFlight = 2
  TbFallback = TRUE
  RollupSigner = k1
  CrEntries <- MCCrEntries
  CrBatches <- MCCrBatches
  CrOptions <- MCCrOptions
  CrEpochs = {1}
  CrMaxKept = 2
  AmStableSecs = 3
  AmMinSample = 2
  AmNever = AmNever
  RrRoutes = {"r1", "r2", "r3", "r4"}
  RrOwnerOf <- MCOwnerOf
  RrTrusted = {"w1", "w2"}
  RrAttested <- MCAttested
  RrQuorum = 2
  RrAllowed = {}
  RrPassHolders = {}
  RrMaxPoints = 2
  RrMaxWaiting = 2
  RpFields <- MCRpFields
  RpOrder <- MCRpOrder
  RpAnswers <- MCRpAnswers
  RpWitnesses = {"w1", "w2"}
  RpMaxSigned = 2
  GwDomains = {d1}
  GwSeeds <- MCGwSeeds
  GwDryRun <- MCGwDryRun
  GwConfigs <- MCGwConfigs
  NoDate = NoDate
  GwJumps = {8}
  GwMaxDay = 8
  GwAmounts = {100}
  GwMaxCredits = 100
  GwMaxRenewals = 1
  GwMaxInFlight = 2
  PaySkus <- MCPaySkus
  PayQuoteTtl = 2
  PayMaxNow = 4
  PayQuoteIds = {1}
  PayCheckoutIds = {1, 2}
  MwWallets = {"a"}
  MwWindow = 2
  MwMinute = 1
  MwBatches <- MCMwBatches
  MwEnabled = {TRUE, FALSE}
  MwMaxNow = 7
  MwMaxTotal = 20
  RgNames = {1, 2, 3}
  RgSnapshots <- MCSnapshots
  RgCacheTtl = 2
  RgMaxNow = 3
  NaEns <- MCEns
  NaSns <- MCSns
  NaReplies <- MCReplies
  NaGateways <- MCGateways
  NaMaxBytes = 2
  GrConfigs <- MCGrConfigs
  GrNames = {"a"}
  GrGated = {"a"}
  GrVouchers <- MCGrVouchers
  GrRequests = {1}
  GrRecords = {{}, {"x"}}
  GrTtls = {0, 20, 600}
  GrTtlMax = 45
  GrDests = {"d", "e"}
  GrNodes = {"n1", "n2"}
  GrWindow = 120
  GrMaxSlot = 2
  GrMaxTotal = 1
  GrJumps = {50, 150}
  GrMaxNow = 200
  HpUsers = {"u"}
  HpConns = {"c"}
  HpTokens = {"t"}
  HpZones = {"z"}
  HpDomains = {d1}
  HpTxts = {"x"}
  HpNone = "none"
  HpKeys = {"none", "k"}
  HpInstalls = {"i"}
  HpRecordKinds = {"apex", "ns"}
  HpMaxInFlight = 1
  HpMaxStates = 1
  DgUpstreams <- MCUpstreams
  DgNames = {"n"}
  DgAddresses = {"a", "b"}
  DgUnparsed = {"b"}
  DgTtls = {0, 3}
  DgZeroTtl = 2
  DgTimeout = 1
  DgTtlCap = 3
  DgMediumCap = 2
  DgLowCap = 1
  DgThreshold = 34
  DgMaxInFlight = 1
  DgMaxPage = 1
  DgMaxNow = 3
  CsSolWallets = {"s"}
  CsEvmWallets = {"e"}
  CsConfigs <- MCCsConfigs
  CsTtl = 1
  CsPassportTtl = 1
  CsCommentTtl = 1
  CsPolicies <- MCPolicies
  CsBalances = {3, 10000}
  CsTimelock = 1
  CsMaxNow = 2
  CsMaxChallenges = 2
  CsMaxJobs = 2
  CsMaxSessions = 2
  CsMaxLog = 1
  ToDomains = {"d"}
  ToSignals <- MCToSignals
  ToCacheTtl = 2
  ToCapacity = 2
  ToMaxJobs = 1
  ToMaxScans = 2
  ToMaxResults = 2
  ToMaxNow = 3
  WgNames = {"n"}
  WgDests = {"d"}
  WgTtls = {0, 9}
  WgMaxTtl = 5
  WgDefaultTtl = 3
  WgBucket = 2
  WgShown = 1
  WgMaxReceipts = 2
  WgMaxBatches = 2
  WgMaxNow = 2
SPECIFICATION Spec
CHECK_DEADLOCK FALSE
INVARIANT StabilityBeforeRelease
