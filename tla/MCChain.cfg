CONSTANTS
  Programs = {"gov", "stake", "rent", "route", "escrow", "names", "registration",
              "score", "operators", "rewards", "ns", "witness", "watchdog", "domain"}
  k1 = k1
  k2 = k2
  np = np
  na = na
  zone = zone
  n1 = n1
  pda = pda
  None = None
  Keys = {k1, k2}
  MaxSlot = 2
  GovConfigs <- MCGovConfigs
  GovAmounts = {2}
  GovMaxStake = 4
  GovSlashBps = {5000}
  GovReasons = {"r"}
  GovEpochs = {1}
  GovLockEpochs = {1}
  GovDelegates = {k1}
  GovFlags = {TRUE, FALSE}
  StakeConfigs <- MCStakeConfigs
  StakeAmounts = {1, 2}
  StakeMax = 2
  RentSizes = {0, 2}
  RentAmounts = {1, 2}
  RentMax = 5
  RentExempt = 2
  RentFloor = 3
  RentBuffer = 1
  RouteNames = {n1}
  RouteDests = {"d", "e"}
  RouteTtls = {1, 2}
  RouteEpochs = {0, 1}
  RouteWeights = {1}
  RegistryConfigs <- MCRegistryConfigs
  QuorumPda = pda
  RouteMaxVersion = 2
  EscrowConfigs <- MCEscrowConfigs
  EscrowNames = {n1}
  EscrowDeposits = {1, 2}
  EscrowMaxDeposit = 3
  Vouchers <- MCVouchers
  Zone = zone
  PremiumNames = {np, na}
  LabelLen <- MCLabelLen
  Labels = {"l"}
  TreasuryKey = k1
  NamesAuthority = k1
  AuctionSlots = {1}
  SnipingSlots = 1
  MaxAuctionEnd = 2
  MinBid = 1
  Bids = {1, 2}
  MaxBids = 2
  VaultRent = 1
  ForeignMints <- MCForeignMints
  NrWallet = k1
  NrAsked <- MCAsked
  NrConfigs <- MCNrConfigs
  NrJobs = {1}
  ScoreConfigs <- MCScoreConfigs
  ScoreEpochs = {0}
  ScoreReports <- MCScoreReports
  ScoreRewards = {2}
  ScorePenalties = {5000}
  ScoreFunding = {2}
  ScoreMaxFunds = 2
  OpConfigs <- MCOpConfigs
  OpAuthority = k1
  OpEndpoints = {1}
  OpStakes = {1}
  OpMaxStake = 2
  OpFunding = {1}
  OpMaxFunds = 2
  OpMetrics <- MCOpMetrics
  OpSlashes <- MCOpSlashes
  OpNames = {n1}
  RwConfigs <- MCRwConfigs
  RwAuthority = k1
  RwDomains = {n1}
  RwNonces = {1}
  RwAmounts = {1}
  RwMaxPaid = 2
  RwUsages <- MCRwUsages
  NsConfigs <- MCNsConfigs
  NsAdmin = k1
  NsDomains = {n1}
  NsQueries = {1, 3}
  NsFunding = {2}
  NsMaxFunds = 4
  WrConfigs <- MCWrConfigs
  WrAuthority = k1
  WrRoots = {"r1", "r2"}
  WrCounts = {2}
  WrDiversities <- MCWrDiversities
  WrMaxReceipts = 4
  WrBonds = {1}
  WrMaxBond = 1
  WrFunding = {15}
  WrMaxFunds = 15
  WdConfigs <- MCWdConfigs
  WdThresholds <- MCWdThresholds
  WdAllowlists <- MCWdAllowlists
  WdAuthority = k1
  WdNames = {n1}
  WdMaxReports = 2
  DrSplits <- MCDrSplits
  DrMinTolls = {1}
  DrDomains = {n1}
  DrAmounts = {1, 3}
  DrMaxPaid = 4
SPECIFICATION Spec
CHECK_DEADLOCK FALSE
INVARIANTS
  ChainTypeOK
  MoneyConserved
  PaidOnce
  VoucherPaidOnce
  StakeEmissionBounded
  RouteIsAggregate
  PolicyFollowsOwner
  AuctionOrdered
  PolicyCountsWatchdogs
  ReportedIsRegistered
PROPERTIES
  RouteEpochsAdvance
  StandingEarned
