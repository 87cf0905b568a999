------------------------------ MODULE MCChain ------------------------------
(***************************************************************************)
(* The Solana programs, for TLC.  The programs keep their own accounts and *)
(* call no other program of the project, so a behaviour of all of them is  *)
(* an interleaving in which each sees only itself and the clock: it is     *)
(* enough to run them one at a time.  Init chooses which; the accounts of  *)
(* the others stay as they are.  Names and the programs that read them     *)
(* (miner scores, the registration service) run together.                  *)
(***************************************************************************)
EXTENDS StakeGov, Stake, RentBond, RouteQuorum, Escrow, NamesRegistration,
        MinerScore, Operators, Rewards, NsIncentives, WitnessRewards,
        WatchdogPolicy, TLC

CONSTANTS Programs,          \* the programs that are run
          k1, k2,            \* two wallets
          np, na, zone, n1,  \* a premium name, an auctioned one, the zone, a name
          pda                \* the authority of the quorum program

ASSUME MCChainAssumption == k1 \in Keys /\ {np, na} \subseteq PremiumNames /\ "l" \in Labels

VARIABLE program

-----------------------------------------------------------------------------
MCGovConfig ==
  [authority |-> None, epochLen |-> 1, minStake |-> 1, maxVerifiers |-> 1,
   minLock |-> 1, maxLock |-> 2, maxSlashBps |-> 5000, exitCooldown |-> 1,
   disputeWindow |-> 1, jailEpochs |-> 1,
   tiers |-> << [epochs |-> 0, multiplier |-> 10000],
                [epochs |-> 2, multiplier |-> 12000] >>,
   slashAuthorities |-> {k1}, snapshotSubmitters |-> {k1}]

\* One to be taken and one whose tiers init_config refuses.
MCGovConfigs ==
  {MCGovConfig, [MCGovConfig EXCEPT !.tiers[2].multiplier = 9000]}

MCStakeConfigs == {[epochLen |-> 1, rate |-> 1, minLock |-> 1]}

\* One that leaves the routes to the quorum, and one to a wallet.
MCRegistryConfig(finalizer, epochLen) ==
  [authority |-> k1, finalizeAuthority |-> finalizer, ttlMin |-> 1, ttlMax |-> 1,
   epochLen |-> epochLen, minReceipts |-> 1, minWeight |-> 1]
MCRegistryConfigs == {MCRegistryConfig(pda, 1), MCRegistryConfig(pda, 2),
                      MCRegistryConfig(k1, 1)}

\* Shares that round; three vouchers, two of them over one nonce.
MCEscrowConfigs ==
  {[domainBps |-> 5000, minersBps |-> 2500, treasuryBps |-> 2500, signers |-> s] :
     s \in {{}, {k1}}}
MCVoucher(amount, nonce, after, expires, signers) ==
  [payer |-> k1, nonce |-> nonce, name |-> n1, amount |-> amount,
   validAfter |-> after, expiresAt |-> expires, signedBy |-> signers]
MCVouchers == {MCVoucher(1, 1, 0, 1, {k1}), MCVoucher(2, 1, 0, 2, {k1, k2}),
               MCVoucher(1, 2, 1, 2, {k2}), MCVoucher(1, 3, 1, 2, {k1})}

MCScoreConfigs ==
  {[epochLen |-> 1, diversityTarget |-> 2, alphaCorrectness |-> 4000,
    alphaDiversity |-> 2000, alphaTimeliness |-> 2000, alphaUptime |-> 2000,
    penalty |-> 5000, threshold |-> 5000, submitters |-> {k1}, miners |-> {k1, k2},
    minStakeWeight |-> 1, cap |-> 2, premiumRequired |-> TRUE]}
MCScoreReports ==
  {[stakeWeight |-> 1, names |-> 1, first |-> 0, uptime |-> 10000,
    correctness |-> 10000, dominance |-> 6000]}

MCOpConfig(enabled, minStake) ==
  [epochLen |-> 1, minStake |-> minStake, maxEndpoints |-> 1, perQuery |-> 1,
   perReceipt |-> 1, uptimeBonus |-> 1, latencyThreshold |-> 5, latencyBonus |-> 1,
   maxRewards |-> 2, submitters |-> {k1}, slashers |-> {}, enabled |-> enabled]
MCOpConfigs == {MCOpConfig(TRUE, 1), MCOpConfig(TRUE, 2)}
MCOpMetrics == {[queries |-> 1, receipts |-> 0, uptime |-> 10000, latency |-> 6],
                [queries |-> 0, receipts |-> 1, uptime |-> 0, latency |-> 5]}

MCOpSlashes == {<<4000, 0>>, <<5000, 0>>}

MCRwConfig(enabled, verifiers) ==
  [epochLen |-> 1, shareBps |-> 5000, rewardBps |-> 5000, minToll |-> 1,
   maxReward |-> 1, minWallets |-> 1, challengeTtl |-> 1, enabled |-> enabled,
   verifiers |-> verifiers]
MCRwConfigs == {MCRwConfig(TRUE, {}), MCRwConfig(FALSE, {k1})}
MCRwUsages == {[tolls |-> 2, wallets |-> 1], [tolls |-> 2, wallets |-> 0]}

MCNsConfig(set, range) ==
  [epochLen |-> 1, nsSet |-> set, minAttestors |-> 1, perQuery |-> 1,
   maxReward |-> 2, claimRange |-> range, verifiers |-> {k1}]
MCNsConfigs == {MCNsConfig("s1", 2), MCNsConfig("s2", 1)}

MCWrConfigs ==
  {[epochLen |-> 1, maxReward |-> 15, minBond |-> 1, perReceipt |-> 5,
    maxReceipts |-> 2, cooldown |-> 1, enabled |-> TRUE]}
MCWrDiversities == {<<0, 655>>, <<10, 655>>}

MCWdConfig(watchdogs, submitters) ==
  [epochLen |-> 1, minWatchdogs |-> 2, warn |-> 3000, quarantine |-> 7000,
   watchdogs |-> watchdogs, submitters |-> submitters]
MCWdConfigs == {MCWdConfig({k1, k2}, {})}
MCWdThresholds == {<<3000, 10000>>}
MCWdAllowlists == {<<{k2}, {k1}>>}

MCDrSplits == {<<5000, 2500, 2500>>, <<0, 10000, 0>>}

MCLabelLen == (np :> 5) @@ (na :> 3)
MCForeignMints == "fm" :> {k1}
MCAsked == {[mode |-> "premium", name |-> np],
            [mode |-> "subdomain", label |-> "l", parent |-> zone],
            [mode |-> "subdomain", label |-> "l", parent |-> np]}
MCNrConfigs == {[deployed |-> TRUE, writeEnabled |-> TRUE]}

-----------------------------------------------------------------------------
Vars == <<program, slot, govVars, stakeVars, rentVars, routeVars, escrowVars,
          namesVars, nrVars, scoreVars, opVars, rwVars, nsVars, wrVars, wdVars, drVars>>

Init ==
  /\ program \in Programs
  /\ ChainInit /\ GovInit /\ StakeInit /\ RentInit /\ RouteInit /\ EscrowInit
  /\ NamesInit /\ NrInit /\ ScoreInit /\ OpInit /\ RwInit /\ NsInit /\ WrInit
  /\ WdInit /\ DrInit

\* Bounds of single programs, beside those of the constants: one staker and
\* one operator; one admin of verifier sets, two aggregates and references to
\* those of one wallet; subdomains and tokens, and auctions and registrations, not in one behaviour; one owner of
\* name server claims; miner scores after the set-up of the names; no clock
\* where a program does not read it, and a shorter one where two epochs do.
Within ==
  CASE program = "gov" -> DOMAIN govPositions' \subseteq {k1}
    [] program = "route" ->
         /\ slot' <= 1
         /\ registryConfig' # None => registryConfig'.authority = k1
         /\ Cardinality(DOMAIN aggregates') <= 2
         /\ \A n \in DOMAIN canonicalRoutes' :
              canonicalRoutes'[n].aggregate \in {None} \cup (RouteEpochs \X RouteNames \X {k1})
         /\ \A e \in DOMAIN verifierSets' :
              verifierSets'[e].admin = k1 /\ verifierSets'[e].members \in {{}, {k1}}
    [] program = "names" ->
         /\ subNames' = NoAccounts \/ (DOMAIN subNames' = {<<na, "l">>} /\ DOMAIN tokens' = {Foreign("fm")})
    [] program = "registration" ->
         slot' = 0 /\ tokens'[Foreign("fm")] = {k1} /\ (auctions' = NoAccounts \/ (nrRunning'[1] = NotRunning
           /\ nrReport' = NoReport /\ subNames' = NoAccounts /\ np \notin DOMAIN premium'))
    [] program = "operators" -> slot' <= 1 /\ DOMAIN operators' \subseteq {k1}
    [] program = "score" ->
         slot' = 0 /\ (scoreConfig' # None => namesConfig' # None /\ premiumConfig')
    [] program = "ns" -> \A d \in DOMAIN nsClaims' : nsClaims'[d].owner = k1
    [] program = "witness" -> slot' <= 1 /\ Cardinality(DOMAIN wrStats') <= 2
    [] program = "watchdog" -> slot' <= 1
    [] OTHER -> TRUE

\* Every program but those of S is left alone, and the bounds are kept.
Alone(S) ==
  /\ UNCHANGED program
  /\ IF "gov" \in S THEN TRUE ELSE UNCHANGED govVars
  /\ IF "stake" \in S THEN TRUE ELSE UNCHANGED stakeVars
  /\ IF "rent" \in S THEN TRUE ELSE UNCHANGED rentVars
  /\ IF "route" \in S THEN TRUE ELSE UNCHANGED routeVars
  /\ IF "escrow" \in S THEN TRUE ELSE UNCHANGED escrowVars
  /\ IF "names" \in S THEN TRUE ELSE UNCHANGED namesVars
  /\ IF "registration" \in S THEN TRUE ELSE UNCHANGED nrVars
  /\ IF "score" \in S THEN TRUE ELSE UNCHANGED scoreVars
  /\ IF "operators" \in S THEN TRUE ELSE UNCHANGED opVars
  /\ IF "rewards" \in S THEN TRUE ELSE UNCHANGED rwVars
  /\ IF "ns" \in S THEN TRUE ELSE UNCHANGED nsVars
  /\ IF "witness" \in S THEN TRUE ELSE UNCHANGED wrVars
  /\ IF "watchdog" \in S THEN TRUE ELSE UNCHANGED wdVars
  /\ IF "domain" \in S THEN TRUE ELSE UNCHANGED drVars
  /\ Within

\* What other wallets do to the name np while a registration runs.
Interference ==
  \E k, to \in Keys : \/ TransferPremium(np, k, to)
                      \/ \E m \in DOMAIN tokens : TransferToken(m, k, to)

\* The names a miner may own.
MinersNames ==
  \/ InitNamesConfig(TRUE, TRUE) \/ InitPremiumConfig(k1)
  \/ \E k, to \in Keys : PurchasePremium(np, k1) \/ TransferPremium(np, k, to)

Next ==
  \/ program = "gov" /\ GovNext /\ UNCHANGED slot /\ Alone({"gov"})
  \/ program = "stake" /\ StakeNext /\ UNCHANGED slot /\ Alone({"stake"})
  \/ program = "rent" /\ RentNext /\ UNCHANGED slot /\ Alone({"rent"})
  \/ program = "route" /\ RouteNext /\ UNCHANGED slot /\ Alone({"route"})
  \/ program = "escrow" /\ EscrowNext /\ UNCHANGED slot /\ Alone({"escrow"})
  \/ program = "names" /\ NamesSteps({na}, {"l"}) /\ UNCHANGED slot /\ Alone({"names"})
  \/ program = "registration" /\ NrNext /\ UNCHANGED slot
       /\ Alone({"names", "registration"})
  \/ program = "registration" /\ Interference /\ UNCHANGED slot /\ Alone({"names"})
  \/ program = "score" /\ ScoreNext /\ UNCHANGED slot /\ Alone({"score"})
  \/ program = "score" /\ MinersNames /\ UNCHANGED slot /\ Alone({"names"})
  \/ program = "operators" /\ OpNext /\ UNCHANGED slot /\ Alone({"operators"})
  \/ program = "rewards" /\ RwNext /\ UNCHANGED slot /\ Alone({"rewards"})
  \/ program = "ns" /\ NsNext /\ UNCHANGED slot /\ Alone({"ns"})
  \/ program = "witness" /\ WrNext /\ UNCHANGED slot /\ Alone({"witness"})
  \/ program = "watchdog" /\ WdNext /\ UNCHANGED slot /\ Alone({"watchdog"})
  \/ program = "domain" /\ DrNext /\ UNCHANGED slot /\ Alone({"domain"})
  \/ NewSlot /\ Alone({})

Spec == Init /\ [][Next]_Vars

-----------------------------------------------------------------------------
\* The accounts of every program have the form its structs give them.
ChainTypeOK ==
  /\ GovTypeOK /\ StakeTypeOK /\ RentTypeOK /\ RouteTypeOK /\ EscrowTypeOK
  /\ NamesTypeOK /\ ScoreTypeOK /\ OpTypeOK /\ RwTypeOK /\ NsTypeOK /\ WrTypeOK
  /\ WdTypeOK

\* No program makes or loses tokens or lamports: the vaults of stakes, rents and
\* bids hold what the records of their owners say, parts that are locked or asked
\* for never exceed the stake, and what was paid has arrived in full, with every
\* rounding.  The exception is the vault of a bidder who has withdrawn, which
\* holds no more than its record says (BidsBacked).
MoneyConserved ==
  /\ GovSolvent /\ GovPartsOfStake /\ StakeBacked /\ RentCovered
  /\ EscrowConserved /\ TollsConserved /\ RouteTollsConserved /\ OnlyOwnersEarn
  /\ BidsBacked

\* Miners, operators, name servers and witnesses are paid once for what they
\* did in an epoch, and never beyond its budget, in whatever order reports,
\* penalties, changes of the configuration and claims come.
PaidOnce ==
  RewardsPaidOnce /\ OperatorPaidOnce /\ NsEpochPaidOnce /\ WitnessBudgetKept

\* A claim on a domain, the status of a name and the activity of an operator
\* change only for who has shown what the program asks for it: a challenge,
\* a quorum of watchdogs, a stake.
StandingEarned == ClaimProven /\ StatusNeedsQuorum /\ ActivatedWithStake
=============================================================================
