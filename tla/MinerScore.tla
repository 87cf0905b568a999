----------------------------- MODULE MinerScore -----------------------------
(***************************************************************************)
(* The miner score program (solana/programs/ddns_miner_score): submitters  *)
(* report what a miner did in an epoch, close the epoch, set rewards and   *)
(* penalties; the miner claims from the reward vault, if the configuration *)
(* asks for it only while owning a premium name of the names program.      *)
(***************************************************************************)
EXTENDS Names, Functions

CONSTANTS ScoreConfigs,    \* arguments of init_miner_score_config
          ScoreEpochs,     \* epochs that are named; nothing ties them to the clock
          ScoreReports,    \* statistics that are reported
          ScoreRewards,    \* rewards that are set
          ScorePenalties,  \* penalties in basis points
          ScoreFunding,    \* amounts the vault is filled with
          ScoreMaxFunds    \* bound on the vault

ScoreConfigType ==
  [epochLen: Nat, diversityTarget: Nat, alphaCorrectness: Nat, alphaDiversity: Nat,
   alphaTimeliness: Nat, alphaUptime: Nat, penalty: Nat, threshold: Nat,
   submitters: SUBSET Keys, miners: SUBSET Keys, minStakeWeight: Nat, cap: Nat,
   premiumRequired: BOOLEAN]

ASSUME ScoreAssumption ==
  /\ ScoreConfigs \subseteq ScoreConfigType /\ None \notin ScoreConfigType
  /\ ScoreEpochs \subseteq Nat
  /\ ScoreReports \subseteq [stakeWeight: Nat, names: Nat, first: Nat, uptime: Nat,
                            correctness: Nat, dominance: Nat]
  /\ ScoreRewards \subseteq Nat /\ ScorePenalties \subseteq Nat /\ ScoreFunding \subseteq Nat

VARIABLES scoreConfig,    \* MinerScoreConfig, None before init
          minerEpochs,    \* MinerEpochStats by <<epoch, miner>>
          epochTotals,    \* epochs that were finalized
          claimReceipts,  \* MinerClaimReceipt: amount, by <<epoch, miner>>
          scoreVault,     \* tokens in the reward vault
          scoreFunded     \* history: tokens ever put into it

scoreVars == <<scoreConfig, minerEpochs, epochTotals, claimReceipts,
               scoreVault, scoreFunded>>

ScoreInit ==
  /\ scoreConfig = None /\ minerEpochs = NoAccounts
  /\ epochTotals = {} /\ claimReceipts = NoAccounts
  /\ scoreVault = 0 /\ scoreFunded = 0

ScoreConfigValid(c) ==
  /\ c.epochLen > 0 /\ c.diversityTarget > 0
  /\ c.alphaCorrectness + c.alphaDiversity + c.alphaTimeliness + c.alphaUptime = BpsDenom
  /\ c.penalty <= BpsDenom /\ c.threshold <= BpsDenom

InitMinerScoreConfig(c) ==
  /\ scoreConfig = None /\ ScoreConfigValid(c) /\ scoreConfig' = c
  /\ UNCHANGED <<minerEpochs, epochTotals, claimReceipts, scoreVault, scoreFunded>>

FundScoreVault(amount) ==
  /\ scoreConfig # None /\ scoreFunded + amount <= ScoreMaxFunds
  /\ scoreVault' = scoreVault + amount /\ scoreFunded' = scoreFunded + amount
  /\ UNCHANGED <<scoreConfig, minerEpochs, epochTotals, claimReceipts>>

SubmitterSigns(k) == scoreConfig # None /\ k \in scoreConfig.submitters

\* How early in the epoch the first aggregate came, of 10000.
Timeliness(e, first) ==
  LET late == Greater(first, e * scoreConfig.epochLen) - e * scoreConfig.epochLen
  IN  (SaturatingSub(scoreConfig.epochLen, late) * BpsDenom) \div scoreConfig.epochLen

Diversity(names) ==
  Lesser(BpsDenom, (names * BpsDenom) \div scoreConfig.diversityTarget)

RawScore(e, r) ==
  LET weighted == scoreConfig.alphaCorrectness * r.correctness
                  + scoreConfig.alphaUptime * r.uptime
                  + scoreConfig.alphaDiversity * Diversity(r.names)
                  + scoreConfig.alphaTimeliness * Timeliness(e, r.first)
      score == r.stakeWeight * (weighted \div BpsDenom)
  IN  IF r.dominance > scoreConfig.threshold
      THEN MulBps(score, BpsDenom - scoreConfig.penalty) ELSE score

MinerEpochStats(e, r) ==
  [stakeWeight |-> r.stakeWeight, correctness |-> r.correctness,
   raw |-> RawScore(e, r), normalized |-> 0, reward |-> 0, claimed |-> FALSE]

ReportMinerEpochStats(k, e, miner, r) ==
  /\ SubmitterSigns(k) /\ miner \in scoreConfig.miners
  /\ r.stakeWeight >= scoreConfig.minStakeWeight
  /\ r.uptime <= BpsDenom /\ r.correctness <= BpsDenom /\ r.dominance <= BpsDenom
  /\ Vacant(minerEpochs, <<e, miner>>)
  /\ minerEpochs' = Created(minerEpochs, <<e, miner>>, MinerEpochStats(e, r))
  /\ UNCHANGED <<scoreConfig, epochTotals, claimReceipts, scoreVault, scoreFunded>>

\* The totals are what the submitter says they are; nothing is added up.
FinalizeMinerEpoch(k, e) ==
  /\ SubmitterSigns(k) /\ e \notin epochTotals
  /\ epochTotals' = epochTotals \cup {e}
  /\ UNCHANGED <<scoreConfig, minerEpochs, claimReceipts, scoreVault, scoreFunded>>

OpenStatsMut(k, e, miner) == SubmitterSigns(k) /\ Exists(minerEpochs, <<e, miner>>)
\* The statistics a reward or a penalty is written to.
OpenStats(k, e, miner) ==
  /\ SubmitterSigns(k) /\ Exists(minerEpochs, <<e, miner>>)
  /\ ~minerEpochs[<<e, miner>>].claimed

SetMinerReward(k, e, miner, reward) ==
  /\ OpenStats(k, e, miner) /\ e \in epochTotals /\ reward <= scoreConfig.cap
  /\ minerEpochs' = [minerEpochs EXCEPT ![<<e, miner>>] =
                       [@ EXCEPT !.normalized = reward, !.reward = reward]]
  /\ UNCHANGED <<scoreConfig, epochTotals, claimReceipts, scoreVault, scoreFunded>>

\* What a penalty leaves of the statistics.
Penalized(stats, left) ==
  [stats EXCEPT !.correctness = MulBps(@, left), !.raw = MulBps(@, left),
                !.normalized = MulBps(@, left), !.reward = MulBps(@, left)]

PenalizeMiner(k, e, miner, bps) ==
  /\ OpenStats(k, e, miner) /\ bps <= BpsDenom
  /\ minerEpochs' = [minerEpochs EXCEPT ![<<e, miner>>] = Penalized(@, BpsDenom - bps)]
  /\ UNCHANGED <<scoreConfig, epochTotals, claimReceipts, scoreVault, scoreFunded>>

\* verify_premium_name_account: any premium name the miner owns now.
OwnsPremium(miner) == \E n \in DOMAIN premium : premium[n].owner = miner

ClaimMinerAccounts(e, miner) ==
  /\ scoreConfig # None /\ Exists(minerEpochs, <<e, miner>>)
  /\ Vacant(claimReceipts, <<e, miner>>)

ClaimMinerReward(e, miner) ==
  LET reward == minerEpochs[<<e, miner>>].reward
  IN  /\ ClaimMinerAccounts(e, miner)
      /\ ~minerEpochs[<<e, miner>>].claimed /\ reward > 0
      /\ scoreConfig.premiumRequired => OwnsPremium(miner)
      /\ scoreVault >= reward
      /\ scoreVault' = scoreVault - reward
      /\ minerEpochs' = [minerEpochs EXCEPT ![<<e, miner>>].claimed = TRUE]
      /\ claimReceipts' = Created(claimReceipts, <<e, miner>>, reward)
      /\ UNCHANGED <<scoreConfig, epochTotals, scoreFunded>>

\* The commands of solana/scripts/miner_score.ts, run by the wallet k; there is
\* none that funds the vault.
CliScoreInitConfig(k, c) ==
  InitMinerScoreConfig([c EXCEPT
    !.submitters = IF @ = {} THEN {k} ELSE @, !.miners = IF @ = {} THEN {k} ELSE @])
CliScoreReport(k, e, miner, r) == ReportMinerEpochStats(k, e, miner, r)
CliScoreFinalizeEpoch(k, e) == FinalizeMinerEpoch(k, e)
CliScoreSetReward(k, e, miner, amount) == SetMinerReward(k, e, miner, amount)
\* The account of a premium name is an argument, by default the empty one.
CliScoreClaim(k, e) == scoreConfig # None /\ ClaimMinerReward(e, k)
CliScorePenalize(k, e, miner, bps) == PenalizeMiner(k, e, miner, bps)

ScoreCli ==
  \E k \in Keys :
    \/ \E c \in ScoreConfigs : CliScoreInitConfig(k, c)
    \/ \E e \in ScoreEpochs :
         \/ CliScoreFinalizeEpoch(k, e) \/ CliScoreClaim(k, e)
         \/ \E m \in Keys :
              \/ \E r \in ScoreReports : CliScoreReport(k, e, m, r)
              \/ \E a \in ScoreRewards : CliScoreSetReward(k, e, m, a)
              \/ \E b \in ScorePenalties : CliScorePenalize(k, e, m, b)

ScoreNext ==
  \/ \E c \in ScoreConfigs : InitMinerScoreConfig(c)
  \/ \E a \in ScoreFunding : FundScoreVault(a)
  \/ \E k \in Keys, e \in ScoreEpochs : FinalizeMinerEpoch(k, e)
  \/ \E k, m \in Keys, e \in ScoreEpochs :
       \/ \E r \in ScoreReports : ReportMinerEpochStats(k, e, m, r)
       \/ \E a \in ScoreRewards : SetMinerReward(k, e, m, a)
       \/ \E b \in ScorePenalties : PenalizeMiner(k, e, m, b)
  \/ \E m \in Keys, e \in ScoreEpochs : ClaimMinerReward(e, m)
  \/ ScoreCli

-----------------------------------------------------------------------------
ScoreTypeOK ==
  /\ scoreVault \in Nat /\ DOMAIN minerEpochs \subseteq ScoreEpochs \X Keys
  /\ \A s \in DOMAIN minerEpochs :
       minerEpochs[s].raw \in 0..(minerEpochs[s].stakeWeight * BpsDenom)

\* What left the vault is what the receipts of finalized epochs say, each at
\* most the cap and the reward that stands in the statistics: rewards set again
\* and penalties, in whatever order and also after the claim, never make a
\* miner be paid twice or more than was settled.
RewardsPaidOnce ==
  /\ scoreVault + SumFunction(claimReceipts) = scoreFunded
  /\ \A s \in DOMAIN claimReceipts :
       /\ s[1] \in epochTotals /\ minerEpochs[s].claimed
       /\ claimReceipts[s] = minerEpochs[s].reward
       /\ claimReceipts[s] \in 1..scoreConfig.cap
=============================================================================
