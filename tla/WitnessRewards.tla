--------------------------- MODULE WitnessRewards ---------------------------
(***************************************************************************)
(* The witness rewards program (solana/programs/ddns_witness_rewards): a   *)
(* miner with a bond submits batches of receipts, each of which earns at   *)
(* once what the caps of the miner and of the epoch leave, and claims it.  *)
(***************************************************************************)
EXTENDS SolanaChain, Functions

CONSTANTS WrConfigs,     \* arguments of init_config
          WrAuthority,   \* who signs init_config
          WrRoots,       \* receipt roots
          WrCounts,      \* receipts of one batch
          WrDiversities, \* <<unique names, unique colos>> of one batch
          WrMaxReceipts, \* bound on the receipts a miner submits in an epoch
          WrBonds,       \* lamports of one deposit or withdrawal
          WrMaxBond,     \* bound on a bond
          WrFunding,     \* tokens of one funding
          WrMaxFunds     \* bound on all fundings

WrConfigType ==
  [epochLen: Nat, maxReward: Nat, minBond: Nat, perReceipt: Nat, maxReceipts: Nat,
   cooldown: Nat, enabled: BOOLEAN]

ASSUME WrAssumption ==
  /\ WrConfigs \subseteq WrConfigType /\ None \notin WrConfigType
  /\ WrCounts \subseteq Nat /\ WrBonds \subseteq Nat /\ WrFunding \subseteq Nat
  /\ WrMaxBond \in Nat /\ \A d \in WrDiversities : d[1] \in Nat /\ d[2] \in Nat

VARIABLES wrConfig,  \* WitnessRewardsConfig, None before init
          wrBonds,   \* MinerBond by miner
          wrLamports,\* lamports of the bond accounts above their rent
          wrStats,   \* EpochMinerStats by <<epoch, miner>>
          wrEpochs,  \* EpochState: rewards accrued, by epoch
          wrVault,   \* tokens in the reward vault
          wrFunded   \* history: tokens ever funded

wrVars == <<wrConfig, wrBonds, wrLamports, wrStats, wrEpochs, wrVault, wrFunded>>

WrInit ==
  /\ wrConfig = None /\ wrBonds = NoAccounts /\ wrLamports = NoAccounts
  /\ wrStats = NoAccounts /\ wrEpochs = NoAccounts /\ wrVault = 0 /\ wrFunded = 0

WrInitConfig(k, c) ==
  /\ wrConfig = None /\ k = WrAuthority /\ c.epochLen > 0 /\ wrConfig' = c
  /\ UNCHANGED <<wrBonds, wrLamports, wrStats, wrEpochs, wrVault, wrFunded>>

WrSetEnabled(k, enabled) ==
  /\ wrConfig # None /\ k = WrAuthority
  /\ wrConfig' = [wrConfig EXCEPT !.enabled = enabled]
  /\ UNCHANGED <<wrBonds, wrLamports, wrStats, wrEpochs, wrVault, wrFunded>>

FundRewardVault(amount) ==
  /\ wrConfig # None /\ amount > 0 /\ wrFunded + amount <= WrMaxFunds
  /\ wrVault' = wrVault + amount /\ wrFunded' = wrFunded + amount
  /\ UNCHANGED <<wrConfig, wrBonds, wrLamports, wrStats, wrEpochs>>

BondLamports(m) == IF Exists(wrBonds, m) THEN wrBonds[m].lamports ELSE 0
Held(m) == IF Exists(wrLamports, m) THEN wrLamports[m] ELSE 0

MinerBond(lamports) == [lamports |-> lamports, lastAction |-> slot]

WrDepositBond(m, lamports) ==
  /\ wrConfig # None /\ lamports > 0 /\ BondLamports(m) + lamports <= WrMaxBond
  /\ wrBonds' = Created(wrBonds, m, MinerBond(BondLamports(m) + lamports))
  /\ wrLamports' = Created(wrLamports, m, Held(m) + lamports)
  /\ UNCHANGED <<wrConfig, wrStats, wrEpochs, wrVault, wrFunded>>

WrBondAccounts(m) == wrConfig # None /\ Exists(wrBonds, m)

\* Any deposit or withdrawal starts the cooldown again; submitting does not.
WrWithdrawBond(m, lamports) ==
  /\ WrBondAccounts(m) /\ lamports > 0
  /\ slot >= wrBonds[m].lastAction + wrConfig.cooldown
  /\ wrBonds[m].lamports >= lamports /\ wrLamports[m] >= lamports
  /\ wrBonds' = [wrBonds EXCEPT ![m] = MinerBond(@.lamports - lamports)]
  /\ wrLamports' = [wrLamports EXCEPT ![m] = @ - lamports]
  /\ UNCHANGED <<wrConfig, wrStats, wrEpochs, wrVault, wrFunded>>

EpochMinerStats ==
  [submitted |-> 0, rewardable |-> 0, earned |-> 0, lastRoot |-> None, claimed |-> FALSE]

Stats(e, m) == IF Exists(wrStats, <<e, m>>) THEN wrStats[<<e, m>>] ELSE EpochMinerStats

Accrued(e) == IF Exists(wrEpochs, e) THEN wrEpochs[e] ELSE 0

MaxDiversityBonusBps == 2000

\* The sum is cut to 16 bits before it is capped.
DiversityBonus(names, colos) ==
  Lesser((names * 10 + colos * 100) % 65536, MaxDiversityBonusBps)

BatchReward(receipts, names, colos) ==
  MulBps(receipts * wrConfig.perReceipt, BpsDenom + DiversityBonus(names, colos))

SubmitBatchAccounts(m) == wrConfig # None /\ Exists(wrBonds, m)

\* Only the root of the batch before is refused.
SubmitReceiptBatch(m, root, count, names, colos) ==
  LET e     == EpochOf(wrConfig.epochLen)
      st    == Stats(e, m)
      fresh == Lesser(count, SaturatingSub(wrConfig.maxReceipts, st.rewardable))
      gain  == Lesser(BatchReward(fresh, names, colos),
                      SaturatingSub(wrConfig.maxReward, Accrued(e)))
  IN  /\ SubmitBatchAccounts(m) /\ wrConfig.enabled /\ count > 0
      /\ wrBonds[m].lamports >= wrConfig.minBond
      /\ st.lastRoot # root /\ ~st.claimed
      /\ st.submitted + count <= WrMaxReceipts
      /\ wrStats' = Created(wrStats, <<e, m>>,
           [submitted |-> st.submitted + count, rewardable |-> st.rewardable + fresh,
            earned |-> st.earned + gain, lastRoot |-> root, claimed |-> FALSE])
      /\ wrEpochs' = Created(wrEpochs, e, Accrued(e) + gain)
      /\ UNCHANGED <<wrConfig, wrBonds, wrLamports, wrVault, wrFunded>>

WrClaimAccounts(m, e) == wrConfig # None /\ Exists(wrStats, <<e, m>>)

\* A claim is not a matter of the bond, of the switch or of the epoch's end.
WrClaimRewards(m, e) ==
  /\ WrClaimAccounts(m, e) /\ ~wrStats[<<e, m>>].claimed
  /\ wrStats[<<e, m>>].earned \in 1..wrVault
  /\ wrVault' = wrVault - wrStats[<<e, m>>].earned
  /\ wrStats' = [wrStats EXCEPT ![<<e, m>>].claimed = TRUE]
  /\ UNCHANGED <<wrConfig, wrBonds, wrLamports, wrEpochs, wrFunded>>

\* The commands of solana/scripts/witness_rewards.ts, run by the wallet k.
CliWrInit(k, c) == wrConfig = None /\ WrInitConfig(k, c)
CliWrDepositBond(k, lamports) == WrDepositBond(k, lamports)
CliWrFund(amount) == wrConfig # None /\ FundRewardVault(amount)
\* By default for the epoch of the slot that was read just before; the program
\* refuses any other.
CliWrSubmitBatch(k, root, count, d) ==
  wrConfig # None /\ SubmitReceiptBatch(k, root, count, d[1], d[2])
CliWrClaim(k, e) == wrConfig # None /\ WrClaimRewards(k, e)

WrCli ==
  \/ \E a \in WrFunding : CliWrFund(a)
  \/ \E k \in Keys :
       \/ \E c \in WrConfigs : CliWrInit(k, c)
       \/ \E b \in WrBonds : CliWrDepositBond(k, b)
       \/ \E r \in WrRoots, n \in WrCounts, d \in WrDiversities : CliWrSubmitBatch(k, r, n, d)
       \/ \E e \in 0..MaxSlot : CliWrClaim(k, e)

WrNext ==
  \/ \E k \in Keys : \/ \E c \in WrConfigs : WrInitConfig(k, c)
                     \/ \E b \in BOOLEAN : WrSetEnabled(k, b)
  \/ \E a \in WrFunding : FundRewardVault(a)
  \/ \E m \in Keys :
       \/ \E b \in WrBonds : WrDepositBond(m, b) \/ WrWithdrawBond(m, b)
       \/ \E r \in WrRoots, n \in WrCounts, d \in WrDiversities :
            SubmitReceiptBatch(m, r, n, d[1], d[2])
       \/ \E e \in 0..MaxSlot : WrClaimRewards(m, e)
  \/ WrCli

-----------------------------------------------------------------------------
WrTypeOK ==
  /\ wrVault \in Nat /\ DOMAIN wrLamports = DOMAIN wrBonds
  /\ \A m \in DOMAIN wrBonds : wrBonds[m].lamports \in 0..WrMaxBond
  /\ \A s \in DOMAIN wrStats :
       wrStats[s].lastRoot \in WrRoots /\ wrStats[s].claimed \in BOOLEAN

WrEarned == [s \in DOMAIN wrStats |-> wrStats[s].earned]

\* What the miners earned in an epoch is what the epoch accrued and within its
\* budget, however their batches come in between each other; nobody is rewarded
\* for more receipts than the cap; and what left the vault was claimed once.
WitnessBudgetKept ==
  /\ \A e \in DOMAIN wrEpochs :
       /\ wrEpochs[e] <= wrConfig.maxReward
       /\ wrEpochs[e] = SumFunctionOnSet(WrEarned, {s \in DOMAIN wrStats : s[1] = e})
  /\ \A s \in DOMAIN wrStats : wrStats[s].rewardable <= wrConfig.maxReceipts
  /\ wrFunded - wrVault
       = SumFunctionOnSet(WrEarned, {s \in DOMAIN wrStats : wrStats[s].claimed})
=============================================================================
