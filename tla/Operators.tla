------------------------------ MODULE Operators ------------------------------
(***************************************************************************)
(* The operators program (solana/programs/ddns_operators): operators stake *)
(* lamports in a vault, submitters report what an operator did in an epoch,*)
(* the operator claims a reward from the treasury, and slashing            *)
(* authorities take stake away.  Endpoints are abstracted to their number. *)
(***************************************************************************)
EXTENDS SolanaChain, Functions

CONSTANTS OpConfigs,     \* arguments of init_ and update_operators_config
          OpAuthority,   \* who signs init_operators_config
          OpEndpoints,   \* numbers of endpoints
          OpStakes,      \* lamports of one stake or unstake
          OpMaxStake,    \* bound on an operator's stake
          OpFunding,     \* tokens of one funding
          OpMaxFunds,    \* bound on all fundings
          OpMetrics,     \* metrics that are submitted
          OpSlashes,     \* <<basis points, reason code>>
          OpNames        \* names whose NS operator is set

ASSUME OpAssumption ==
  OpFunding \subseteq Nat /\ OpStakes \subseteq Nat /\ \A s \in OpSlashes : s[1] \in Nat

VARIABLES opConfig,      \* OperatorsConfig, None before init
          operators,     \* Operator by wallet
          opVaults,      \* lamports in the vaults above their rent, by wallet
          opTreasury,    \* tokens in the treasury vault
          opMetrics,     \* EpochMetrics by <<epoch, wallet>>
          opDelegations, \* DomainNsDelegation by name
          opFunded,      \* history: tokens ever funded
          opClaims       \* history: how often a reward was paid, by <<epoch, wallet>>

opVars == <<opConfig, operators, opVaults, opTreasury, opMetrics, opDelegations,
            opFunded, opClaims>>
opMoney == <<opTreasury, opMetrics, opFunded, opClaims>>

OpInit ==
  /\ opConfig = None /\ operators = NoAccounts /\ opVaults = NoAccounts
  /\ opTreasury = 0 /\ opMetrics = NoAccounts /\ opDelegations = NoAccounts
  /\ opFunded = 0 /\ opClaims = NoAccounts

MaxEndpoints == 8

OpConfigValid(c) == c.epochLen > 0 /\ c.maxEndpoints <= MaxEndpoints

InitOperatorsConfig(k, c) ==
  /\ opConfig = None /\ k = OpAuthority /\ OpConfigValid(c)
  /\ opConfig' = c
  /\ UNCHANGED <<operators, opVaults, opMoney, opDelegations>>

OpAuthoritySigns(k) == opConfig # None /\ k = OpAuthority

UpdateOperatorsConfig(k, c) ==
  /\ OpAuthoritySigns(k) /\ OpConfigValid(c)
  /\ opConfig' = c
  /\ UNCHANGED <<operators, opVaults, opMoney, opDelegations>>

Operator(status, stake, endpoints) ==
  [status |-> status, stake |-> stake, endpoints |-> endpoints, lastClaimed |-> 0]

OperatorStatus == {"active", "paused", "slashed"}

\* What register_operator creates: the operator and its vault.
RegisterAccounts(w) == opConfig # None /\ Vacant(operators, w) /\ Vacant(opVaults, w)

RegisterOperator(w, endpoints) ==
  /\ RegisterAccounts(w) /\ endpoints <= opConfig.maxEndpoints
  /\ operators' = Created(operators, w, Operator("paused", 0, endpoints))
  /\ opVaults' = Created(opVaults, w, 0)
  /\ UNCHANGED <<opConfig, opMoney, opDelegations>>

\* The accounts of the operator's own instructions.
OperatorSigns(w) == opConfig # None /\ Exists(operators, w)

Status(w) == operators[w].status

UpdateEndpoints(w, endpoints) ==
  /\ OperatorSigns(w) /\ Status(w) # "slashed" /\ endpoints <= opConfig.maxEndpoints
  /\ operators' = [operators EXCEPT ![w].endpoints = endpoints]
  /\ UNCHANGED <<opConfig, opVaults, opMoney, opDelegations>>

\* Of the operator's instructions the only one that does not ask the status.
PauseOperator(w) ==
  /\ OperatorSigns(w)
  /\ operators' = [operators EXCEPT ![w].status = "paused"]
  /\ UNCHANGED <<opConfig, opVaults, opMoney, opDelegations>>

ResumeOperator(w) ==
  /\ OperatorSigns(w) /\ Status(w) # "slashed"
  /\ operators[w].stake >= opConfig.minStake
  /\ operators' = [operators EXCEPT ![w].status = "active"]
  /\ UNCHANGED <<opConfig, opVaults, opMoney, opDelegations>>

\* A new stake, and the same lamports in the vault.
Restaked(w, stake, status) ==
  /\ operators' = [operators EXCEPT ![w] = [@ EXCEPT !.stake = stake, !.status = status]]
  /\ opVaults' = [opVaults EXCEPT ![w] = @ + stake - operators[w].stake]

StakeAccounts(w) == OperatorSigns(w) /\ Exists(opVaults, w)

StakeOperator(w, lamports) ==
  LET stake == operators[w].stake + lamports
  IN  /\ StakeAccounts(w) /\ Status(w) # "slashed" /\ lamports > 0 /\ stake <= OpMaxStake
      /\ Restaked(w, stake,
           IF stake >= opConfig.minStake /\ Status(w) = "paused" THEN "active"
           ELSE Status(w))
      /\ UNCHANGED <<opConfig, opMoney, opDelegations>>

UnstakeAccounts(w) == OperatorSigns(w) /\ Exists(opVaults, w)

UnstakeOperator(w, lamports) ==
  LET stake == operators[w].stake - lamports
  IN  /\ UnstakeAccounts(w) /\ Status(w) # "slashed" /\ lamports > 0
      /\ stake >= 0 /\ opVaults[w] >= lamports
      /\ Restaked(w, stake, IF stake < opConfig.minStake THEN "paused" ELSE Status(w))
      /\ UNCHANGED <<opConfig, opMoney, opDelegations>>

FundTreasury(k, amount) ==
  /\ OpAuthoritySigns(k) /\ amount > 0 /\ opFunded + amount <= OpMaxFunds
  /\ opTreasury' = opTreasury + amount /\ opFunded' = opFunded + amount
  /\ UNCHANGED <<opConfig, operators, opVaults, opMetrics, opClaims, opDelegations>>

MetricsSubmitter(k) == k \in opConfig.submitters \/ k = OpAuthority

EpochMetrics(m, k) == [metrics |-> m, by |-> k, rewarded |-> 0]

MetricsAccounts(w) == opConfig # None /\ Exists(operators, w)

\* The first submitter may write the metrics of the epoch again while it lasts;
\* what was rewarded stays.
SubmitEpochMetrics(k, w, m) ==
  LET at == <<EpochOf(opConfig.epochLen), w>>
  IN  /\ MetricsAccounts(w) /\ opConfig.enabled /\ MetricsSubmitter(k)
      /\ Exists(opMetrics, at) => opMetrics[at].by = k
      /\ opMetrics' = Created(opMetrics, at,
           IF Vacant(opMetrics, at) THEN EpochMetrics(m, k)
           ELSE [opMetrics[at] EXCEPT !.metrics = m])
      /\ UNCHANGED <<opConfig, operators, opVaults, opTreasury, opFunded, opClaims,
                     opDelegations>>

OperatorReward(m) ==
  LET fast == opConfig.latencyBonus > 0 /\ m.latency \in 1..opConfig.latencyThreshold
  IN  Lesser(m.queries * opConfig.perQuery + m.receipts * opConfig.perReceipt
               + MulBps(opConfig.uptimeBonus, m.uptime)
               + (IF fast THEN opConfig.latencyBonus ELSE 0),
             opConfig.maxRewards)

ClaimOperatorAccounts(w, e) == OperatorSigns(w) /\ Exists(opMetrics, <<e, w>>)

ClaimOperatorRewards(w, e) ==
  LET reward == OperatorReward(opMetrics[<<e, w>>].metrics)
  IN  /\ ClaimOperatorAccounts(w, e) /\ opConfig.enabled /\ Status(w) = "active"
      /\ opMetrics[<<e, w>>].rewarded = 0 /\ reward \in 1..opTreasury
      /\ opTreasury' = opTreasury - reward
      /\ opMetrics' = [opMetrics EXCEPT ![<<e, w>>].rewarded = reward]
      /\ opClaims' = Created(opClaims, <<e, w>>,
           1 + IF Exists(opClaims, <<e, w>>) THEN opClaims[<<e, w>>] ELSE 0)
      /\ operators' = [operators EXCEPT ![w].lastClaimed = e]
      /\ UNCHANGED <<opConfig, opVaults, opFunded, opDelegations>>

DomainNsDelegation(owner, w, enabled) ==
  [owner |-> owner, operator |-> w, enabled |-> enabled]

\* The first wallet to name a name is its owner; the operator may be anybody.
SetDomainNsOperator(k, name, w, enabled) ==
  /\ opConfig # None
  /\ Exists(opDelegations, name) => opDelegations[name].owner = k
  /\ opDelegations' = Created(opDelegations, name, DomainNsDelegation(k, w, enabled))
  /\ UNCHANGED <<opConfig, operators, opVaults, opMoney>>

SlashAccounts(k, w) ==
  /\ opConfig # None /\ Exists(operators, w)
  /\ k \in opConfig.slashers \cup {OpAuthority}

SlashOperator(k, w, bps, reason) ==
  LET slashed == MulBps(operators[w].stake, bps)
  IN  /\ SlashAccounts(k, w) /\ bps <= BpsDenom /\ Status(w) # "slashed"
      /\ opVaults[w] >= slashed
      /\ Restaked(w, operators[w].stake - slashed,
                  IF bps >= 5000 \/ reason # 0 THEN "slashed" ELSE "paused")
      /\ UNCHANGED <<opConfig, opMoney, opDelegations>>

\* The commands of solana/scripts/operators.ts.  All but init want the
\* configuration; the wallet k that runs one signs it and, but for metrics and
\* slashes, is the operator.
CliOpInit(k, c) ==
  /\ opConfig = None
  /\ InitOperatorsConfig(k, IF c.submitters = {} THEN [c EXCEPT !.submitters = {k}] ELSE c)
CliOpReady == opConfig # None
CliOpRegister(k, endpoints) == CliOpReady /\ RegisterOperator(k, endpoints)
CliOpStake(k, lamports) == CliOpReady /\ StakeOperator(k, lamports)
CliOpUnstake(k, lamports) == CliOpReady /\ UnstakeOperator(k, lamports)
CliOpPause(k) == CliOpReady /\ PauseOperator(k)
CliOpResume(k) == CliOpReady /\ ResumeOperator(k)
CliOpDomainSet(k, name, w, enabled) == CliOpReady /\ SetDomainNsOperator(k, name, w, enabled)
\* The program asks for the epoch of the slot; any other epoch is refused.
CliOpMetricsSubmit(k, w, e, m) ==
  CliOpReady /\ e = EpochOf(opConfig.epochLen) /\ SubmitEpochMetrics(k, w, m)
CliOpClaim(k, e) == CliOpReady /\ ClaimOperatorRewards(k, e)
CliOpSlash(k, w, bps, reason) == CliOpReady /\ SlashOperator(k, w, bps, reason)

OpCli ==
  \E k \in Keys :
    \/ \E c \in OpConfigs : CliOpInit(k, c)
    \/ \E n \in OpEndpoints : CliOpRegister(k, n)
    \/ \E a \in OpStakes : CliOpStake(k, a) \/ CliOpUnstake(k, a)
    \/ CliOpPause(k) \/ CliOpResume(k)
    \/ \E n \in OpNames, w \in Keys, b \in BOOLEAN : CliOpDomainSet(k, n, w, b)
    \/ \E w \in Keys, e \in 0..MaxSlot, m \in OpMetrics : CliOpMetricsSubmit(k, w, e, m)
    \/ \E e \in 0..MaxSlot : CliOpClaim(k, e)
    \/ \E w \in Keys, s \in OpSlashes : CliOpSlash(k, w, s[1], s[2])

OpNext ==
  \/ \E k \in Keys, c \in OpConfigs :
       InitOperatorsConfig(k, c) \/ UpdateOperatorsConfig(k, c)
  \/ \E w \in Keys, n \in OpEndpoints : RegisterOperator(w, n) \/ UpdateEndpoints(w, n)
  \/ \E w \in Keys : PauseOperator(w) \/ ResumeOperator(w)
  \/ \E w \in Keys, a \in OpStakes : StakeOperator(w, a) \/ UnstakeOperator(w, a)
  \/ \E k \in Keys, a \in OpFunding : FundTreasury(k, a)
  \/ \E k, w \in Keys, m \in OpMetrics : SubmitEpochMetrics(k, w, m)
  \/ \E w \in Keys, e \in 0..MaxSlot : ClaimOperatorRewards(w, e)
  \/ \E k, w \in Keys, n \in OpNames, b \in BOOLEAN : SetDomainNsOperator(k, n, w, b)
  \/ \E k, w \in Keys, s \in OpSlashes : SlashOperator(k, w, s[1], s[2])
  \/ OpCli

OpSpec ==
  /\ ChainInit /\ OpInit
  /\ [][(OpNext /\ UNCHANGED slot) \/ (NewSlot /\ UNCHANGED opVars)]_<<slot, opVars>>

-----------------------------------------------------------------------------
OpTypeOK ==
  /\ DOMAIN opVaults = DOMAIN operators /\ DOMAIN operators \subseteq Keys
  /\ \A w \in DOMAIN operators :
       /\ operators[w].status \in OperatorStatus
       /\ operators[w].stake = opVaults[w] /\ opVaults[w] \in Nat
  /\ opTreasury \in Nat

\* Metrics written again after a claim, claims after a pause, another epoch
\* length: an operator is paid at most once for an epoch, and the treasury has
\* what was put in less what the metrics say was paid.
OperatorPaidOnce ==
  /\ \A c \in DOMAIN opClaims : opClaims[c] <= 1 /\ opMetrics[c].rewarded > 0
  /\ opTreasury + SumFunction([m \in DOMAIN opMetrics |-> opMetrics[m].rewarded])
       = opFunded

\* An operator becomes active only with the stake the configuration asks for
\* at that moment, whichever of staking, resuming and slashing comes when.
ActivatedWithStake ==
  [][\A w \in DOMAIN operators' :
       (operators'[w].status = "active"
         /\ (w \in DOMAIN operators => operators[w].status # "active"))
       => operators'[w].stake >= opConfig.minStake]_opVars
=============================================================================
