---------------------------- MODULE NsIncentives ----------------------------
(***************************************************************************)
(* The name server incentives program (solana/programs/ddns_ns_incentives).*)
(* An owner claims a domain that uses the network's name servers; verifiers*)
(* attest the delegation and report usage, epoch by epoch; the owner claims*)
(* the rewards of a range of epochs that enough verifiers attested.        *)
(***************************************************************************)
EXTENDS SolanaChain, Functions

CONSTANTS NsConfigs,  \* arguments of initialize_ and update_ns_config
          NsAdmin,    \* who signs initialize_ns_config
          NsDomains,  \* domains, after normalisation
          NsQueries,  \* query counts that are reported
          NsFunding,  \* tokens of one funding
          NsMaxFunds  \* bound on all fundings

NsConfigType ==
  [epochLen: Nat, nsSet: STRING, minAttestors: Nat, perQuery: Nat, maxReward: Nat,
   claimRange: Nat, verifiers: SUBSET Keys]

ASSUME NsAssumption ==
  /\ NsConfigs \subseteq NsConfigType
  /\ NsQueries \subseteq Nat /\ NsFunding \subseteq Nat /\ NsMaxFunds \in Nat

VARIABLES nsConfig,       \* NsConfig, None before init
          nsClaims,       \* NsClaim by domain
          nsAttestations, \* EpochDelegationAttestation: the name server set,
                          \* by <<domain, epoch, attestor>>
          nsUsage,        \* EpochUsageAggregate: queries, by <<domain, epoch>>
          nsVault,        \* tokens in the reward vault
          nsFunded,       \* history: tokens ever funded
          nsPaid          \* history: what was paid when, of each <<domain, epoch>>

nsVars == <<nsConfig, nsClaims, nsAttestations, nsUsage, nsVault, nsFunded, nsPaid>>

NsInit ==
  /\ nsConfig = None /\ nsClaims = NoAccounts /\ nsAttestations = NoAccounts
  /\ nsUsage = NoAccounts /\ nsVault = 0 /\ nsFunded = 0 /\ nsPaid = {}

MaxEpochClaimRange == 32

NsConfigValid(c) ==
  /\ c.epochLen > 0 /\ c.minAttestors > 0 /\ c.claimRange \in 1..MaxEpochClaimRange

InitializeNsConfig(k, c) ==
  /\ nsConfig = None /\ k = NsAdmin /\ NsConfigValid(c) /\ nsConfig' = c
  /\ UNCHANGED <<nsClaims, nsAttestations, nsUsage, nsVault, nsFunded, nsPaid>>

NsAdminSigns(k) == nsConfig # None /\ k = NsAdmin

UpdateNsConfig(k, c) ==
  /\ NsAdminSigns(k) /\ NsConfigValid(c) /\ nsConfig' = c
  /\ UNCHANGED <<nsClaims, nsAttestations, nsUsage, nsVault, nsFunded, nsPaid>>

FundNsRewards(k, amount) ==
  /\ NsAdminSigns(k) /\ amount > 0 /\ nsFunded + amount <= NsMaxFunds
  /\ nsVault' = nsVault + amount /\ nsFunded' = nsFunded + amount
  /\ UNCHANGED <<nsConfig, nsClaims, nsAttestations, nsUsage, nsPaid>>

NsClaim(k) == [owner |-> k, active |-> TRUE, lastClaimed |-> 0]

CreateNsClaim(k, d) ==
  /\ nsConfig # None /\ Vacant(nsClaims, d)
  /\ nsClaims' = Created(nsClaims, d, NsClaim(k))
  /\ UNCHANGED <<nsConfig, nsAttestations, nsUsage, nsVault, nsFunded, nsPaid>>

NsOwnerSigns(k, d) == Exists(nsClaims, d) /\ nsClaims[d].owner = k

RevokeNsClaim(k, d) ==
  /\ NsOwnerSigns(k, d)
  /\ nsClaims' = [nsClaims EXCEPT ![d].active = FALSE]
  /\ UNCHANGED <<nsConfig, nsAttestations, nsUsage, nsVault, nsFunded, nsPaid>>

NsEpoch == EpochOf(nsConfig.epochLen)

\* A verifier reports on an active claim, in the epoch it reports on.
VerifierReports(k, d) ==
  /\ nsConfig # None /\ k \in nsConfig.verifiers
  /\ Exists(nsClaims, d) /\ nsClaims[d].active

SubmitDelegationAttestation(k, d) ==
  /\ VerifierReports(k, d) /\ Vacant(nsAttestations, <<d, NsEpoch, k>>)
  /\ nsAttestations' = Created(nsAttestations, <<d, NsEpoch, k>>, nsConfig.nsSet)
  /\ UNCHANGED <<nsConfig, nsClaims, nsUsage, nsVault, nsFunded, nsPaid>>

\* Any verifier may write the epoch's count again, also after a claim.
SubmitUsageAggregate(k, d, queries) ==
  /\ VerifierReports(k, d)
  /\ nsUsage' = Created(nsUsage, <<d, NsEpoch>>, queries)
  /\ UNCHANGED <<nsConfig, nsClaims, nsAttestations, nsVault, nsFunded, nsPaid>>

\* Attestations that count are of the present name server set and of wallets
\* that are verifiers now.
Attestors(d, e) ==
  {k \in nsConfig.verifiers : Exists(nsAttestations, <<d, e, k>>)
                               /\ nsAttestations[<<d, e, k>>] = nsConfig.nsSet}

EpochClaimable(d, e) ==
  Exists(nsUsage, <<d, e>>) /\ Cardinality(Attestors(d, e)) >= nsConfig.minAttestors

EpochReward(d, e) ==
  Lesser(nsUsage[<<d, e>>] * nsConfig.perQuery, nsConfig.maxReward)

ClaimNsAccounts(k, d) == nsConfig # None /\ NsOwnerSigns(k, d)

ClaimNsRewards(k, d, from, to) ==
  LET total == SumFunction([e \in from..to |-> EpochReward(d, e)])
  IN  /\ ClaimNsAccounts(k, d) /\ nsClaims[d].active
      /\ from <= to /\ from > nsClaims[d].lastClaimed
      /\ to - from + 1 <= nsConfig.claimRange
      /\ \A e \in from..to : EpochClaimable(d, e)
      /\ total \in 1..nsVault
      /\ nsVault' = nsVault - total
      /\ nsClaims' = [nsClaims EXCEPT ![d].lastClaimed = to]
      /\ nsPaid' = nsPaid \cup
           {[domain |-> d, epoch |-> e, from |-> from, at |-> slot,
             amount |-> EpochReward(d, e)] : e \in from..to}
      /\ UNCHANGED <<nsConfig, nsAttestations, nsUsage, nsFunded>>

\* The commands of solana/scripts/ns_claim.ts, ns_usage.ts and ns_attest.ts.
CliNsInitConfig(k, c) ==
  /\ nsConfig = None
  /\ InitializeNsConfig(k, IF c.verifiers = {} THEN [c EXCEPT !.verifiers = {k}] ELSE c)
CliNsFund(k, amount) == FundNsRewards(k, amount)
CliNsCreate(k, d) == CreateNsClaim(k, d)
CliNsRevoke(k, d) == RevokeNsClaim(k, d)
\* For the epoch of the slot read just before.
CliNsUsage(k, d, queries) == nsConfig # None /\ SubmitUsageAggregate(k, d, queries)
CliNsAttest(k, d) == nsConfig # None /\ SubmitDelegationAttestation(k, d)

\* The first verifiers of the list, in whatever order it stands.
FirstVerifiers(c) ==
  CHOOSE S \in SUBSET c.verifiers :
    Cardinality(S) = Lesser(c.minAttestors, Cardinality(c.verifiers))

\* The command shows the attestations of the first verifiers and of no others:
\* when one of those missed an epoch, the claim fails though the program would
\* take the attestations of the rest.
CliNsClaimRewards(k, d, from, to) ==
  /\ nsConfig # None /\ from <= to /\ to - from + 1 <= nsConfig.claimRange
  /\ \A e \in from..to : FirstVerifiers(nsConfig) \subseteq Attestors(d, e)
  /\ ClaimNsRewards(k, d, from, to)

NsCli ==
  \E k \in Keys :
    \/ \E c \in NsConfigs : CliNsInitConfig(k, c)
    \/ \E a \in NsFunding : CliNsFund(k, a)
    \/ \E d \in NsDomains :
         \/ CliNsCreate(k, d) \/ CliNsRevoke(k, d) \/ CliNsAttest(k, d)
         \/ \E q \in NsQueries : CliNsUsage(k, d, q)
         \/ \E from, to \in 1..MaxSlot : CliNsClaimRewards(k, d, from, to)

NsNext ==
  \/ \E k \in Keys, c \in NsConfigs : InitializeNsConfig(k, c) \/ UpdateNsConfig(k, c)
  \/ \E k \in Keys, a \in NsFunding : FundNsRewards(k, a)
  \/ \E k \in Keys, d \in NsDomains :
       \/ CreateNsClaim(k, d) \/ RevokeNsClaim(k, d) \/ SubmitDelegationAttestation(k, d)
       \/ \E q \in NsQueries : SubmitUsageAggregate(k, d, q)
       \/ \E from, to \in 1..MaxSlot : ClaimNsRewards(k, d, from, to)
  \/ NsCli

-----------------------------------------------------------------------------
NsTypeOK ==
  /\ nsVault \in Nat /\ nsFunded \in 0..NsMaxFunds
  /\ \A d \in DOMAIN nsClaims :
       nsClaims[d] \in [owner: Keys, active: BOOLEAN, lastClaimed: 0..MaxSlot]
  /\ DOMAIN nsUsage \subseteq NsDomains \X (0..MaxSlot)

\* Counts and epoch lengths changed between claims, ranges that overlap: no
\* epoch of a domain is paid twice, none of those still to be claimed was paid,
\* and the vault has what was funded less what was paid.
NsEpochPaidOnce ==
  /\ \A p, q \in nsPaid : (p.domain = q.domain /\ p.epoch = q.epoch) => p = q
  /\ \A p \in nsPaid : p.epoch <= nsClaims[p.domain].lastClaimed
  /\ nsVault + SumFunction([p \in nsPaid |-> p.amount]) = nsFunded
=============================================================================
