------------------------------- MODULE Rewards -------------------------------
(***************************************************************************)
(* The rewards program (solana/programs/ddns_rewards): a wallet starts a   *)
(* challenge for a DNS domain, the authority turns a proven challenge into *)
(* a claim, tolls paid with the domain share with the claim's payout       *)
(* account, and verifiers report usage the owner is rewarded for.          *)
(* Also the program ddns_domain_rewards (dr...): an owner claims a domain  *)
(* and tolls for it are split between the owner and the treasury.          *)
(***************************************************************************)
EXTENDS SolanaChain, Functions

CONSTANTS RwConfigs,    \* arguments of init_ and update_rewards_config
          RwAuthority,  \* who signs init_rewards_config
          RwDomains,    \* domains, after normalisation
          RwNonces,     \* nonces of challenges
          RwAmounts,    \* tokens of one toll or funding
          RwMaxPaid,    \* bound on all tolls and fundings
          RwUsages      \* usage aggregates that are submitted

RwConfigType ==
  [epochLen: Nat, shareBps: Nat, rewardBps: Nat, minToll: Nat, maxReward: Nat,
   minWallets: Nat, challengeTtl: Nat, enabled: BOOLEAN, verifiers: SUBSET Keys]

ASSUME RwAssumption ==
  RwConfigs \subseteq RwConfigType /\ RwAmounts \subseteq Nat /\ RwMaxPaid \in Nat

VARIABLES rwConfig,     \* RewardsConfig, None before init
          rwChallenges, \* DomainChallenge by <<domain, nonce>>
          rwClaims,     \* DomainClaim by domain
          rwUsage,      \* DomainUsageEpoch by <<domain, epoch>>
          rwTreasury,   \* tokens in the treasury vault
          rwPayouts,    \* tokens in the payout accounts, by claim owner
          rwPaid,       \* history: tokens ever paid in
          rwProofs      \* history: <<domain, wallet>> that started a challenge

rwVars == <<rwConfig, rwChallenges, rwClaims, rwUsage, rwTreasury, rwPayouts,
            rwPaid, rwProofs>>
rwMoney == <<rwTreasury, rwPayouts, rwPaid>>

RwInit ==
  /\ rwConfig = None /\ rwChallenges = NoAccounts /\ rwClaims = NoAccounts
  /\ rwUsage = NoAccounts /\ rwTreasury = 0 /\ rwPayouts = [k \in Keys |-> 0]
  /\ rwPaid = 0 /\ rwProofs = {}

RwConfigValid(c) ==
  c.epochLen > 0 /\ c.shareBps <= BpsDenom /\ c.rewardBps <= BpsDenom

InitRewardsConfig(k, c) ==
  /\ rwConfig = None /\ k = RwAuthority /\ RwConfigValid(c) /\ rwConfig' = c
  /\ UNCHANGED <<rwChallenges, rwClaims, rwUsage, rwMoney, rwProofs>>

RwAuthoritySigns(k) == rwConfig # None /\ k = RwAuthority

UpdateRewardsConfig(k, c) ==
  /\ RwAuthoritySigns(k) /\ RwConfigValid(c) /\ rwConfig' = c
  /\ UNCHANGED <<rwChallenges, rwClaims, rwUsage, rwMoney, rwProofs>>

DomainChallenge(k) == [owner |-> k, expires |-> slot + rwConfig.challengeTtl]

ChallengeAccounts(d, nonce) == rwConfig # None /\ Vacant(rwChallenges, <<d, nonce>>)

StartDomainChallenge(k, d, nonce) ==
  /\ ChallengeAccounts(d, nonce)
  /\ rwChallenges' = Created(rwChallenges, <<d, nonce>>, DomainChallenge(k))
  /\ rwProofs' = rwProofs \cup {<<d, k>>}
  /\ UNCHANGED <<rwConfig, rwClaims, rwUsage, rwMoney>>

DomainClaim(k) == [owner |-> k, status |-> "verified"]

Revoked(d) == Exists(rwClaims, d) /\ rwClaims[d].status = "revoked"

\* The challenge is closed with the claim; a verified claim is written over.
ClaimDomainAccounts(k, d, nonce) ==
  RwAuthoritySigns(k) /\ Exists(rwChallenges, <<d, nonce>>)

ClaimDomain(k, d, nonce) ==
  LET challenge == rwChallenges[<<d, nonce>>]
  IN  /\ ClaimDomainAccounts(k, d, nonce)
      /\ slot <= challenge.expires /\ ~Revoked(d)
      /\ rwClaims' = Created(rwClaims, d, DomainClaim(challenge.owner))
      /\ rwChallenges' = Restrict(rwChallenges, DOMAIN rwChallenges \ {<<d, nonce>>})
      /\ UNCHANGED <<rwConfig, rwUsage, rwMoney, rwProofs>>

RevokeAccounts(k, d) == Exists(rwClaims, d) /\ rwClaims[d].owner = k

RevokeDomainClaim(k, d) ==
  /\ RevokeAccounts(k, d) /\ ~Revoked(d)
  /\ rwClaims' = [rwClaims EXCEPT ![d].status = "revoked"]
  /\ UNCHANGED <<rwConfig, rwChallenges, rwUsage, rwMoney, rwProofs>>

Verified(d) == Exists(rwClaims, d) /\ rwClaims[d].status = "verified"

TollAllowed(amount) ==
  /\ rwConfig # None /\ amount > 0 /\ amount >= rwConfig.minToll
  /\ rwPaid + amount <= RwMaxPaid

PayToll(amount) ==
  /\ TollAllowed(amount)
  /\ rwTreasury' = rwTreasury + amount /\ rwPaid' = rwPaid + amount
  /\ UNCHANGED <<rwConfig, rwChallenges, rwClaims, rwUsage, rwPayouts, rwProofs>>

PayTollWithDomain(d, amount) ==
  LET share == MulBps(amount, rwConfig.shareBps)
  IN  /\ TollAllowed(amount) /\ Verified(d)
      /\ rwPayouts' = [rwPayouts EXCEPT ![rwClaims[d].owner] = @ + share]
      /\ rwTreasury' = rwTreasury + (amount - share)
      /\ rwPaid' = rwPaid + amount
      /\ UNCHANGED <<rwConfig, rwChallenges, rwClaims, rwUsage, rwProofs>>

FundRewards(k, amount) ==
  /\ RwAuthoritySigns(k) /\ amount > 0 /\ rwPaid + amount <= RwMaxPaid
  /\ rwTreasury' = rwTreasury + amount /\ rwPaid' = rwPaid + amount
  /\ UNCHANGED <<rwConfig, rwChallenges, rwClaims, rwUsage, rwPayouts, rwProofs>>

DomainUsage(u) == [tolls |-> u.tolls, wallets |-> u.wallets, rewarded |-> 0]

\* The account of an epoch is made once: a second report of it fails.
UsageAccounts(k, d) ==
  /\ rwConfig # None /\ k \in rwConfig.verifiers /\ Verified(d)
  /\ Vacant(rwUsage, <<d, EpochOf(rwConfig.epochLen)>>)

SubmitDomainUsage(k, d, u) ==
  /\ UsageAccounts(k, d)
  /\ rwUsage' = Created(rwUsage, <<d, EpochOf(rwConfig.epochLen)>>, DomainUsage(u))
  /\ UNCHANGED <<rwConfig, rwChallenges, rwClaims, rwMoney, rwProofs>>

UsageReward(u) == Lesser(MulBps(u.tolls, rwConfig.rewardBps), rwConfig.maxReward)

ClaimRewardsAccounts(k, d, e) ==
  /\ rwConfig # None /\ Verified(d) /\ rwClaims[d].owner = k
  /\ Exists(rwUsage, <<d, e>>)

ClaimDomainRewards(k, d, e) ==
  LET u == rwUsage[<<d, e>>]
  IN  /\ ClaimRewardsAccounts(k, d, e) /\ rwConfig.enabled
      /\ u.rewarded = 0 /\ u.tolls >= rwConfig.minToll
      /\ u.wallets >= rwConfig.minWallets /\ UsageReward(u) \in 1..rwTreasury
      /\ rwTreasury' = rwTreasury - UsageReward(u)
      /\ rwPayouts' = [rwPayouts EXCEPT ![k] = @ + UsageReward(u)]
      /\ rwUsage' = [rwUsage EXCEPT ![<<d, e>>].rewarded = UsageReward(u)]
      /\ UNCHANGED <<rwConfig, rwChallenges, rwClaims, rwPaid, rwProofs>>

\* The commands of solana/scripts/rewards.ts, run by the wallet k.
CliRwInit(k, c) ==
  /\ rwConfig = None
  /\ InitRewardsConfig(k, IF c.verifiers = {} THEN [c EXCEPT !.verifiers = {k}] ELSE c)
CliRwReady == rwConfig # None
\* The nonce is drawn here; the claim gets it as an argument.
CliRwChallenge(k, d) == CliRwReady /\ \E n \in RwNonces : StartDomainChallenge(k, d, n)
\* The owner is named too; the program holds it against the challenge.
CliRwClaim(k, owner, d, nonce) ==
  /\ CliRwReady /\ ClaimDomain(k, d, nonce)
  /\ rwChallenges[<<d, nonce>>].owner = owner
\* With a name the claim is read first, for its payout account.
CliRwPay(d, amount) ==
  /\ CliRwReady
  /\ IF d = None THEN PayToll(amount)
     ELSE Exists(rwClaims, d) /\ PayTollWithDomain(d, amount)
\* By default for the epoch of the slot that was read just before.
CliRwUsageSubmit(k, d, u) == CliRwReady /\ SubmitDomainUsage(k, d, u)
CliRwRewardClaim(k, d, e) == CliRwReady /\ ClaimDomainRewards(k, d, e)

RwCli ==
  \/ \E k \in Keys, c \in RwConfigs : CliRwInit(k, c)
  \/ \E a \in RwAmounts, d \in RwDomains \cup {None} : CliRwPay(d, a)
  \/ \E k \in Keys, d \in RwDomains :
       \/ CliRwChallenge(k, d)
       \/ \E o \in Keys, n \in RwNonces : CliRwClaim(k, o, d, n)
       \/ \E u \in RwUsages : CliRwUsageSubmit(k, d, u)
       \/ \E e \in 0..MaxSlot : CliRwRewardClaim(k, d, e)

RwNext ==
  \/ \E k \in Keys, c \in RwConfigs : InitRewardsConfig(k, c) \/ UpdateRewardsConfig(k, c)
  \/ \E k \in Keys, d \in RwDomains :
       \/ \E n \in RwNonces : StartDomainChallenge(k, d, n) \/ ClaimDomain(k, d, n)
       \/ RevokeDomainClaim(k, d)
       \/ \E u \in RwUsages : SubmitDomainUsage(k, d, u)
       \/ \E e \in 0..MaxSlot : ClaimDomainRewards(k, d, e)
  \/ \E a \in RwAmounts :
       \/ PayToll(a)
       \/ \E d \in RwDomains : PayTollWithDomain(d, a)
       \/ \E k \in Keys : FundRewards(k, a)
  \/ RwCli

-----------------------------------------------------------------------------
RwTypeOK ==
  /\ rwTreasury \in Nat /\ rwPaid \in 0..RwMaxPaid
  /\ DOMAIN rwClaims \subseteq RwDomains
  /\ \A d \in DOMAIN rwClaims :
       rwClaims[d] \in [owner: Keys, status: {"verified", "revoked"}]
  /\ \A c \in DOMAIN rwChallenges :
       rwChallenges[c].owner \in Keys /\ rwChallenges[c].expires \in Nat

\* A domain belongs to a wallet that started a challenge for it, and a revoked
\* claim is never verified again, by no challenge left over or started anew.
ClaimProven ==
  [][/\ \A d \in DOMAIN rwClaims' : <<d, rwClaims'[d].owner>> \in rwProofs
     /\ \A d \in RwDomains : Revoked(d) => Revoked(d)']_rwVars

\* Every token paid in is in the treasury or in a payout account: the rounding
\* of the domain's share loses and makes none, a reward is paid once for an
\* epoch, and the treasury never pays what it does not have.
TollsConserved == rwTreasury + SumFunction(rwPayouts) = rwPaid

-----------------------------------------------------------------------------
(***************************************************************************)
(* The domain rewards program (solana/programs/ddns_domain_rewards): a     *)
(* payment for a route is split at once between the owner of the domain,   *)
(* the miners and the treasury.                                            *)
(***************************************************************************)

CONSTANTS DrSplits,   \* <<owner, miners, treasury>> shares in basis points
          DrMinTolls, \* min_toll_amount of init_config
          DrDomains,
          DrAmounts,  \* tokens of one payment
          DrMaxPaid   \* bound on all payments

ASSUME DrAssumption ==
  /\ \A s \in DrSplits : s[1] \in Nat /\ s[2] \in Nat /\ s[3] \in Nat
  /\ DrAmounts \subseteq Nat

VARIABLES drConfig,   \* Config: default splits, smallest toll; None before init
          drOwners,   \* DomainOwner by domain: wallet, splits
          drEarned,   \* tokens paid to each wallet as an owner
          drMiners, drTreasury, \* tokens in the two vaults
          drPaid      \* history: tokens all payers paid

drVars == <<drConfig, drOwners, drEarned, drMiners, drTreasury, drPaid>>

DrInit ==
  /\ drConfig = None /\ drOwners = NoAccounts /\ drEarned = [k \in Keys |-> 0]
  /\ drMiners = 0 /\ drTreasury = 0 /\ drPaid = 0

\* require_splits_ok
SplitsOk(s) == s[1] + s[2] + s[3] = BpsDenom

DrInitConfig(splits, minToll) ==
  /\ drConfig = None /\ SplitsOk(splits) /\ minToll > 0
  /\ drConfig' = [splits |-> splits, minToll |-> minToll]
  /\ UNCHANGED <<drOwners, drEarned, drMiners, drTreasury, drPaid>>

\* The first wallet to ask becomes the owner of a domain.
DrRegisterOwner(d, k, splits) ==
  /\ Vacant(drOwners, d) /\ SplitsOk(splits)
  /\ drOwners' = Created(drOwners, d, [wallet |-> k, splits |-> splits])
  /\ UNCHANGED <<drConfig, drEarned, drMiners, drTreasury, drPaid>>

UpdateDomainSplits(d, k, splits) ==
  /\ Exists(drOwners, d) /\ drOwners[d].wallet = k /\ SplitsOk(splits)
  /\ drOwners' = [drOwners EXCEPT ![d].splits = splits]
  /\ UNCHANGED <<drConfig, drEarned, drMiners, drTreasury, drPaid>>

\* The payer chooses the account it gives for the owner of the domain: it counts
\* if it is the owner record of this very domain.
Payee(d, given) ==
  IF given = d /\ Exists(drOwners, d) THEN drOwners[d]
  ELSE [wallet |-> None, splits |-> drConfig.splits]

\* The treasury takes what the roundings leave.
TollPayForRoute(d, amount, given) ==
  /\ drConfig # None /\ amount >= drConfig.minToll /\ drPaid + amount <= DrMaxPaid
  /\ LET p      == Payee(d, given)
         owner  == MulBps(amount, p.splits[1])
         miners == MulBps(amount, p.splits[2])
     IN  /\ owner > 0 => p.wallet # None
         /\ drEarned' = [k \in Keys |->
                           drEarned[k] + (IF k = p.wallet THEN owner ELSE 0)]
         /\ drMiners' = drMiners + miners
         /\ drTreasury' = drTreasury + (amount - owner - miners)
  /\ drPaid' = drPaid + amount
  /\ UNCHANGED <<drConfig, drOwners>>

\* The commands of solana/scripts/domain_rewards.ts.
CliDrInit(splits, minToll) == drConfig = None /\ DrInitConfig(splits, minToll)
CliDrRegister(k, d, splits) == drConfig # None /\ DrRegisterOwner(d, k, splits)
\* The account of the owner is derived from the name; the payout account is an
\* argument, by default one of the payer, and it has to be the owner's.
CliDrPay(d, amount, payout) ==
  /\ drConfig # None /\ Payee(d, d).wallet \in {None, payout}
  /\ TollPayForRoute(d, amount, d)

DrCli ==
  \/ \E s \in DrSplits : \/ \E t \in DrMinTolls : CliDrInit(s, t)
                         \/ \E d \in DrDomains, k \in Keys : CliDrRegister(k, d, s)
  \/ \E d \in DrDomains, a \in DrAmounts, k \in Keys : CliDrPay(d, a, k)

DrNext ==
  \/ \E s \in DrSplits : \/ \E t \in DrMinTolls : DrInitConfig(s, t)
                         \/ \E d \in DrDomains, k \in Keys :
                              DrRegisterOwner(d, k, s) \/ UpdateDomainSplits(d, k, s)
  \/ \E d \in DrDomains, a \in DrAmounts, g \in DrDomains \cup {None} :
       TollPayForRoute(d, a, g)
  \/ DrCli

-----------------------------------------------------------------------------
\* Every token paid arrives with an owner or in a vault: the three shares make
\* the amount for any splits, whichever of the accounts the payer gives and
\* however the shares round.
RouteTollsConserved == drPaid = SumFunction(drEarned) + drMiners + drTreasury

\* Nobody is paid as an owner without being one of a domain.
OnlyOwnersEarn ==
  \A k \in Keys : drEarned[k] > 0 => \E d \in DOMAIN drOwners : drOwners[d].wallet = k
=============================================================================
