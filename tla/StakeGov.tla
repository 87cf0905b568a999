------------------------------ MODULE StakeGov ------------------------------
(***************************************************************************)
(* The stake governance program (solana/programs/ddns_stake_gov): stakes   *)
(* with lock-ups, exits in two steps, delegation to registered verifiers,  *)
(* slashing by an allowlist, and one weight snapshot per epoch.            *)
(***************************************************************************)
EXTENDS SolanaChain, Sequences, Functions

CONSTANTS GovConfigs,   \* arguments of init_config that may be tried
          GovAmounts,   \* amounts of stake, lock and request_exit
          GovMaxStake,  \* bound on the stake of one position
          GovSlashBps,  \* slash_bps of apply_slash
          GovReasons,   \* reason_hash of apply_slash
          GovEpochs,    \* epoch_id of submit_snapshot and apply_slash
          GovLockEpochs,\* lock_epochs of lock
          GovDelegates, \* wallets to register, and delegates
          GovFlags      \* values of `active` and `delegation_slashable`

GovConfigType ==
  [authority: Keys \cup {None}, epochLen: Nat, minStake: Nat, maxVerifiers: Nat,
   minLock: Nat, maxLock: Nat, maxSlashBps: Nat, exitCooldown: Nat,
   disputeWindow: Nat, jailEpochs: Nat, tiers: Seq([epochs: Nat, multiplier: Nat]),
   slashAuthorities: SUBSET Keys, snapshotSubmitters: SUBSET Keys]

ASSUME GovAssumption ==
  /\ GovConfigs \subseteq GovConfigType /\ None \notin GovConfigType
  /\ GovAmounts \subseteq Nat /\ GovSlashBps \subseteq Nat /\ GovEpochs \subseteq Nat
  /\ GovLockEpochs \subseteq Nat /\ GovDelegates \subseteq Keys
  /\ GovFlags \subseteq BOOLEAN /\ GovMaxStake \in Nat

VARIABLES govConfig,     \* StakeGovConfig, None before init_config
          govVerifiers,  \* VerifierRegistry: [active, jailedUntil] by verifier
          govPositions,  \* StakePosition by staker
          govVault,      \* tokens in the vault
          govSnapshots,  \* epochs with a StakeSnapshot
          govSlashes,    \* SlashRecord: amount by <<epoch, offender, reason>>
          govRequested   \* history: when the latest exit that is not paid
                         \* was requested, by staker

govVars == <<govConfig, govVerifiers, govPositions, govVault, govSnapshots,
             govSlashes, govRequested>>

GovInit ==
  /\ govConfig = None /\ govVerifiers = NoAccounts /\ govPositions = NoAccounts
  /\ govVault = 0 /\ govSnapshots = {} /\ govSlashes = NoAccounts
  /\ govRequested = NoAccounts

GovMaxAllowlist == 16
GovMaxVerifiers == 64

\* The tiers do not go down in epochs and none pays less than the base.
GovTiersValid(tiers) ==
  /\ \A i \in 1..(Len(tiers) - 1) : tiers[i].epochs <= tiers[i + 1].epochs
  /\ \A i \in 1..Len(tiers) : tiers[i].multiplier >= BpsDenom

GovInitConfig(authority, c) ==
  /\ govConfig = None
  /\ c.epochLen > 0 /\ c.minLock <= c.maxLock /\ c.maxSlashBps <= BpsDenom
  /\ c.maxVerifiers <= GovMaxVerifiers /\ GovTiersValid(c.tiers)
  /\ Cardinality(c.slashAuthorities) <= GovMaxAllowlist
  /\ Cardinality(c.snapshotSubmitters) <= GovMaxAllowlist
  /\ govConfig' = [c EXCEPT !.authority = authority]
  /\ UNCHANGED <<govVerifiers, govPositions, govVault, govSnapshots,
                 govSlashes, govRequested>>

GovEpoch == EpochOf(govConfig.epochLen)

GovAuthoritySigns(k) == govConfig # None /\ k = govConfig.authority

GovRegisterVerifier(authority, v) ==
  /\ GovAuthoritySigns(authority)
  /\ Vacant(govVerifiers, v)
  /\ Cardinality(DOMAIN govVerifiers) < govConfig.maxVerifiers
  /\ govVerifiers' = Created(govVerifiers, v, [active |-> TRUE, jailedUntil |-> 0])
  /\ UNCHANGED <<govConfig, govPositions, govVault, govSnapshots, govSlashes,
                 govRequested>>

GovSetVerifierActive(authority, v, active) ==
  /\ GovAuthoritySigns(authority)
  /\ Exists(govVerifiers, v)
  /\ govVerifiers' = [govVerifiers EXCEPT ![v].active = active]
  /\ UNCHANGED <<govConfig, govPositions, govVault, govSnapshots, govSlashes,
                 govRequested>>

GovInitStakePosition(s) ==
  /\ govConfig # None /\ Vacant(govPositions, s)
  /\ govPositions' = Created(govPositions, s,
       [staked |-> 0, locked |-> 0, lockEnd |-> 0, multiplier |-> BpsDenom,
        exitEpoch |-> 0, pending |-> 0, delegate |-> None, slashable |-> FALSE,
        lastSlash |-> 0])
  /\ UNCHANGED <<govConfig, govVerifiers, govVault, govSnapshots, govSlashes,
                 govRequested>>

\* The position is derived from the staker who signs.
GovStakerSigns(s) == Exists(govPositions, s)

GovUpdate(s, position) ==
  /\ govPositions' = [govPositions EXCEPT ![s] = position]
  /\ UNCHANGED <<govConfig, govVerifiers, govSnapshots, govSlashes>>

GovTransferToVault(amount) == govVault' = govVault + amount
GovTransferToUser(amount) == amount <= govVault /\ govVault' = govVault - amount

GovStake(s, amount) ==
  /\ GovStakerSigns(s) /\ amount > 0
  /\ LET p == govPositions[s]
         total == p.staked + amount
     IN /\ total >= govConfig.minStake /\ total <= GovMaxStake
        /\ GovUpdate(s, [p EXCEPT !.staked = total])
  /\ GovTransferToVault(amount)
  /\ UNCHANGED govRequested

GovLiquid(p) == SaturatingSub(SaturatingSub(p.staked, p.locked), p.pending)

\* choose_multiplier_bps: the last tier whose length the lock reaches.
GovMultiplier(tiers, epochs) ==
  LET reached == {i \in 1..Len(tiers) : tiers[i].epochs <= epochs}
  IN IF reached = {} THEN BpsDenom
     ELSE tiers[CHOOSE i \in reached : \A j \in reached : j <= i].multiplier

GovLock(s, amount, epochs) ==
  /\ GovStakerSigns(s) /\ amount > 0
  /\ epochs \in govConfig.minLock..govConfig.maxLock
  /\ LET p == govPositions[s]
     IN /\ amount <= GovLiquid(p)
        /\ GovUpdate(s, [p EXCEPT
             !.locked = @ + amount,
             !.lockEnd = Greater(@, GovEpoch + epochs),
             !.multiplier = Greater(@, GovMultiplier(govConfig.tiers, epochs))])
  /\ UNCHANGED <<govVault, govRequested>>

GovUnlockExpired(s) ==
  /\ GovStakerSigns(s)
  /\ LET p == govPositions[s]
     IN /\ p.lockEnd # 0 /\ GovEpoch >= p.lockEnd
        /\ GovUpdate(s, [p EXCEPT !.locked = 0, !.lockEnd = 0,
                                  !.multiplier = BpsDenom])
  /\ UNCHANGED <<govVault, govRequested>>

\* The epoch of an earlier request that has not been paid stays.
GovRequestExit(s, amount) ==
  /\ GovStakerSigns(s) /\ amount > 0
  /\ LET p == govPositions[s]
     IN /\ amount <= GovLiquid(p)
        /\ GovUpdate(s, [p EXCEPT
             !.pending = @ + amount,
             !.exitEpoch = IF @ = 0 THEN GovEpoch ELSE @])
  /\ govRequested' = Created(govRequested, s, GovEpoch)
  /\ UNCHANGED govVault

GovFinalizeWithdraw(s) ==
  /\ GovStakerSigns(s)
  /\ LET p == govPositions[s]
     IN /\ p.exitEpoch # 0 /\ GovEpoch >= p.exitEpoch + govConfig.exitCooldown
        /\ p.pending > 0 /\ p.pending <= p.staked
        /\ GovUpdate(s, [p EXCEPT !.staked = @ - p.pending, !.pending = 0,
                                  !.exitEpoch = 0])
        /\ GovTransferToUser(p.pending)
  /\ govRequested' = Restrict(govRequested, DOMAIN govRequested \ {s})

GovSetDelegate(s, d) ==
  /\ GovStakerSigns(s)
  /\ d # None => /\ Exists(govVerifiers, d) /\ govVerifiers[d].active
                 /\ govVerifiers[d].jailedUntil <= GovEpoch
  /\ GovUpdate(s, [govPositions[s] EXCEPT !.delegate = d])
  /\ UNCHANGED <<govVault, govRequested>>

GovSetDelegationSlashable(s, b) ==
  /\ GovStakerSigns(s)
  /\ GovUpdate(s, [govPositions[s] EXCEPT !.slashable = b])
  /\ UNCHANGED <<govVault, govRequested>>

GovSubmitSnapshot(submitter, epoch) ==
  /\ govConfig # None /\ submitter \in govConfig.snapshotSubmitters
  /\ epoch \notin govSnapshots
  /\ govSnapshots' = govSnapshots \cup {epoch}
  /\ UNCHANGED <<govConfig, govVerifiers, govPositions, govVault, govSlashes,
                 govRequested>>

\* A slash takes the liquid stake first, pending exits included, then the
\* locked one; what is left of a pending exit is what is still liquid.
GovSlashed(p, amount) ==
  LET fromLocked == SaturatingSub(amount, SaturatingSub(p.staked, p.locked))
      locked     == p.locked - Lesser(p.locked, fromLocked)
      staked     == SaturatingSub(p.staked, amount)
      emptied    == fromLocked > 0 /\ locked = 0
      pending    == Lesser(p.pending, SaturatingSub(staked, locked))
  IN [p EXCEPT
        !.staked = staked, !.locked = locked, !.pending = pending,
        !.lockEnd = IF emptied THEN 0 ELSE @,
        !.multiplier = IF emptied THEN BpsDenom ELSE @,
        !.exitEpoch = IF pending < p.pending /\ pending = 0 THEN 0 ELSE @]

\* Slashed tokens stay in the vault.
GovApplySlash(slasher, offender, epoch, bps, reason) ==
  /\ govConfig # None /\ slasher \in govConfig.slashAuthorities
  /\ Exists(govPositions, offender)
  /\ bps <= govConfig.maxSlashBps /\ GovEpoch <= epoch + govConfig.disputeWindow
  /\ Vacant(govSlashes, <<epoch, offender, reason>>)
  /\ LET p == govPositions[offender]
         amount == MulBps(p.staked, bps)
         after == IF amount = 0 THEN p ELSE GovSlashed(p, amount)
     IN /\ govPositions' =
             [govPositions EXCEPT ![offender] = [after EXCEPT !.lastSlash = GovEpoch]]
        /\ govSlashes' = Created(govSlashes, <<epoch, offender, reason>>, amount)
        /\ govRequested' = IF after.pending > 0 THEN govRequested
             ELSE Restrict(govRequested, DOMAIN govRequested \ {offender})
  /\ govVerifiers' =
       IF Vacant(govVerifiers, offender) THEN govVerifiers
       ELSE [govVerifiers EXCEPT ![offender].jailedUntil =
               Greater(@, GovEpoch + govConfig.jailEpochs)]
  /\ UNCHANGED <<govConfig, govVault, govSnapshots>>

\* The commands of solana/scripts/stake_gov.ts, slash_gov.ts and
\* snapshot_gov.ts, run by the wallet k; an authority that is not given is k.
CliGovInitConfig(k, c) == GovInitConfig(k, c)
CliGovRegisterVerifier(k, v) == GovRegisterVerifier(k, v)
CliGovSetVerifierActive(k, v, active) == GovSetVerifierActive(k, v, active)
CliGovInitPosition(k) == GovInitStakePosition(k)
\* The configuration is read first, for its mint and its vault.
CliGovStake(k, amount) == govConfig # None /\ GovStake(k, amount)
CliGovLock(k, amount, epochs) == GovLock(k, amount, epochs)
CliGovUnlockExpired(k) == GovUnlockExpired(k)
CliGovRequestExit(k, amount) == GovRequestExit(k, amount)
CliGovFinalizeWithdraw(k) == govConfig # None /\ GovFinalizeWithdraw(k)
CliGovDelegate(k, to) == GovSetDelegate(k, to)
CliGovSetDelegationSlashable(k, enabled) == GovSetDelegationSlashable(k, enabled)
CliGovSnapshot(k, e) == GovSubmitSnapshot(k, e)
CliGovSlash(k, offender, e, bps, reason) == GovApplySlash(k, offender, e, bps, reason)

GovCli ==
  \E k \in Keys :
    \/ \E c \in GovConfigs : CliGovInitConfig(k, c)
    \/ \E v \in GovDelegates : \/ CliGovRegisterVerifier(k, v)
                               \/ \E b \in GovFlags : CliGovSetVerifierActive(k, v, b)
    \/ CliGovInitPosition(k) \/ CliGovUnlockExpired(k) \/ CliGovFinalizeWithdraw(k)
    \/ \E a \in GovAmounts : \/ CliGovStake(k, a) \/ CliGovRequestExit(k, a)
                             \/ \E n \in GovLockEpochs : CliGovLock(k, a, n)
    \/ \E d \in GovDelegates \cup {None} : CliGovDelegate(k, d)
    \/ \E b \in GovFlags : CliGovSetDelegationSlashable(k, b)
    \/ \E e \in GovEpochs :
         \/ CliGovSnapshot(k, e)
         \/ \E o \in Keys, b \in GovSlashBps, r \in GovReasons : CliGovSlash(k, o, e, b, r)

GovNext ==
  \/ \E k \in Keys, c \in GovConfigs : GovInitConfig(k, c)
  \/ \E k \in Keys, v \in GovDelegates : GovRegisterVerifier(k, v)
  \/ \E k \in Keys, v \in GovDelegates, b \in GovFlags : GovSetVerifierActive(k, v, b)
  \/ \E s \in Keys : GovInitStakePosition(s)
  \/ \E s \in Keys, a \in GovAmounts : GovStake(s, a)
  \/ \E s \in Keys, a \in GovAmounts, n \in GovLockEpochs : GovLock(s, a, n)
  \/ \E s \in Keys : GovUnlockExpired(s)
  \/ \E s \in Keys, a \in GovAmounts : GovRequestExit(s, a)
  \/ \E s \in Keys : GovFinalizeWithdraw(s)
  \/ \E s \in Keys, d \in GovDelegates \cup {None} : GovSetDelegate(s, d)
  \/ \E s \in Keys, b \in GovFlags : GovSetDelegationSlashable(s, b)
  \/ \E k \in Keys, e \in GovEpochs : GovSubmitSnapshot(k, e)
  \/ \E k, o \in Keys, e \in GovEpochs, b \in GovSlashBps, r \in GovReasons :
       GovApplySlash(k, o, e, b, r)
  \/ GovCli

GovSpec ==
  ChainInit /\ GovInit
  /\ [][(GovNext /\ UNCHANGED slot) \/ (NewSlot /\ UNCHANGED govVars)]_<<slot, govVars>>

-----------------------------------------------------------------------------
GovPosition ==
  [staked: Nat, locked: Nat, lockEnd: Nat, multiplier: Nat, exitEpoch: Nat,
   pending: Nat, delegate: Keys \cup {None}, slashable: BOOLEAN, lastSlash: Nat]

\* The types of the accounts.
GovTypeOK ==
  /\ DOMAIN govPositions \subseteq Keys
  /\ \A s \in DOMAIN govPositions : govPositions[s] \in GovPosition
  /\ DOMAIN govVerifiers \subseteq Keys
  /\ \A v \in DOMAIN govVerifiers :
       govVerifiers[v] \in [active: BOOLEAN, jailedUntil: Nat]
  /\ govVault \in Nat /\ govSnapshots \subseteq Nat

\* What is locked and what is on its way out are disjoint parts of a stake,
\* whatever order stakes, locks, exits and slashes come in: a slash that eats
\* into either shrinks it in the same transaction.
GovPartsOfStake ==
  \A s \in DOMAIN govPositions :
    govPositions[s].locked + govPositions[s].pending <= govPositions[s].staked

GovStakes == [s \in DOMAIN govPositions |-> govPositions[s].staked]

\* The vault holds every stake, slashed or not: finalize_withdraw never finds
\* it short because another staker left first.
GovSolvent ==
  govVault = SumFunction(GovStakes) + SumFunction(govSlashes)

=============================================================================
