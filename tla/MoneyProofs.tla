---------------------------- MODULE MoneyProofs -----------------------------
(***************************************************************************)
(* Theorems about the money of the Solana programs: vaults hold what the   *)
(* accounts say, payments arrive in full, and rewards are paid once.       *)
(***************************************************************************)
EXTENDS MCChain, ChainProofs, SumTheorems, SequenceTheorems

-----------------------------------------------------------------------------
(***************************************************************************)
(* Arithmetic of the programs.                                             *)
(***************************************************************************)

\* A share of at most all of an amount is a part of it.
LEMMA ShareOfAmount ==
  ASSUME NEW a \in Nat, NEW bps \in Nat
  PROVE  /\ MulBps(a, bps) \in Nat
         /\ bps <= BpsDenom => MulBps(a, bps) <= a
<1> DEFINE p == a * bps
           q == p \div BpsDenom
<1>1. p \in Nat  OBVIOUS
<1>2. q \in Nat /\ BpsDenom * q <= p
  <2> HIDE DEF p
  <2> QED  BY <1>1 DEF BpsDenom
<1>3. ASSUME bps <= BpsDenom PROVE p <= a * BpsDenom
  BY <1>3 DEF BpsDenom
<1>4. ASSUME bps <= BpsDenom PROVE q <= a
  <2> HIDE DEF p, q
  <2> QED  BY <1>1, <1>2, <1>3, <1>4 DEF BpsDenom
<1>5. MulBps(a, bps) = q  BY DEF MulBps
<1> QED  BY <1>2, <1>4, <1>5

-----------------------------------------------------------------------------
(***************************************************************************)
(* Stake governance.                                                       *)
(***************************************************************************)

\* The history of slashes and the positions are finite, because each was made
\* by an instruction; only a configured program has positions.
GovAccounts ==
  /\ govConfig # None => /\ govConfig \in GovConfigType
                         /\ govConfig.epochLen > 0
                         /\ govConfig.maxSlashBps <= BpsDenom
  /\ DOMAIN govPositions # {} => govConfig # None
  /\ IsFiniteSet(DOMAIN govPositions) /\ IsFiniteSet(DOMAIN govSlashes)
  /\ \A x \in DOMAIN govSlashes : govSlashes[x] \in Nat
  /\ GovTypeOK /\ GovPartsOfStake /\ GovSolvent

GovInv == slot \in Nat /\ GovAccounts

LEMMA GovEpochNat ==
  ASSUME GovInv, govConfig # None PROVE GovEpoch \in Nat
<1>1. slot \in Nat /\ govConfig.epochLen \in Nat /\ govConfig.epochLen > 0
  BY DEF GovInv, GovAccounts, GovConfigType
<1> QED  BY <1>1 DEF GovEpoch, EpochOf

\* One position written: the types, the parts and the sum of the stakes.
LEMMA GovWrites ==
  ASSUME GovInv, NEW s \in Keys, NEW q \in GovPosition, q.locked + q.pending <= q.staked,
         DOMAIN govPositions' = DOMAIN govPositions \cup {s}, govPositions'[s] = q,
         \A x \in DOMAIN govPositions \ {s} : govPositions'[x] = govPositions[x]
  PROVE  /\ IsFiniteSet(DOMAIN govPositions')
         /\ DOMAIN govPositions' \subseteq Keys
         /\ \A x \in DOMAIN govPositions' : govPositions'[x] \in GovPosition
         /\ GovPartsOfStake'
         /\ SumFunction(GovStakes) \in Int
         /\ SumFunction(GovStakes') = SumFunction(GovStakes) + q.staked
              - (IF s \in DOMAIN govPositions THEN govPositions[s].staked ELSE 0)
<1>1. \A x \in DOMAIN govPositions : govPositions[x] \in GovPosition
  BY DEF GovInv, GovAccounts, GovTypeOK
<1>2. \A x \in DOMAIN govPositions' : govPositions'[x] \in GovPosition
  BY <1>1
<1>3. GovPartsOfStake'
  BY DEF GovInv, GovAccounts, GovPartsOfStake
<1>4. /\ DOMAIN GovStakes = DOMAIN govPositions
      /\ DOMAIN GovStakes' = DOMAIN govPositions'
      /\ \A x \in DOMAIN govPositions : GovStakes[x] = govPositions[x].staked
      /\ \A x \in DOMAIN govPositions' : GovStakes'[x] = govPositions'[x].staked
  BY DEF GovStakes
<1>5. /\ \A x \in DOMAIN GovStakes : GovStakes[x] \in Int
      /\ GovStakes'[s] \in Int /\ GovStakes'[s] = q.staked
      /\ \A x \in DOMAIN GovStakes \ {s} : GovStakes'[x] = GovStakes[x]
  BY <1>1, <1>4 DEF GovPosition
<1>6. IsFiniteSet(DOMAIN GovStakes) /\ DOMAIN GovStakes' = DOMAIN GovStakes \cup {s}
  BY <1>4 DEF GovInv, GovAccounts
<1>7. /\ SumFunction(GovStakes) \in Int
      /\ IsFiniteSet(DOMAIN GovStakes')
      /\ SumFunction(GovStakes') = SumFunction(GovStakes) + GovStakes'[s]
           - (IF s \in DOMAIN GovStakes THEN GovStakes[s] ELSE 0)
  BY <1>5, <1>6, SumWrites
<1>8. DOMAIN govPositions \subseteq Keys  BY DEF GovInv, GovAccounts, GovTypeOK
<1> QED  BY <1>2, <1>3, <1>4, <1>5, <1>7, <1>8

\* Instructions that write one position and move its stake in or out of the
\* vault.
LEMMA GovUpdates ==
  ASSUME GovInv, NEW s \in DOMAIN govPositions, NEW q \in GovPosition,
         q.locked + q.pending <= q.staked, GovUpdate(s, q), govVault' \in Nat,
         govVault' = govVault + q.staked - govPositions[s].staked
  PROVE  GovAccounts'
<1>1. s \in Keys  BY DEF GovInv, GovAccounts, GovTypeOK
<1>2. /\ DOMAIN govPositions' = DOMAIN govPositions \cup {s}
      /\ govPositions'[s] = q
      /\ \A x \in DOMAIN govPositions \ {s} : govPositions'[x] = govPositions[x]
  BY DEF GovUpdate
<1>3. /\ IsFiniteSet(DOMAIN govPositions')
      /\ DOMAIN govPositions' \subseteq Keys
      /\ \A x \in DOMAIN govPositions' : govPositions'[x] \in GovPosition
      /\ GovPartsOfStake'
      /\ SumFunction(GovStakes) \in Int
      /\ SumFunction(GovStakes') = SumFunction(GovStakes) + q.staked - govPositions[s].staked
  BY <1>1, <1>2, GovWrites
<1>4. UNCHANGED <<govConfig, govVerifiers, govSnapshots, govSlashes>>
  BY DEF GovUpdate
<1>5. GovTypeOK'
  BY <1>3, <1>4 DEF GovInv, GovAccounts, GovTypeOK
<1>6. GovSolvent'
  <2>1. SumFunction(govSlashes') = SumFunction(govSlashes)  BY <1>4
  <2>2. govVault = SumFunction(GovStakes) + SumFunction(govSlashes) /\ govVault \in Nat
    BY DEF GovInv, GovAccounts, GovSolvent, GovTypeOK
  <2>3. q.staked \in Nat /\ govPositions[s].staked \in Nat
    BY DEF GovInv, GovAccounts, GovTypeOK, GovPosition
  <2>4. SumFunction(govSlashes) \in Int
    <3>1. IsFiniteSet(DOMAIN govSlashes) /\ \A x \in DOMAIN govSlashes : govSlashes[x] \in Int
      BY DEF GovInv, GovAccounts
    <3> QED  BY <3>1, SumInt, SumAll
  <2> QED  BY <1>3, <2>1, <2>2, <2>3, <2>4 DEF GovSolvent
<1>7. govConfig # None
  BY DEF GovInv, GovAccounts
<1> QED  BY <1>3, <1>4, <1>5, <1>6, <1>7 DEF GovInv, GovAccounts

LEMMA GovPositionIs ==
  ASSUME GovInv, NEW s \in DOMAIN govPositions
  PROVE  /\ govPositions[s] \in GovPosition
         /\ govPositions[s].staked \in Nat /\ govPositions[s].locked \in Nat
         /\ govPositions[s].pending \in Nat
         /\ govPositions[s].locked + govPositions[s].pending <= govPositions[s].staked
         /\ govConfig # None /\ govVault \in Nat
BY DEF GovInv, GovAccounts, GovTypeOK, GovPosition, GovPartsOfStake

\* The records that the instructions write.
GovLocked(p, a, b, c) == [p EXCEPT !.locked = a, !.lockEnd = b, !.multiplier = c]
GovExiting(p, a, b) == [p EXCEPT !.pending = a, !.exitEpoch = b]
GovWithdrawn(p, a) == [p EXCEPT !.staked = a, !.pending = 0, !.exitEpoch = 0]

LEMMA GovLockedIs ==
  ASSUME NEW p \in GovPosition, NEW a \in Nat, NEW b \in Nat, NEW c \in Nat
  PROVE  /\ GovLocked(p, a, b, c) \in GovPosition
         /\ GovLocked(p, a, b, c).staked = p.staked
         /\ GovLocked(p, a, b, c).locked = a
         /\ GovLocked(p, a, b, c).pending = p.pending
<1>1. PICK q : q = [p EXCEPT !.locked = a, !.lockEnd = b, !.multiplier = c]  OBVIOUS
<1> QED  BY <1>1 DEF GovLocked, GovPosition

LEMMA GovExitingIs ==
  ASSUME NEW p \in GovPosition, NEW a \in Nat, NEW b \in Nat
  PROVE  LET q == GovExiting(p, a, b)
         IN  /\ q \in GovPosition
             /\ q.staked = p.staked /\ q.locked = p.locked /\ q.pending = a
<1>1. PICK q : q = [p EXCEPT !.pending = a, !.exitEpoch = b]  OBVIOUS
<1> QED  BY <1>1 DEF GovExiting, GovPosition

LEMMA GovWithdrawnIs ==
  ASSUME NEW p \in GovPosition, NEW a \in Nat
  PROVE  LET q == GovWithdrawn(p, a)
         IN  /\ q \in GovPosition
             /\ q.staked = a /\ q.locked = p.locked /\ q.pending = 0
<1>1. PICK q : q = [p EXCEPT !.staked = a, !.pending = 0, !.exitEpoch = 0]  OBVIOUS
<1> QED  BY <1>1 DEF GovWithdrawn, GovPosition

LEMMA GovStakeKeeps ==
  ASSUME GovInv, NEW s \in Keys, NEW amount \in GovAmounts, GovStake(s, amount)
  PROVE  GovAccounts'
<1> DEFINE p == govPositions[s]
           q == [p EXCEPT !.staked = p.staked + amount]
<1>1. s \in DOMAIN govPositions /\ amount \in Nat
  BY GovAssumption DEF GovStake, GovStakerSigns, Exists
<1>2. /\ p \in GovPosition /\ p.staked \in Nat /\ p.locked \in Nat /\ p.pending \in Nat
      /\ p.locked + p.pending <= p.staked /\ govVault \in Nat
  BY <1>1, GovPositionIs
<1> HIDE DEF p
<1>3. /\ q \in GovPosition /\ q.staked = p.staked + amount /\ q.locked = p.locked
      /\ q.pending = p.pending
  BY <1>1, <1>2 DEF GovPosition
<1>4. GovUpdate(s, q) /\ govVault' = govVault + amount
  BY DEF GovStake, GovTransferToVault, p
<1> HIDE DEF q
<1>5. /\ q.locked + q.pending <= q.staked /\ govVault' \in Nat
      /\ govVault' = govVault + q.staked - p.staked
  BY <1>1, <1>2, <1>3, <1>4
<1> QED  BY <1>1, <1>3, <1>4, <1>5, GovUpdates DEF p

\* What is liquid is neither locked nor on its way out.
LEMMA GovLiquidIs ==
  ASSUME NEW p \in GovPosition, NEW amount \in Nat, amount > 0, amount <= GovLiquid(p)
  PROVE  p.locked + p.pending + amount <= p.staked
BY DEF GovPosition, GovLiquid, SaturatingSub

\* The tier with the longest lock that is reached exists.
LEMMA GreatestExists ==
  ASSUME NEW S, IsFiniteSet(S), \A i \in S : i \in Int
  PROVE  S # {} => \E i \in S : \A j \in S : j <= i
<1> DEFINE Good == {r \in SUBSET S : r # {} => \E i \in r : \A j \in r : j <= i}
<1>1. {} \in Good  OBVIOUS
<1>2. ASSUME NEW r \in SUBSET S, NEW x \in r, r \ {x} \in Good
      PROVE  r \in Good
  <2>1. CASE r \ {x} = {}
    <3>1. \A j \in r : j <= x  BY <2>1
    <3> QED  BY <3>1
  <2>2. CASE r \ {x} # {}
    <3>1. PICK i \in r \ {x} : \A j \in r \ {x} : j <= i  BY <1>2, <2>2
    <3>2. CASE x <= i
      <4>1. \A j \in r : j <= i  BY <3>1, <3>2
      <4> QED  BY <4>1
    <3>3. CASE i <= x
      <4>1. \A j \in r : j <= x  BY <3>1, <3>3
      <4> QED  BY <4>1
    <3> QED  BY <3>2, <3>3
  <2> QED  BY <2>1, <2>2
<1>3. S \in Good
  <2> HIDE DEF Good
  <2> QED  BY <1>1, <1>2, ElementInduction
<1> QED  BY <1>3

LEMMA GovMultiplierNat ==
  ASSUME NEW tiers \in Seq([epochs: Nat, multiplier: Nat]), NEW epochs \in Nat
  PROVE  GovMultiplier(tiers, epochs) \in Nat
<1> DEFINE reached == {i \in 1..Len(tiers) : tiers[i].epochs <= epochs}
<1>1. CASE reached = {}
  BY <1>1 DEF GovMultiplier, BpsDenom
<1>2. CASE reached # {}
  <2>1. IsFiniteSet(reached)
    <3>1. IsFiniteSet(1..Len(tiers))  BY FS_Interval
    <3> QED  BY <3>1, FS_Subset
  <2>2. \E i \in reached : \A j \in reached : j <= i
    <3>1. \A i \in reached : i \in Int  OBVIOUS
    <3> HIDE DEF reached
    <3> QED  BY <1>2, <2>1, <3>1, GreatestExists
  <2> DEFINE m == CHOOSE i \in reached : \A j \in reached : j <= i
  <2>3. m \in reached  
    <3> HIDE DEF reached
    <3> QED  BY <2>2
  <2>4. tiers[m].multiplier \in Nat
    <3>1. m \in 1..Len(tiers)  BY <2>3
    <3> HIDE DEF m
    <3>2. tiers[m] \in [epochs: Nat, multiplier: Nat]  BY <3>1, ElementOfSeq
    <3> QED  BY <3>2
  <2>5. GovMultiplier(tiers, epochs) = tiers[m].multiplier
    BY <1>2, Zenon DEF GovMultiplier
  <2> QED  BY <2>4, <2>5
<1> QED  BY <1>1, <1>2

LEMMA GovLockKeeps ==
  ASSUME GovInv, NEW s \in Keys, NEW amount \in GovAmounts, NEW epochs \in GovLockEpochs,
         GovLock(s, amount, epochs)
  PROVE  GovAccounts'
<1> DEFINE p == govPositions[s]
           lockEnd == Greater(p.lockEnd, GovEpoch + epochs)
           multiplier == Greater(p.multiplier, GovMultiplier(govConfig.tiers, epochs))
           q == [p EXCEPT !.locked = p.locked + amount, !.lockEnd = lockEnd,
                          !.multiplier = multiplier]
<1>1. s \in DOMAIN govPositions /\ amount \in Nat /\ epochs \in Nat
  BY GovAssumption DEF GovLock, GovStakerSigns, Exists
<1>2. /\ p \in GovPosition /\ p.staked \in Nat /\ p.locked \in Nat /\ p.pending \in Nat
      /\ govConfig # None /\ govVault \in Nat
  BY <1>1, GovPositionIs
<1>3. p.lockEnd \in Nat /\ p.multiplier \in Nat  BY <1>2 DEF GovPosition
<1>4. GovEpoch \in Nat  BY <1>2, GovEpochNat
<1>5. GovMultiplier(govConfig.tiers, epochs) \in Nat
  <2>1. govConfig.tiers \in Seq([epochs: Nat, multiplier: Nat])
    BY <1>2 DEF GovInv, GovAccounts, GovConfigType
  <2> QED  BY <1>1, <2>1, GovMultiplierNat
<1>6. lockEnd \in Nat  BY <1>1, <1>3, <1>4 DEF Greater
<1>7. multiplier \in Nat  BY <1>3, <1>5 DEF Greater
<1>8. /\ amount > 0 /\ amount <= GovLiquid(p) /\ GovUpdate(s, q) /\ govVault' = govVault
  BY DEF GovLock
<1>9. p.locked + p.pending + amount <= p.staked
  <2> HIDE DEF p
  <2> QED  BY <1>1, <1>2, <1>8, GovLiquidIs
<1> HIDE DEF p, lockEnd, multiplier
<1>10. /\ q \in GovPosition /\ q.staked = p.staked /\ q.locked = p.locked + amount
       /\ q.pending = p.pending
  <2>1. p.locked + amount \in Nat  BY <1>1, <1>2
  <2> DEFINE a == p.locked + amount
             r == GovLocked(p, a, lockEnd, multiplier)
  <2>2. q = r  BY DEF GovLocked
  <2>3. /\ r \in GovPosition /\ r.staked = p.staked /\ r.locked = a
        /\ r.pending = p.pending
    <3>1. a \in Nat  BY <2>1
    <3> HIDE DEF a
    <3>2. r \in GovPosition  BY <1>2, <1>6, <1>7, <3>1, GovLockedIs
    <3>3. r.staked = p.staked  BY <1>2, <1>6, <1>7, <3>1, GovLockedIs
    <3>4. r.locked = a  BY <1>2, <1>6, <1>7, <3>1, GovLockedIs
    <3>5. r.pending = p.pending  BY <1>2, <1>6, <1>7, <3>1, GovLockedIs
    <3> QED  BY <3>2, <3>3, <3>4, <3>5
  <2> HIDE DEF q, r
  <2> QED  BY <2>2, <2>3
<1> HIDE DEF q
<1>11. /\ q.locked + q.pending <= q.staked /\ govVault' \in Nat
       /\ govVault' = govVault + q.staked - p.staked
  BY <1>1, <1>2, <1>8, <1>9, <1>10
<1> QED  BY <1>1, <1>8, <1>10, <1>11, GovUpdates DEF p

LEMMA GovUnlockKeeps ==
  ASSUME GovInv, NEW s \in Keys, GovUnlockExpired(s)
  PROVE  GovAccounts'
<1> DEFINE p == govPositions[s]
           q == [p EXCEPT !.locked = 0, !.lockEnd = 0, !.multiplier = BpsDenom]
<1>1. s \in DOMAIN govPositions
  BY DEF GovUnlockExpired, GovStakerSigns, Exists
<1>2. /\ p \in GovPosition /\ p.staked \in Nat /\ p.locked \in Nat /\ p.pending \in Nat
      /\ p.locked + p.pending <= p.staked /\ govVault \in Nat
  BY <1>1, GovPositionIs
<1>3. GovUpdate(s, q) /\ govVault' = govVault
  BY DEF GovUnlockExpired
<1> HIDE DEF p
<1>4. /\ q \in GovPosition /\ q.staked = p.staked /\ q.locked = 0
      /\ q.pending = p.pending
  <2>1. BpsDenom \in Nat  BY DEF BpsDenom
  <2> DEFINE r == GovLocked(p, 0, 0, BpsDenom)
  <2>2. q = r  BY DEF GovLocked
  <2>3. /\ r \in GovPosition /\ r.staked = p.staked /\ r.locked = 0
        /\ r.pending = p.pending
    <3>1. 0 \in Nat  OBVIOUS
    <3>2. r \in GovPosition  BY <1>2, <2>1, <3>1, GovLockedIs
    <3>3. r.staked = p.staked  BY <1>2, <2>1, <3>1, GovLockedIs
    <3>4. r.locked = 0  BY <1>2, <2>1, <3>1, GovLockedIs
    <3>5. r.pending = p.pending  BY <1>2, <2>1, <3>1, GovLockedIs
    <3> QED  BY <3>2, <3>3, <3>4, <3>5
  <2> HIDE DEF q, r
  <2> QED  BY <2>2, <2>3
<1> HIDE DEF q
<1>5. /\ q.locked + q.pending <= q.staked /\ govVault' \in Nat
      /\ govVault' = govVault + q.staked - p.staked
  BY <1>2, <1>3, <1>4
<1> QED  BY <1>1, <1>3, <1>4, <1>5, GovUpdates DEF p

LEMMA GovRequestExitKeeps ==
  ASSUME GovInv, NEW s \in Keys, NEW amount \in GovAmounts, GovRequestExit(s, amount)
  PROVE  GovAccounts'
<1> DEFINE p == govPositions[s]
           exit == IF p.exitEpoch = 0 THEN GovEpoch ELSE p.exitEpoch
           q == [p EXCEPT !.pending = p.pending + amount, !.exitEpoch = exit]
<1>1. s \in DOMAIN govPositions /\ amount \in Nat
  BY GovAssumption DEF GovRequestExit, GovStakerSigns, Exists
<1>2. /\ p \in GovPosition /\ p.staked \in Nat /\ p.locked \in Nat /\ p.pending \in Nat
      /\ govConfig # None /\ govVault \in Nat
  BY <1>1, GovPositionIs
<1>3. exit \in Nat
  <2>1. GovEpoch \in Nat /\ p.exitEpoch \in Nat
    BY <1>2, GovEpochNat DEF GovPosition
  <2> QED  BY <2>1
<1>4. /\ amount > 0 /\ amount <= GovLiquid(p) /\ GovUpdate(s, q) /\ govVault' = govVault
  BY DEF GovRequestExit
<1>5. p.locked + p.pending + amount <= p.staked
  <2> HIDE DEF p
  <2> QED  BY <1>1, <1>2, <1>4, GovLiquidIs
<1> HIDE DEF p, exit
<1>6. /\ q \in GovPosition /\ q.staked = p.staked /\ q.locked = p.locked
      /\ q.pending = p.pending + amount
  <2>1. PICK a \in Nat : a = p.pending + amount  BY <1>1, <1>2
  <2>2. q = GovExiting(p, a, exit)  BY <2>1 DEF GovExiting
  <2> HIDE DEF q
  <2>3. /\ GovExiting(p, a, exit) \in GovPosition
        /\ GovExiting(p, a, exit).staked = p.staked /\ GovExiting(p, a, exit).locked = p.locked
        /\ GovExiting(p, a, exit).pending = a
    BY <1>2, <1>3, GovExitingIs
  <2> QED  BY <2>1, <2>2, <2>3
<1> HIDE DEF q
<1>7. /\ q.locked + q.pending <= q.staked /\ govVault' \in Nat
      /\ govVault' = govVault + q.staked - p.staked
  BY <1>1, <1>2, <1>4, <1>5, <1>6
<1> QED  BY <1>1, <1>4, <1>6, <1>7, GovUpdates DEF p

LEMMA GovFinalizeWithdrawKeeps ==
  ASSUME GovInv, NEW s \in Keys, GovFinalizeWithdraw(s)
  PROVE  GovAccounts'
<1> DEFINE p == govPositions[s]
           q == [p EXCEPT !.staked = p.staked - p.pending, !.pending = 0, !.exitEpoch = 0]
<1>1. s \in DOMAIN govPositions
  BY DEF GovFinalizeWithdraw, GovStakerSigns, Exists
<1>2. /\ p \in GovPosition /\ p.staked \in Nat /\ p.locked \in Nat /\ p.pending \in Nat
      /\ p.locked + p.pending <= p.staked /\ govVault \in Nat
  BY <1>1, GovPositionIs
<1>3. GovUpdate(s, q) /\ p.pending <= govVault /\ govVault' = govVault - p.pending
  BY DEF GovFinalizeWithdraw, GovTransferToUser
<1> HIDE DEF p
<1>4. /\ q \in GovPosition /\ q.staked = p.staked - p.pending /\ q.locked = p.locked
      /\ q.pending = 0
  <2>1. p.staked - p.pending \in Nat  BY <1>2
  <2>2. q = GovWithdrawn(p, p.staked - p.pending)  BY DEF GovWithdrawn
  <2> HIDE DEF q
  <2> QED  BY <1>2, <2>1, <2>2, GovWithdrawnIs
<1> HIDE DEF q
<1>5. /\ q.locked + q.pending <= q.staked /\ govVault' \in Nat
      /\ govVault' = govVault + q.staked - p.staked
  BY <1>2, <1>3, <1>4
<1> QED  BY <1>1, <1>3, <1>4, <1>5, GovUpdates DEF p

\* Delegation leaves the amounts alone.
LEMMA GovSetDelegateKeeps ==
  ASSUME GovInv, NEW s \in Keys, NEW d \in GovDelegates \cup {None}, GovSetDelegate(s, d)
  PROVE  GovAccounts'
<1> DEFINE p == govPositions[s]
           q == [p EXCEPT !.delegate = d]
<1>1. s \in DOMAIN govPositions /\ d \in Keys \cup {None}
  BY GovAssumption DEF GovSetDelegate, GovStakerSigns, Exists
<1>2. /\ p \in GovPosition /\ p.staked \in Nat
      /\ p.locked + p.pending <= p.staked /\ govVault \in Nat
  BY <1>1, GovPositionIs
<1>3. GovUpdate(s, q) /\ govVault' = govVault
  BY DEF GovSetDelegate
<1> HIDE DEF p
<1>4. /\ q \in GovPosition /\ q.staked = p.staked /\ q.locked = p.locked
      /\ q.pending = p.pending
  BY <1>1, <1>2 DEF GovPosition
<1> HIDE DEF q
<1> QED  BY <1>1, <1>2, <1>3, <1>4, GovUpdates DEF p

LEMMA GovSetSlashableKeeps ==
  ASSUME GovInv, NEW s \in Keys, NEW b \in GovFlags, GovSetDelegationSlashable(s, b)
  PROVE  GovAccounts'
<1> DEFINE p == govPositions[s]
           q == [p EXCEPT !.slashable = b]
<1>1. s \in DOMAIN govPositions /\ b \in BOOLEAN
  BY GovAssumption DEF GovSetDelegationSlashable, GovStakerSigns, Exists
<1>2. /\ p \in GovPosition /\ p.staked \in Nat
      /\ p.locked + p.pending <= p.staked /\ govVault \in Nat
  BY <1>1, GovPositionIs
<1>3. GovUpdate(s, q) /\ govVault' = govVault
  BY DEF GovSetDelegationSlashable
<1> HIDE DEF p
<1>4. /\ q \in GovPosition /\ q.staked = p.staked /\ q.locked = p.locked
      /\ q.pending = p.pending
  BY <1>1, <1>2 DEF GovPosition
<1> HIDE DEF q
<1> QED  BY <1>1, <1>2, <1>3, <1>4, GovUpdates DEF p

LEMMA GovInitPositionKeeps ==
  ASSUME GovInv, NEW s \in Keys, GovInitStakePosition(s)
  PROVE  GovAccounts'
<1> DEFINE q == [staked |-> 0, locked |-> 0, lockEnd |-> 0, multiplier |-> BpsDenom,
                 exitEpoch |-> 0, pending |-> 0, delegate |-> None, slashable |-> FALSE,
                 lastSlash |-> 0]
<1>1. q \in GovPosition /\ q.staked = 0 /\ q.locked = 0 /\ q.pending = 0
  BY DEF GovPosition, BpsDenom
<1>2. /\ s \notin DOMAIN govPositions /\ govConfig # None
      /\ govPositions' = Created(govPositions, s, q)
  BY DEF GovInitStakePosition, Vacant
<1>3. UNCHANGED <<govConfig, govVerifiers, govVault, govSnapshots, govSlashes>>
  BY DEF GovInitStakePosition
<1> HIDE DEF q
<1>4. /\ DOMAIN govPositions' = DOMAIN govPositions \cup {s}
      /\ govPositions'[s] = q
      /\ \A x \in DOMAIN govPositions \ {s} : govPositions'[x] = govPositions[x]
  BY <1>2 DEF Created
<1>5. /\ IsFiniteSet(DOMAIN govPositions')
      /\ DOMAIN govPositions' \subseteq Keys
      /\ \A x \in DOMAIN govPositions' : govPositions'[x] \in GovPosition
      /\ GovPartsOfStake'
      /\ SumFunction(GovStakes) \in Int
      /\ SumFunction(GovStakes') = SumFunction(GovStakes) + 0 - 0
  <2>1. q.locked + q.pending <= q.staked  BY <1>1
  <2> QED  BY <1>1, <1>2, <1>4, <2>1, GovWrites
<1>6. GovTypeOK'
  BY <1>3, <1>5 DEF GovInv, GovAccounts, GovTypeOK
<1>7. GovSolvent'
  BY <1>3, <1>5 DEF GovInv, GovAccounts, GovSolvent
<1> QED  BY <1>2, <1>3, <1>5, <1>6, <1>7 DEF GovInv, GovAccounts

\* A slash takes its whole amount from the stake, and what is left locked and
\* on its way out still fits.
LEMMA GovSlashedIs ==
  ASSUME NEW p \in GovPosition, p.locked + p.pending <= p.staked,
         NEW amount \in Nat, amount <= p.staked
  PROVE  /\ GovSlashed(p, amount) \in GovPosition
         /\ GovSlashed(p, amount).staked = p.staked - amount
         /\ GovSlashed(p, amount).locked + GovSlashed(p, amount).pending <= p.staked - amount
<1> DEFINE fromLocked == SaturatingSub(amount, SaturatingSub(p.staked, p.locked))
           locked     == p.locked - Lesser(p.locked, fromLocked)
           staked     == SaturatingSub(p.staked, amount)
           emptied    == fromLocked > 0 /\ locked = 0
           pending    == Lesser(p.pending, SaturatingSub(staked, locked))
           lockEnd    == IF emptied THEN 0 ELSE p.lockEnd
           multiplier == IF emptied THEN BpsDenom ELSE p.multiplier
           exit       == IF pending < p.pending /\ pending = 0 THEN 0 ELSE p.exitEpoch
<1>1. /\ p.staked \in Nat /\ p.locked \in Nat /\ p.pending \in Nat
      /\ p.lockEnd \in Nat /\ p.multiplier \in Nat /\ p.exitEpoch \in Nat
  BY DEF GovPosition
<1>2. fromLocked \in Nat
  BY <1>1 DEF SaturatingSub
<1>3. staked \in Nat /\ staked = p.staked - amount
  BY <1>1 DEF SaturatingSub
<1>4. locked \in Nat /\ locked <= staked
  BY <1>1, <1>3 DEF SaturatingSub, Lesser
<1>5. pending \in Nat /\ locked + pending <= staked
  <2> HIDE DEF locked, staked
  <2> QED  BY <1>1, <1>3, <1>4 DEF SaturatingSub, Lesser
<1>6. lockEnd \in Nat /\ multiplier \in Nat /\ exit \in Nat
  <2> HIDE DEF fromLocked, locked, pending
  <2> QED  BY <1>1 DEF BpsDenom
<1>7. PICK q : q = [p EXCEPT !.staked = staked, !.locked = locked, !.pending = pending,
                             !.lockEnd = lockEnd, !.multiplier = multiplier,
                             !.exitEpoch = exit]
  OBVIOUS
<1>8. GovSlashed(p, amount) = q
  BY <1>7 DEF GovSlashed
<1> HIDE DEF staked, locked, pending, lockEnd, multiplier, exit
<1>9. q \in GovPosition /\ q.staked = staked /\ q.locked = locked /\ q.pending = pending
  BY <1>3, <1>4, <1>5, <1>6, <1>7 DEF GovPosition
<1> QED  BY <1>3, <1>5, <1>8, <1>9

LEMMA GovApplySlashKeeps ==
  ASSUME GovInv, NEW k, NEW o \in Keys, NEW e \in GovEpochs, NEW b \in GovSlashBps,
         NEW r \in GovReasons, GovApplySlash(k, o, e, b, r)
  PROVE  GovAccounts'
<1> DEFINE p == govPositions[o]
           amount == MulBps(p.staked, b)
           after == IF amount = 0 THEN p ELSE GovSlashed(p, amount)
           q == [after EXCEPT !.lastSlash = GovEpoch]
           x == <<e, o, r>>
<1>1. /\ o \in DOMAIN govPositions /\ govConfig # None /\ b <= govConfig.maxSlashBps
      /\ x \notin DOMAIN govSlashes
      /\ govPositions' = [govPositions EXCEPT ![o] = q]
      /\ govSlashes' = Created(govSlashes, x, amount)
      /\ UNCHANGED <<govConfig, govVault, govSnapshots>>
  BY DEF GovApplySlash, Exists, Vacant
<1>2. GovEpoch \in Nat  BY <1>1, GovEpochNat
<1>3. /\ p \in GovPosition /\ p.staked \in Nat /\ p.locked + p.pending <= p.staked
  BY <1>1, GovPositionIs
<1>4. amount \in Nat /\ amount <= p.staked
  <2>1. b \in Nat  BY GovAssumption
  <2>2. govConfig.maxSlashBps \in Nat /\ govConfig.maxSlashBps <= BpsDenom
    BY <1>1 DEF GovInv, GovAccounts, GovConfigType
  <2>3. b <= BpsDenom  BY <1>1, <2>1, <2>2 DEF BpsDenom
  <2> QED  BY <1>3, <2>1, <2>3, ShareOfAmount
<1> HIDE DEF p, amount
<1>5. after \in GovPosition /\ after.staked = p.staked - amount
      /\ after.locked + after.pending <= p.staked - amount
  <2>1. CASE amount = 0  BY <1>3, <2>1
  <2>2. CASE amount # 0
    <3>1. after = GovSlashed(p, amount)  BY <2>2
    <3> HIDE DEF after
    <3> QED  BY <1>3, <1>4, <3>1, GovSlashedIs
  <2> QED  BY <2>1, <2>2
<1> HIDE DEF after
<1>6. q \in GovPosition /\ q.staked = after.staked /\ q.locked = after.locked
      /\ q.pending = after.pending
  BY <1>2, <1>5 DEF GovPosition
<1>7. /\ DOMAIN govPositions' = DOMAIN govPositions \cup {o}
      /\ govPositions'[o] = q
      /\ \A y \in DOMAIN govPositions \ {o} : govPositions'[y] = govPositions[y]
  BY <1>1
<1> HIDE DEF q, x
<1>8. /\ IsFiniteSet(DOMAIN govPositions')
      /\ DOMAIN govPositions' \subseteq Keys
      /\ \A y \in DOMAIN govPositions' : govPositions'[y] \in GovPosition
      /\ GovPartsOfStake'
      /\ SumFunction(GovStakes) \in Int
      /\ SumFunction(GovStakes') = SumFunction(GovStakes) + q.staked - p.staked
  <2>1. q.locked + q.pending <= q.staked  BY <1>5, <1>6
  <2> QED  BY <1>1, <1>6, <1>7, <2>1, GovWrites DEF p
<1>9. /\ IsFiniteSet(DOMAIN govSlashes') /\ \A y \in DOMAIN govSlashes' : govSlashes'[y] \in Nat
      /\ SumFunction(govSlashes) \in Int
      /\ SumFunction(govSlashes') = SumFunction(govSlashes) + amount
  <2>1. /\ DOMAIN govSlashes' = DOMAIN govSlashes \cup {x} /\ govSlashes'[x] = amount
        /\ \A y \in DOMAIN govSlashes \ {x} : govSlashes'[y] = govSlashes[y]
    BY <1>1 DEF Created
  <2>2. IsFiniteSet(DOMAIN govSlashes) /\ \A y \in DOMAIN govSlashes : govSlashes[y] \in Nat
    BY DEF GovInv, GovAccounts
  <2>3. \A y \in DOMAIN govSlashes' : govSlashes'[y] \in Nat
    BY <1>4, <2>1, <2>2
  <2>4. /\ \A y \in DOMAIN govSlashes : govSlashes[y] \in Int
        /\ govSlashes'[x] \in Int
    BY <1>4, <2>1, <2>2
  <2> QED  BY <1>1, <2>1, <2>2, <2>3, <2>4, SumWrites
<1>10. GovSolvent'
  <2>1. govVault = SumFunction(GovStakes) + SumFunction(govSlashes)
    BY DEF GovInv, GovAccounts, GovSolvent
  <2> QED  BY <1>1, <1>3, <1>4, <1>5, <1>6, <1>8, <1>9, <2>1 DEF GovSolvent
<1>11. GovTypeOK'
  <2>1. \A v \in DOMAIN govVerifiers : govVerifiers[v] \in [active: BOOLEAN, jailedUntil: Nat]
    BY DEF GovInv, GovAccounts, GovTypeOK
  <2>2. /\ DOMAIN govVerifiers' = DOMAIN govVerifiers
        /\ \A v \in DOMAIN govVerifiers' : govVerifiers'[v] \in [active: BOOLEAN, jailedUntil: Nat]
    <3>1. CASE Vacant(govVerifiers, o)
      BY <2>1, <3>1 DEF GovApplySlash
    <3>2. CASE ~Vacant(govVerifiers, o)
      <4> DEFINE j == Greater(govVerifiers[o].jailedUntil, GovEpoch + govConfig.jailEpochs)
      <4>1. govVerifiers' = [govVerifiers EXCEPT ![o].jailedUntil = j]
        BY <3>2 DEF GovApplySlash
      <4>2. o \in DOMAIN govVerifiers  BY <3>2 DEF Vacant
      <4>3. j \in Nat
        <5>1. govConfig.jailEpochs \in Nat
          BY <1>1 DEF GovInv, GovAccounts, GovConfigType
        <5>2. govVerifiers[o].jailedUntil \in Nat  BY <2>1, <4>2
        <5> QED  BY <1>2, <5>1, <5>2 DEF Greater
      <4> HIDE DEF j
      <4> QED  BY <2>1, <4>1, <4>2, <4>3
    <3> QED  BY <3>1, <3>2
  <2> QED  BY <1>1, <1>8, <2>2 DEF GovInv, GovAccounts, GovTypeOK
<1> QED  BY <1>1, <1>8, <1>9, <1>10, <1>11 DEF GovInv, GovAccounts

\* The instructions that write no position: the sums stay.
LEMMA GovSetUpKeeps ==
  ASSUME GovInv, UNCHANGED <<govPositions, govVault, govSlashes>>,
         govConfig' # None => /\ govConfig' \in GovConfigType
                              /\ govConfig'.epochLen > 0
                              /\ govConfig'.maxSlashBps <= BpsDenom,
         govConfig # None => govConfig' # None,
         DOMAIN govVerifiers' \subseteq Keys, govSnapshots' \subseteq Nat,
         \A v \in DOMAIN govVerifiers' : govVerifiers'[v] \in [active: BOOLEAN, jailedUntil: Nat]
  PROVE  GovAccounts'
<1>1. GovStakes' = GovStakes  BY DEF GovStakes
<1>2. GovSolvent'  BY <1>1 DEF GovInv, GovAccounts, GovSolvent
<1>3. GovTypeOK'  BY DEF GovInv, GovAccounts, GovTypeOK
<1>4. GovPartsOfStake'  BY DEF GovInv, GovAccounts, GovPartsOfStake
<1> QED  BY <1>2, <1>3, <1>4 DEF GovInv, GovAccounts

LEMMA GovInitConfigKeeps ==
  ASSUME GovInv, NEW k \in Keys, NEW c \in GovConfigs, GovInitConfig(k, c)
  PROVE  GovAccounts'
<1> DEFINE d == [c EXCEPT !.authority = k]
<1>1. /\ govConfig = None /\ c.epochLen > 0 /\ c.maxSlashBps <= BpsDenom
      /\ govConfig' = d
      /\ UNCHANGED <<govVerifiers, govPositions, govVault, govSnapshots, govSlashes>>
  BY DEF GovInitConfig
<1>2. c \in GovConfigType /\ None \notin GovConfigType  BY GovAssumption
<1>3. d \in GovConfigType /\ d.epochLen = c.epochLen /\ d.maxSlashBps = c.maxSlashBps
  BY <1>2 DEF GovConfigType
<1> HIDE DEF d
<1>4. /\ DOMAIN govVerifiers' \subseteq Keys /\ govSnapshots' \subseteq Nat
      /\ \A v \in DOMAIN govVerifiers' :
           govVerifiers'[v] \in [active: BOOLEAN, jailedUntil: Nat]
  BY <1>1 DEF GovInv, GovAccounts, GovTypeOK
<1> QED  BY <1>1, <1>3, <1>4, GovSetUpKeeps

LEMMA GovRegisterVerifierKeeps ==
  ASSUME GovInv, NEW k \in Keys, NEW v \in GovDelegates, GovRegisterVerifier(k, v)
  PROVE  GovAccounts'
<1>1. UNCHANGED <<govConfig, govPositions, govVault, govSlashes, govSnapshots>>
  BY DEF GovRegisterVerifier
<1>2. /\ DOMAIN govVerifiers' \subseteq Keys
      /\ \A x \in DOMAIN govVerifiers' :
           govVerifiers'[x] \in [active: BOOLEAN, jailedUntil: Nat]
  <2>1. govVerifiers' = Created(govVerifiers, v, [active |-> TRUE, jailedUntil |-> 0])
    BY DEF GovRegisterVerifier
  <2>2. v \in Keys  BY GovAssumption
  <2> QED  BY <2>1, <2>2 DEF Created, GovInv, GovAccounts, GovTypeOK
<1> QED  BY <1>1, <1>2, GovSetUpKeeps DEF GovInv, GovAccounts, GovTypeOK

LEMMA GovSetVerifierActiveKeeps ==
  ASSUME GovInv, NEW k \in Keys, NEW v \in GovDelegates, NEW b \in GovFlags,
         GovSetVerifierActive(k, v, b)
  PROVE  GovAccounts'
<1>1. UNCHANGED <<govConfig, govPositions, govVault, govSlashes, govSnapshots>>
  BY DEF GovSetVerifierActive
<1>2. /\ DOMAIN govVerifiers' \subseteq Keys
      /\ \A x \in DOMAIN govVerifiers' :
           govVerifiers'[x] \in [active: BOOLEAN, jailedUntil: Nat]
  <2>1. govVerifiers' = [govVerifiers EXCEPT ![v].active = b]
    BY DEF GovSetVerifierActive
  <2>2. b \in BOOLEAN  BY GovAssumption
  <2> QED  BY <2>1, <2>2 DEF GovInv, GovAccounts, GovTypeOK
<1> QED  BY <1>1, <1>2, GovSetUpKeeps DEF GovInv, GovAccounts, GovTypeOK

LEMMA GovSubmitSnapshotKeeps ==
  ASSUME GovInv, NEW k \in Keys, NEW e \in GovEpochs, GovSubmitSnapshot(k, e)
  PROVE  GovAccounts'
<1>1. UNCHANGED <<govConfig, govPositions, govVault, govSlashes, govVerifiers>>
  BY DEF GovSubmitSnapshot
<1>2. govSnapshots' \subseteq Nat
  BY GovAssumption DEF GovSubmitSnapshot, GovInv, GovAccounts, GovTypeOK
<1> QED  BY <1>1, <1>2, GovSetUpKeeps DEF GovInv, GovAccounts, GovTypeOK

\* The commands are the instructions, sent by the wallet that runs them.
GovInstruction ==
  \/ \E k \in Keys, c \in GovConfigs : GovInitConfig(k, c)
  \/ \E k \in Keys, v \in GovDelegates : GovRegisterVerifier(k, v)
  \/ \E k \in Keys, v \in GovDelegates, b \in GovFlags : GovSetVerifierActive(k, v, b)
  \/ \E s \in Keys : GovInitStakePosition(s)
  \/ \E s \in Keys, a \in GovAmounts : GovStake(s, a)
  \/ \E s \in Keys, a \in GovAmounts, n \in GovLockEpochs : GovLock(s, a, n)
  \/ \E s \in Keys : GovUnlockExpired(s)
  \/ \E s \in Keys, a \in GovAmounts : GovRequestExit(s, a)
  \/ \E s \in Keys : GovFinalizeWithdraw(s)
  \/ \E s \in Keys, d \in GovDelegates \cup {None} : GovSetDelegate(s, d)
  \/ \E s \in Keys, b \in GovFlags : GovSetDelegationSlashable(s, b)
  \/ \E k \in Keys, e \in GovEpochs : GovSubmitSnapshot(k, e)
  \/ \E k, o \in Keys, e \in GovEpochs, b \in GovSlashBps, r \in GovReasons :
       GovApplySlash(k, o, e, b, r)

LEMMA GovCommands ==
  ASSUME GovNext PROVE GovInstruction
<1>1. GovCli => GovInstruction
  BY Zenon DEF GovCli, GovInstruction, CliGovInitConfig, CliGovRegisterVerifier,
     CliGovSetVerifierActive, CliGovInitPosition, CliGovStake, CliGovLock,
     CliGovUnlockExpired, CliGovRequestExit, CliGovFinalizeWithdraw, CliGovDelegate,
     CliGovSetDelegationSlashable, CliGovSnapshot, CliGovSlash
<1> QED  BY <1>1, Zenon DEF GovNext, GovInstruction

LEMMA GovStep ==
  ASSUME GovInv, [GovNext]_govVars PROVE GovAccounts'
<1>1. CASE UNCHANGED govVars
  <2>1. /\ UNCHANGED <<govPositions, govVault, govSlashes, govConfig, govVerifiers>>
        /\ govSnapshots' = govSnapshots
    BY <1>1 DEF govVars
  <2> QED  BY <2>1, GovSetUpKeeps DEF GovInv, GovAccounts, GovTypeOK
<1>2. CASE GovNext
  <2>1. GovInstruction  BY <1>2, GovCommands
  <2> QED  BY <2>1, Zenon, GovInitConfigKeeps, GovRegisterVerifierKeeps,
              GovSetVerifierActiveKeeps, GovInitPositionKeeps, GovStakeKeeps, GovLockKeeps,
              GovUnlockKeeps, GovRequestExitKeeps, GovFinalizeWithdrawKeeps,
              GovSetDelegateKeeps, GovSetSlashableKeeps, GovSubmitSnapshotKeeps,
              GovApplySlashKeeps DEF GovInstruction
<1> QED  BY <1>1, <1>2

LEMMA GovStart ==
  ASSUME GovInit PROVE GovAccounts
<1>1. /\ govConfig = None /\ govVault = 0 /\ govSnapshots = {}
      /\ DOMAIN govPositions = {} /\ DOMAIN govSlashes = {} /\ DOMAIN govVerifiers = {}
  BY DEF GovInit, NoAccounts
<1>2. SumFunction(govSlashes) = 0 /\ SumFunction(GovStakes) = 0
  <2>1. DOMAIN GovStakes = {}  BY <1>1 DEF GovStakes
  <2> QED  BY <1>1, <2>1, SumNone
<1>3. IsFiniteSet({})  BY FS_EmptySet
<1> QED  BY <1>1, <1>2, <1>3 DEF GovAccounts, GovTypeOK, GovPartsOfStake, GovSolvent

-----------------------------------------------------------------------------
(***************************************************************************)
(* The stake program.                                                      *)
(***************************************************************************)

\* What the owners could still claim, in epochs times lamports.
StakeOwed ==
  [s \in DOMAIN stakePositions |->
     stakePositions[s].staked * (StakeEpoch - stakePositions[s].lastClaimed)]

\* What was minted and what is still owed are within the rate, as long as no
\* stake moves while rewards are owed: then the shares of past epochs are those
\* of the present.
StakeEmission ==
  stakeConfig # None /\ ~stakeChurned =>
    /\ stakeMinted * stakeConfig.total + stakeConfig.rate * SumFunction(StakeOwed)
         <= stakeConfig.rate * StakeEpoch * stakeConfig.total
    /\ stakeMinted <= stakeConfig.rate * StakeEpoch

\* Before the configuration there is nothing; nobody claimed ahead of the clock.
StakeBooks ==
  /\ IF stakeConfig = None
     THEN DOMAIN stakePositions = {} /\ stakeVault = 0 /\ stakeMinted = 0
     ELSE /\ stakeConfig \in StakeConfigType /\ stakeConfig.epochLen > 0
          /\ \A s \in DOMAIN stakePositions : stakePositions[s].lastClaimed <= StakeEpoch
  /\ IsFiniteSet(DOMAIN stakePositions)
  /\ stakeChurned \in BOOLEAN
  /\ StakeTypeOK /\ StakeBacked

StakeInv == slot \in Nat /\ StakeBooks /\ StakeEmission

LEMMA StakeEpochNat ==
  ASSUME StakeInv, stakeConfig # None
  PROVE  /\ StakeEpoch \in Nat /\ stakeConfig \in StakeConfigType
         /\ stakeConfig.epochLen \in Nat /\ stakeConfig.epochLen > 0
         /\ stakeConfig.rate \in Nat /\ stakeConfig.minLock \in Nat
         /\ stakeConfig.total \in Nat /\ stakeVault = stakeConfig.total
         /\ stakeConfig.total = SumFunction(StakeStakes) /\ stakeMinted \in Nat
<1>1. /\ slot \in Nat /\ stakeConfig \in StakeConfigType /\ stakeConfig.epochLen > 0
  BY DEF StakeInv, StakeBooks
<1>2. /\ stakeConfig.epochLen \in Nat /\ stakeConfig.rate \in Nat
      /\ stakeConfig.minLock \in Nat /\ stakeConfig.total \in Nat
  BY <1>1 DEF StakeConfigType
<1>3. StakeEpoch \in Nat  BY <1>1, <1>2 DEF StakeEpoch, EpochOf
<1> QED  BY <1>1, <1>2, <1>3 DEF StakeInv, StakeBooks, StakeTypeOK, StakeBacked

LEMMA StakePositionIs ==
  ASSUME StakeInv, NEW s \in DOMAIN stakePositions
  PROVE  /\ stakePositions[s] \in StakePosition
         /\ stakePositions[s].staked \in Nat /\ stakePositions[s].lastClaimed \in Nat
         /\ stakePositions[s].lastClaimed <= StakeEpoch
         /\ s \in Keys /\ stakeConfig # None
BY DEF StakeInv, StakeBooks, StakeTypeOK, StakePosition

\* A position is written and the total and the vault follow its stake.
LEMMA StakeMoves ==
  ASSUME StakeInv, UNCHANGED slot, stakeConfig # None, NEW s \in Keys,
         NEW p \in StakePosition, NEW total \in Nat,
         StakeMoved(s, p, total), p.lastClaimed <= StakeEpoch,
         total = stakeConfig.total + p.staked
                   - (IF s \in DOMAIN stakePositions THEN stakePositions[s].staked ELSE 0),
         ~StakeOwes => p.staked = 0 \/ p.lastClaimed = StakeEpoch
  PROVE  StakeInv'
<1>1. /\ StakeEpoch \in Nat /\ stakeConfig \in StakeConfigType
      /\ stakeConfig.epochLen \in Nat /\ stakeConfig.epochLen > 0
      /\ stakeConfig.rate \in Nat /\ stakeConfig.minLock \in Nat
      /\ stakeConfig.total \in Nat /\ stakeVault = stakeConfig.total
      /\ stakeConfig.total = SumFunction(StakeStakes) /\ stakeMinted \in Nat
  BY StakeEpochNat
<1>2. /\ stakeConfig' = [stakeConfig EXCEPT !.total = total]
      /\ stakeVault' = stakeVault + total - stakeConfig.total
      /\ stakeChurned' = (stakeChurned \/ StakeOwes) /\ stakeMinted' = stakeMinted
      /\ DOMAIN stakePositions' = DOMAIN stakePositions \cup {s}
      /\ stakePositions'[s] = p
      /\ \A x \in DOMAIN stakePositions \ {s} : stakePositions'[x] = stakePositions[x]
  BY DEF StakeMoved, Created
<1>3. /\ stakeConfig' \in StakeConfigType /\ stakeConfig'.total = total
      /\ stakeConfig'.epochLen = stakeConfig.epochLen
      /\ stakeConfig'.rate = stakeConfig.rate
  BY <1>1, <1>2 DEF StakeConfigType
<1>4. stakeConfig' # None  BY <1>3, StakeAssumption
<1>5. StakeEpoch' = StakeEpoch  BY <1>3 DEF StakeEpoch, EpochOf
<1>6. stakeVault' = total  BY <1>1, <1>2
<1>7. /\ DOMAIN stakePositions' \subseteq Keys
      /\ IsFiniteSet(DOMAIN stakePositions) /\ IsFiniteSet(DOMAIN stakePositions')
      /\ \A x \in DOMAIN stakePositions' : stakePositions'[x] \in StakePosition
      /\ \A x \in DOMAIN stakePositions' : stakePositions'[x].lastClaimed <= StakeEpoch'
  <2>1. IsFiniteSet(DOMAIN stakePositions) /\ DOMAIN stakePositions \subseteq Keys
    BY DEF StakeInv, StakeBooks, StakeTypeOK
  <2>2. IsFiniteSet(DOMAIN stakePositions')  BY <1>2, <2>1, FS_AddElement
  <2> QED  BY <1>2, <1>5, <2>1, <2>2, StakePositionIs
<1>8. total = SumFunction(StakeStakes')
  <2>1. /\ DOMAIN StakeStakes = DOMAIN stakePositions
        /\ DOMAIN StakeStakes' = DOMAIN stakePositions'
        /\ \A x \in DOMAIN stakePositions : StakeStakes[x] = stakePositions[x].staked
        /\ \A x \in DOMAIN stakePositions' : StakeStakes'[x] = stakePositions'[x].staked
    BY DEF StakeStakes
  <2>2. /\ \A x \in DOMAIN StakeStakes : StakeStakes[x] \in Int
        /\ StakeStakes'[s] = p.staked /\ p.staked \in Int /\ StakeStakes'[s] \in Int
        /\ \A x \in DOMAIN StakeStakes \ {s} : StakeStakes'[x] = StakeStakes[x]
        /\ DOMAIN StakeStakes' = DOMAIN StakeStakes \cup {s}
    BY <1>2, <2>1, StakePositionIs DEF StakePosition
  <2>3. SumFunction(StakeStakes') = SumFunction(StakeStakes) + StakeStakes'[s]
           - (IF s \in DOMAIN StakeStakes THEN StakeStakes[s] ELSE 0)
    BY <1>7, <2>1, <2>2, SumWrites
  <2> QED  BY <1>1, <2>1, <2>2, <2>3
<1>9. StakeEmission'
  <2> SUFFICES ASSUME ~stakeChurned'
               PROVE  /\ stakeMinted' * total + stakeConfig'.rate * SumFunction(StakeOwed')
                           <= stakeConfig'.rate * StakeEpoch' * total
                      /\ stakeMinted' <= stakeConfig'.rate * StakeEpoch'
    BY <1>3 DEF StakeEmission
  <2>1. ~stakeChurned /\ ~StakeOwes  
    BY <1>2
  <2>2. \A x \in DOMAIN stakePositions' :
          \/ stakePositions'[x].staked = 0
          \/ stakePositions'[x].lastClaimed = StakeEpoch
    <3>1. \A x \in DOMAIN stakePositions :
            stakePositions[x].staked = 0 \/ stakePositions[x].lastClaimed = StakeEpoch
      BY <1>1, <2>1, StakePositionIs DEF StakeOwes
    <3> QED  BY <1>2, <2>1, <3>1
  <2>3. /\ DOMAIN StakeOwed' = DOMAIN stakePositions'
        /\ \A x \in DOMAIN StakeOwed' : StakeOwed'[x] = 0
    <3>1. ASSUME NEW x \in DOMAIN stakePositions'
          PROVE  stakePositions'[x].staked * (StakeEpoch' - stakePositions'[x].lastClaimed) = 0
      <4>1. stakePositions'[x].staked \in Nat /\ stakePositions'[x].lastClaimed \in Nat
        BY <1>7 DEF StakePosition
      <4> QED  BY <1>1, <1>5, <2>2, <4>1
    <3> QED  BY <3>1 DEF StakeOwed
  <2>4. SumFunction(StakeOwed') = 0
    BY <1>7, <2>3, SumZero
  <2>5. stakeMinted <= stakeConfig.rate * StakeEpoch
    BY <2>1 DEF StakeInv, StakeEmission
  <2> DEFINE bound == stakeConfig.rate * StakeEpoch
  <2>6. bound \in Nat /\ stakeMinted <= bound  BY <1>1, <2>5
  <2>7. stakeMinted * total <= bound * total
    <3> HIDE DEF bound
    <3> QED  BY <1>1, <2>6
  <2>8. stakeConfig'.rate * SumFunction(StakeOwed') = 0  BY <1>1, <1>3, <2>4
  <2>9. stakeConfig'.rate * StakeEpoch' = bound  BY <1>3, <1>5
  <2>10. stakeMinted * total \in Int  BY <1>1
  <2> HIDE DEF bound
  <2> QED  BY <1>2, <2>6, <2>7, <2>8, <2>9, <2>10
<1>10. StakeTypeOK'
  BY <1>1, <1>2, <1>6, <1>7 DEF StakeTypeOK
<1>11. StakeBacked'
  BY <1>3, <1>6, <1>8 DEF StakeBacked
<1>12. stakeChurned' \in BOOLEAN
  BY <1>2 DEF StakeInv, StakeBooks, StakeOwes
<1> QED
  BY <1>1, <1>3, <1>4, <1>7, <1>9, <1>10, <1>11, <1>12 DEF StakeInv, StakeBooks

LEMMA StakeStakeKeeps ==
  ASSUME StakeInv, UNCHANGED slot, NEW s \in Keys, NEW amount \in StakeAmounts,
         StakeStake(s, amount)
  PROVE  StakeInv'
<1> DEFINE found == StakePositionOf(s)
           p == IF found.staked > 0 THEN found
                ELSE [found EXCEPT !.lastClaimed = StakeEpoch, !.delegate = None]
           lock == Greater(p.lockedUntil, StakeEpoch + stakeConfig.minLock)
           q == [p EXCEPT !.staked = p.staked + amount, !.lockedUntil = lock]
           total == stakeConfig.total + amount
<1>1. /\ stakeConfig # None /\ amount \in Nat /\ amount > 0
      /\ StakeMoved(s, q, total)
  BY StakeAssumption DEF StakeStake
<1>2. /\ StakeEpoch \in Nat /\ stakeConfig.minLock \in Nat /\ stakeConfig.total \in Nat
  BY <1>1, StakeEpochNat
<1>3. /\ found \in StakePosition /\ found.lastClaimed <= StakeEpoch
      /\ found.staked = IF s \in DOMAIN stakePositions THEN stakePositions[s].staked ELSE 0
      /\ found.staked \in Nat
      /\ s \in DOMAIN stakePositions => found = stakePositions[s]
      /\ s \notin DOMAIN stakePositions => found.staked = 0
  <2>1. CASE s \in DOMAIN stakePositions
    BY <2>1, StakePositionIs DEF StakePositionOf, Exists
  <2>2. CASE s \notin DOMAIN stakePositions
    <3>1. found = [staked |-> 0, lastClaimed |-> 0, lockedUntil |-> 0, delegate |-> None]
      BY <2>2 DEF StakePositionOf, Exists
    <3> HIDE DEF found
    <3> QED  BY <1>2, <2>2, <3>1 DEF StakePosition
  <2> QED  BY <2>1, <2>2
<1> HIDE DEF found
<1>4. /\ p \in StakePosition /\ p.staked = found.staked /\ p.lastClaimed <= StakeEpoch
      /\ found.staked = 0 => p.lastClaimed = StakeEpoch
      /\ found.staked > 0 => p = found
  <2>1. CASE found.staked > 0  BY <1>3, <2>1
  <2>2. CASE ~(found.staked > 0)
    <3>1. PICK r : r = [found EXCEPT !.lastClaimed = StakeEpoch, !.delegate = None]
      OBVIOUS
    <3>2. p = r  BY <2>2, <3>1
    <3>3. r \in StakePosition /\ r.staked = found.staked /\ r.lastClaimed = StakeEpoch
      BY <1>2, <1>3, <3>1 DEF StakePosition
    <3> HIDE DEF p
    <3> QED  BY <1>2, <2>2, <3>2, <3>3
  <2> QED  BY <2>1, <2>2
<1> HIDE DEF p
<1>5. lock \in Nat
  BY <1>2, <1>4 DEF Greater, StakePosition
<1> HIDE DEF lock
<1>6. q \in StakePosition /\ q.staked = p.staked + amount /\ q.lastClaimed = p.lastClaimed
  <2>1. PICK r : r = [p EXCEPT !.staked = p.staked + amount, !.lockedUntil = lock]  OBVIOUS
  <2> DEFINE a == p.staked + amount
  <2>2. r \in StakePosition /\ r.staked = a /\ r.lastClaimed = p.lastClaimed
    <3>1. a \in Nat  BY <1>1, <1>3, <1>4
    <3> HIDE DEF a
    <3>2. r = [p EXCEPT !.staked = a, !.lockedUntil = lock]  BY <2>1 DEF a
    <3> QED  BY <1>4, <1>5, <3>1, <3>2 DEF StakePosition
  <2>3. q = r  BY <2>1
  <2> HIDE DEF q
  <2> QED  BY <2>2, <2>3
<1>7. total \in Nat  BY <1>1, <1>2
<1>8. total = stakeConfig.total + q.staked
                - (IF s \in DOMAIN stakePositions THEN stakePositions[s].staked ELSE 0)
  <2> HIDE DEF q
  <2> QED  BY <1>1, <1>2, <1>3, <1>4, <1>6
<1>9. ASSUME ~StakeOwes PROVE q.lastClaimed = StakeEpoch
  <2>1. CASE found.staked > 0
    <3>1. s \in DOMAIN stakePositions  BY <1>3, <2>1
    <3>2. /\ found = stakePositions[s] /\ stakePositions[s].lastClaimed \in Nat
          /\ stakePositions[s].lastClaimed <= StakeEpoch
      BY <1>3, <3>1, StakePositionIs
    <3>3. ~(stakePositions[s].lastClaimed < StakeEpoch)
      BY <1>9, <2>1, <3>1, <3>2 DEF StakeOwes
    <3>4. found.lastClaimed = StakeEpoch  BY <1>2, <3>2, <3>3
    <3> HIDE DEF q
    <3> QED  BY <1>4, <1>6, <2>1, <3>4
  <2>2. CASE ~(found.staked > 0)
    <3> HIDE DEF q
    <3> QED  BY <1>3, <1>4, <1>6, <2>2
  <2> QED  BY <2>1, <2>2
<1> HIDE DEF q, total
<1> QED  BY <1>1, <1>4, <1>6, <1>7, <1>8, <1>9, StakeMoves DEF total

LEMMA StakeUnstakeKeeps ==
  ASSUME StakeInv, UNCHANGED slot, NEW s \in Keys, NEW amount \in StakeAmounts,
         StakeUnstake(s, amount)
  PROVE  StakeInv'
<1> DEFINE p == stakePositions[s]
           q == [p EXCEPT !.staked = p.staked - amount]
           total == stakeConfig.total - amount
<1>1. /\ s \in DOMAIN stakePositions /\ amount \in Nat /\ amount > 0
      /\ p.staked >= amount /\ stakeConfig.total >= amount
      /\ StakeMoved(s, q, total)
  BY StakeAssumption DEF StakeUnstake, StakeOwnerSigns, Exists
<1>2. /\ p \in StakePosition /\ p.staked \in Nat /\ p.lastClaimed \in Nat
      /\ p.lastClaimed <= StakeEpoch /\ stakeConfig # None
  BY <1>1, StakePositionIs
<1>3. StakeEpoch \in Nat /\ stakeConfig.total \in Nat
  BY <1>2, StakeEpochNat
<1>4. ASSUME ~StakeOwes PROVE p.lastClaimed = StakeEpoch
  <2>1. ~(p.lastClaimed < StakeEpoch)
    BY <1>1, <1>2, <1>4 DEF StakeOwes
  <2> HIDE DEF p
  <2> QED  BY <1>2, <1>3, <2>1
<1> HIDE DEF p
<1>5. q \in StakePosition /\ q.staked = p.staked - amount /\ q.lastClaimed = p.lastClaimed
  BY <1>1, <1>2 DEF StakePosition
<1> HIDE DEF q
<1>6. total \in Nat  BY <1>1, <1>3
<1>7. total = stakeConfig.total + q.staked
                - (IF s \in DOMAIN stakePositions THEN stakePositions[s].staked ELSE 0)
  BY <1>1, <1>2, <1>3, <1>5 DEF p
<1> HIDE DEF total
<1> QED  BY <1>1, <1>2, <1>4, <1>5, <1>6, <1>7, StakeMoves

LEMMA StakeInitConfigKeeps ==
  ASSUME StakeInv, UNCHANGED slot, NEW k \in Keys, NEW c \in StakeConfigs,
         StakeInitConfig(k, c)
  PROVE  StakeInv'
<1>1. /\ stakeConfig = None /\ c.epochLen > 0
      /\ stakeConfig' = [authority |-> k, epochLen |-> c.epochLen, rate |-> c.rate,
                         minLock |-> c.minLock, total |-> 0]
      /\ UNCHANGED <<stakePositions, stakeVault, stakeMinted, stakeChurned>>
  BY DEF StakeInitConfig
<1>2. c.epochLen \in Nat /\ c.rate \in Nat /\ c.minLock \in Nat
  BY StakeAssumption
<1>3. /\ stakeConfig' \in StakeConfigType /\ stakeConfig'.epochLen > 0
      /\ stakeConfig'.total = 0 /\ stakeConfig'.rate = c.rate
  BY <1>1, <1>2 DEF StakeConfigType
<1>4. stakeConfig' # None  BY <1>3, StakeAssumption
<1>5. DOMAIN stakePositions = {} /\ stakeVault = 0 /\ stakeMinted = 0
  BY <1>1 DEF StakeInv, StakeBooks
<1>6. DOMAIN StakeStakes' = {} /\ DOMAIN StakeOwed' = {}
  BY <1>1, <1>5 DEF StakeStakes, StakeOwed
<1>7. SumFunction(StakeStakes') = 0 /\ SumFunction(StakeOwed') = 0
  BY <1>6, SumNone
<1>8. StakeEpoch' \in Nat
  <2>1. slot' \in Nat /\ stakeConfig'.epochLen \in Nat
    BY <1>3 DEF StakeInv, StakeConfigType
  <2> QED  BY <1>3, <2>1 DEF StakeEpoch, EpochOf
<1>9. StakeEmission'
  <2>1. stakeConfig'.rate * StakeEpoch' \in Nat  BY <1>2, <1>3, <1>8
  <2>2. stakeMinted' * stakeConfig'.total = 0 /\ stakeMinted' = 0  BY <1>1, <1>3, <1>5
  <2>3. stakeConfig'.rate * SumFunction(StakeOwed') = 0  BY <1>2, <1>3, <1>7
  <2>4. stakeConfig'.rate * StakeEpoch' * stakeConfig'.total = 0  BY <1>3, <2>1
  <2> QED  BY <2>1, <2>2, <2>3, <2>4 DEF StakeEmission
<1>10. StakeTypeOK'
  BY <1>1 DEF StakeInv, StakeBooks, StakeTypeOK
<1>11. StakeBacked'
  BY <1>1, <1>3, <1>5, <1>7 DEF StakeBacked
<1> QED  BY <1>1, <1>3, <1>4, <1>5, <1>9, <1>10, <1>11 DEF StakeInv, StakeBooks

\* What a claim mints, times the total, is at most what the position was owed.
LEMMA StakeReward ==
  ASSUME NEW rate \in Nat, NEW epochs \in Nat, NEW staked \in Nat, NEW total \in Nat,
         total > 0
  PROVE  /\ (rate * epochs * staked) \div total \in Nat
         /\ ((rate * epochs * staked) \div total) * total <= rate * (staked * epochs)
<1> DEFINE x == rate * epochs * staked
           r == x \div total
<1>1. rate * epochs \in Nat  OBVIOUS
<1>2. x \in Nat /\ x = rate * (staked * epochs)  BY <1>1
<1>3. r \in Nat /\ total * r <= x
  <2> HIDE DEF x
  <2> QED  BY <1>2
<1>4. r * total = total * r
  <2> HIDE DEF r
  <2> QED  BY <1>3
<1> HIDE DEF x, r
<1>5. r \in Nat /\ r * total <= rate * (staked * epochs)
  BY <1>2, <1>3, <1>4
<1> QED  BY <1>5 DEF r, x

\* The arithmetic of one claim: minted and owed are m and o, the position is
\* owed d epochs times lamports, and r is minted for it.
LEMMA ClaimBounded ==
  ASSUME NEW m \in Nat, NEW o \in Nat, NEW d \in Nat, NEW r \in Nat, NEW rate \in Nat,
         NEW total \in Nat, NEW bound \in Nat, total > 0, d <= o,
         r * total <= rate * d, m * total + rate * o <= bound * total
  PROVE  /\ (m + r) * total + rate * (o - d) <= bound * total
         /\ m + r <= bound
<1>1. (m + r) * total = m * total + r * total  OBVIOUS
<1>2. rate * (o - d) = rate * o - rate * d  OBVIOUS
<1>3. /\ m * total \in Nat /\ r * total \in Nat /\ rate * o \in Nat /\ rate * d \in Nat
      /\ bound * total \in Nat
  OBVIOUS
<1>4. (m + r) * total + rate * (o - d) <= bound * total
  BY <1>1, <1>2, <1>3
<1>5. rate * (o - d) \in Nat
  <2>1. o - d \in Nat  OBVIOUS
  <2> QED  BY <2>1
<1>6. (m + r) * total <= bound * total
  BY <1>1, <1>3, <1>4, <1>5
<1>7. m + r <= bound
  <2> SUFFICES ASSUME m + r >= bound + 1 PROVE FALSE  OBVIOUS
  <2>1. (m + r) * total >= (bound + 1) * total
    <3> DEFINE n == m + r
    <3>1. n \in Nat /\ n >= bound + 1  OBVIOUS
    <3> HIDE DEF n
    <3>2. n * total >= (bound + 1) * total  BY <3>1
    <3> QED  BY <3>2 DEF n
  <2>2. (bound + 1) * total = bound * total + total  OBVIOUS
  <2> QED  BY <1>1, <1>3, <1>6, <2>1, <2>2
<1> QED  BY <1>4, <1>7

LEMMA StakeOwedIs ==
  ASSUME StakeInv, stakeConfig # None
  PROVE  /\ DOMAIN StakeOwed = DOMAIN stakePositions /\ IsFiniteSet(DOMAIN StakeOwed)
         /\ \A x \in DOMAIN StakeOwed :
              /\ StakeOwed[x] \in Nat
              /\ StakeOwed[x]
                   = stakePositions[x].staked * (StakeEpoch - stakePositions[x].lastClaimed)
         /\ SumFunction(StakeOwed) \in Nat
         /\ \A x \in DOMAIN StakeOwed : StakeOwed[x] <= SumFunction(StakeOwed)
<1>1. /\ DOMAIN StakeOwed = DOMAIN stakePositions
      /\ \A x \in DOMAIN StakeOwed :
           StakeOwed[x] = stakePositions[x].staked * (StakeEpoch - stakePositions[x].lastClaimed)
  BY DEF StakeOwed
<1>2. ASSUME NEW x \in DOMAIN stakePositions
      PROVE  stakePositions[x].staked * (StakeEpoch - stakePositions[x].lastClaimed) \in Nat
  <2> DEFINE a == stakePositions[x].staked
             b == stakePositions[x].lastClaimed
  <2>1. a \in Nat /\ b \in Nat /\ b <= StakeEpoch /\ StakeEpoch \in Nat
    BY StakePositionIs, StakeEpochNat
  <2> HIDE DEF a, b
  <2>2. StakeEpoch - b \in Nat  BY <2>1
  <2>3. a * (StakeEpoch - b) \in Nat  BY <2>1, <2>2
  <2> QED  BY <2>3 DEF a, b
<1>3. IsFiniteSet(DOMAIN StakeOwed)  BY <1>1 DEF StakeInv, StakeBooks
<1>4. \A x \in DOMAIN StakeOwed : StakeOwed[x] \in Nat  BY <1>1, <1>2
<1> QED  BY <1>1, <1>3, <1>4, SumNat, SumAtMost, SumAll

LEMMA StakeClaimKeeps ==
  ASSUME StakeInv, UNCHANGED slot, NEW s \in Keys, StakeClaimRewards(s)
  PROVE  StakeInv'
<1> DEFINE p == stakePositions[s]
           epochs == StakeEpoch - p.lastClaimed
           reward == (stakeConfig.rate * epochs * p.staked) \div stakeConfig.total
<1>1. /\ s \in DOMAIN stakePositions /\ stakeConfig.total > 0 /\ epochs > 0
      /\ stakeMinted' = stakeMinted + reward
      /\ stakePositions' = [stakePositions EXCEPT ![s].lastClaimed = StakeEpoch]
      /\ UNCHANGED <<stakeConfig, stakeVault, stakeChurned>>
  BY DEF StakeClaimRewards, StakeOwnerSigns, Exists
<1>2. /\ p \in StakePosition /\ p.staked \in Nat /\ p.lastClaimed \in Nat
      /\ p.lastClaimed <= StakeEpoch /\ stakeConfig # None
  BY <1>1, StakePositionIs
<1>3. /\ StakeEpoch \in Nat /\ stakeConfig.total \in Nat /\ stakeConfig.rate \in Nat
      /\ stakeMinted \in Nat
  BY <1>2, StakeEpochNat
<1>4. epochs \in Nat  BY <1>2, <1>3
<1> DEFINE d == p.staked * epochs
<1>5. reward \in Nat /\ reward * stakeConfig.total <= stakeConfig.rate * d
  <2> HIDE DEF p, epochs
  <2> QED  BY <1>1, <1>2, <1>3, <1>4, StakeReward, Zenon
<1>6. StakeEpoch' = StakeEpoch  BY <1>1 DEF StakeEpoch, EpochOf
<1>7. /\ DOMAIN stakePositions' = DOMAIN stakePositions
      /\ \A x \in DOMAIN stakePositions' :
           /\ stakePositions'[x] \in StakePosition
           /\ stakePositions'[x].staked = stakePositions[x].staked
           /\ stakePositions'[x].lastClaimed
                = IF x = s THEN StakeEpoch ELSE stakePositions[x].lastClaimed
  BY <1>1, <1>3, StakePositionIs DEF StakePosition
<1>8. StakeStakes' = StakeStakes
  BY <1>7 DEF StakeStakes
<1>9. SumFunction(StakeOwed') = SumFunction(StakeOwed) - d
  <2>1. /\ DOMAIN StakeOwed' = DOMAIN stakePositions
        /\ \A x \in DOMAIN stakePositions : 
             StakeOwed'[x] = stakePositions'[x].staked * (StakeEpoch' - stakePositions'[x].lastClaimed)
    BY <1>7 DEF StakeOwed
  <2>2. \A x \in DOMAIN StakeOwed \ {s} : StakeOwed'[x] = StakeOwed[x]
    BY <1>2, <1>6, <1>7, <2>1, StakeOwedIs
  <2>3. StakeOwed'[s] = 0
    <3>1. StakeOwed'[s] = p.staked * (StakeEpoch - StakeEpoch)
      BY <1>1, <1>6, <1>7, <2>1
    <3> HIDE DEF p
    <3> QED  BY <1>2, <1>3, <3>1
  <2>4. StakeOwed[s] = d /\ s \in DOMAIN StakeOwed
    BY <1>1, <1>2, StakeOwedIs
  <2>5. /\ IsFiniteSet(DOMAIN StakeOwed) /\ DOMAIN StakeOwed = DOMAIN stakePositions
        /\ \A x \in DOMAIN StakeOwed : StakeOwed[x] \in Int
        /\ SumFunction(StakeOwed) \in Int
    BY <1>2, StakeOwedIs
  <2>6. DOMAIN StakeOwed' = DOMAIN StakeOwed \cup {s}  BY <2>1, <2>4, <2>5
  <2>7. SumFunction(StakeOwed') = SumFunction(StakeOwed) + StakeOwed'[s]
           - (IF s \in DOMAIN StakeOwed THEN StakeOwed[s] ELSE 0)
    <3>1. StakeOwed'[s] \in Int  BY <2>3
    <3>2. IsFiniteSet(DOMAIN StakeOwed)  BY <2>5
    <3>3. \A x \in DOMAIN StakeOwed : StakeOwed[x] \in Int  BY <2>5
    <3> HIDE DEF p, epochs, reward, d
    <3> QED  BY <2>2, <2>6, <3>1, <3>2, <3>3, SumWrites, SMTT(30)
  <2>8. d \in Int
    <3> HIDE DEF p, epochs
    <3> QED  BY <1>2, <1>4
  <2> HIDE DEF d
  <2> QED  BY <2>3, <2>4, <2>5, <2>7, <2>8
<1>10. /\ d \in Nat /\ SumFunction(StakeOwed) \in Nat /\ d <= SumFunction(StakeOwed)
  <2>1. StakeOwed[s] = d /\ s \in DOMAIN StakeOwed
    BY <1>1, <1>2, StakeOwedIs
  <2> HIDE DEF d
  <2> QED  BY <1>2, <2>1, StakeOwedIs
<1> HIDE DEF p, epochs, reward, d
<1>11. StakeEmission'
  <2> SUFFICES ASSUME ~stakeChurned
               PROVE  /\ stakeMinted' * stakeConfig.total
                            + stakeConfig.rate * SumFunction(StakeOwed')
                           <= stakeConfig.rate * StakeEpoch * stakeConfig.total
                      /\ stakeMinted' <= stakeConfig.rate * StakeEpoch
    BY <1>1, <1>6 DEF StakeEmission
  <2> DEFINE bound == stakeConfig.rate * StakeEpoch
  <2>1. stakeMinted * stakeConfig.total + stakeConfig.rate * SumFunction(StakeOwed)
          <= bound * stakeConfig.total
    BY <1>2 DEF StakeInv, StakeEmission
  <2>2. bound \in Nat  BY <1>3
  <2> HIDE DEF bound
  <2>3. /\ (stakeMinted + reward) * stakeConfig.total
               + stakeConfig.rate * (SumFunction(StakeOwed) - d) <= bound * stakeConfig.total
        /\ stakeMinted + reward <= bound
    BY <1>1, <1>3, <1>5, <1>10, <2>1, <2>2, ClaimBounded
  <2> QED  BY <1>1, <1>9, <2>3 DEF bound
<1>12. StakeTypeOK'
  BY <1>1, <1>3, <1>5, <1>7 DEF StakeInv, StakeBooks, StakeTypeOK
<1>13. StakeBacked'
  BY <1>1, <1>8 DEF StakeInv, StakeBooks, StakeBacked
<1>14. \A x \in DOMAIN stakePositions' : stakePositions'[x].lastClaimed <= StakeEpoch'
  BY <1>3, <1>6, <1>7, StakePositionIs
<1> QED  BY <1>1, <1>2, <1>7, <1>11, <1>12, <1>13, <1>14 DEF StakeInv, StakeBooks

\* A step that moves no stake and pays nothing.
LEMMA StakeFrame ==
  ASSUME StakeInv, UNCHANGED <<slot, stakeConfig, stakeVault, stakeMinted, stakeChurned>>,
         DOMAIN stakePositions' = DOMAIN stakePositions,
         \A x \in DOMAIN stakePositions :
           /\ stakePositions'[x] \in StakePosition
           /\ stakePositions'[x].staked = stakePositions[x].staked
           /\ stakePositions'[x].lastClaimed = stakePositions[x].lastClaimed
  PROVE  StakeInv'
<1>1. StakeEpoch' = StakeEpoch  BY DEF StakeEpoch, EpochOf
<1>2. StakeStakes' = StakeStakes  BY DEF StakeStakes
<1>3. StakeOwed' = StakeOwed  BY <1>1 DEF StakeOwed
<1>4. StakeEmission'  BY <1>1, <1>3 DEF StakeInv, StakeEmission
<1>5. StakeTypeOK'  BY DEF StakeInv, StakeBooks, StakeTypeOK
<1>6. StakeBacked'  BY <1>2 DEF StakeInv, StakeBooks, StakeBacked
<1> QED  BY <1>1, <1>4, <1>5, <1>6 DEF StakeInv, StakeBooks

LEMMA StakeDelegateKeeps ==
  ASSUME StakeInv, UNCHANGED slot, NEW s \in Keys, NEW v \in Keys, StakeDelegate(s, v)
  PROVE  StakeInv'
<1>1. /\ s \in DOMAIN stakePositions
      /\ stakePositions' = [stakePositions EXCEPT ![s].delegate = v]
      /\ UNCHANGED <<stakeConfig, stakeVault, stakeMinted, stakeChurned>>
  BY DEF StakeDelegate, StakeOwnerSigns, Exists
<1>2. DOMAIN stakePositions' = DOMAIN stakePositions  BY <1>1
<1>3. \A x \in DOMAIN stakePositions :
        /\ stakePositions'[x] \in StakePosition
        /\ stakePositions'[x].staked = stakePositions[x].staked
        /\ stakePositions'[x].lastClaimed = stakePositions[x].lastClaimed
  BY <1>1, StakePositionIs DEF StakePosition
<1> QED  BY <1>1, <1>2, <1>3, StakeFrame

\* The clock goes on: what is owed grows by the total for every epoch.
LEMMA StakeWaits ==
  ASSUME StakeInv, slot' \in Nat, slot <= slot', UNCHANGED stakeVars PROVE StakeInv'
<1>1. UNCHANGED <<stakeConfig, stakePositions, stakeVault, stakeMinted, stakeChurned>>
  BY DEF stakeVars
<1>2. CASE stakeConfig = None
  BY <1>1, <1>2 DEF StakeInv, StakeBooks, StakeTypeOK, StakeBacked, StakeEmission
<1>3. CASE stakeConfig # None
  <2>1. /\ StakeEpoch \in Nat /\ stakeConfig.total \in Nat /\ stakeConfig.rate \in Nat
        /\ stakeConfig.total = SumFunction(StakeStakes) /\ stakeMinted \in Nat
    BY <1>3, StakeEpochNat
  <2>2. StakeEpoch' \in Nat /\ StakeEpoch <= StakeEpoch'
    <3>1. slot \in Nat /\ stakeConfig.epochLen \in Nat /\ stakeConfig.epochLen > 0
      BY <1>3, StakeEpochNat DEF StakeInv
    <3> QED  BY <1>1, <3>1, EpochsGrow DEF StakeEpoch, EpochOf
  <2>3. StakeStakes' = StakeStakes  BY <1>1 DEF StakeStakes
  <2>4. PICK d \in Nat : StakeEpoch' = StakeEpoch + d
    <3>1. \A n \in Nat : StakeEpoch <= n => n = StakeEpoch + (n - StakeEpoch) /\ n - StakeEpoch \in Nat
      BY <2>1
    <3> QED  BY <2>2, <3>1
  <2>5. SumFunction(StakeOwed') = SumFunction(StakeOwed) + d * stakeConfig.total
    <3>1. /\ DOMAIN StakeOwed' = DOMAIN stakePositions
          /\ DOMAIN StakeStakes = DOMAIN stakePositions
          /\ \A x \in DOMAIN stakePositions :
               /\ StakeOwed'[x]
                    = stakePositions[x].staked * (StakeEpoch' - stakePositions[x].lastClaimed)
               /\ StakeStakes[x] = stakePositions[x].staked
      BY <1>1 DEF StakeOwed, StakeStakes
    <3>2. /\ DOMAIN StakeOwed = DOMAIN stakePositions /\ IsFiniteSet(DOMAIN StakeOwed)
          /\ \A x \in DOMAIN stakePositions : StakeOwed[x] \in Nat
          /\ \A x \in DOMAIN stakePositions :
               StakeOwed[x]
                 = stakePositions[x].staked * (StakeEpoch - stakePositions[x].lastClaimed)
      BY <1>3, StakeOwedIs
    <3>3. ASSUME NEW x \in DOMAIN stakePositions
          PROVE  /\ StakeOwed[x] \in Int /\ StakeStakes[x] \in Int
                 /\ StakeOwed'[x] = StakeOwed[x] + d * StakeStakes[x]
      <4> DEFINE a == stakePositions[x].staked
                 b == stakePositions[x].lastClaimed
      <4>1. a \in Nat /\ b \in Nat  BY StakePositionIs
      <4>2. /\ StakeOwed'[x] = a * (StakeEpoch' - b) /\ StakeOwed[x] = a * (StakeEpoch - b)
            /\ StakeStakes[x] = a /\ StakeOwed[x] \in Nat
        BY <3>1, <3>2
      <4> HIDE DEF a, b
      <4>3. a * (StakeEpoch' - b) = a * (StakeEpoch - b) + d * a
        BY <2>1, <2>4, <4>1
      <4> QED  BY <4>1, <4>2, <4>3
    <3>4. SumFunctionOnSet(StakeOwed', DOMAIN stakePositions)
            = SumFunctionOnSet(StakeOwed, DOMAIN stakePositions)
                + d * SumFunctionOnSet(StakeStakes, DOMAIN stakePositions)
      <4>1. d \in Int /\ IsFiniteSet(DOMAIN stakePositions)  BY <2>4, <3>2
      <4> QED  BY <3>3, <4>1, SumGrows
    <3>5. /\ SumFunction(StakeOwed') = SumFunctionOnSet(StakeOwed', DOMAIN stakePositions)
          /\ SumFunction(StakeOwed) = SumFunctionOnSet(StakeOwed, DOMAIN stakePositions)
          /\ SumFunction(StakeStakes) = SumFunctionOnSet(StakeStakes, DOMAIN stakePositions)
      <4>1. SumFunction(StakeOwed') = SumFunctionOnSet(StakeOwed', DOMAIN StakeOwed')
        BY SumAll
      <4>2. SumFunction(StakeOwed) = SumFunctionOnSet(StakeOwed, DOMAIN StakeOwed)
        BY SumAll
      <4>3. SumFunction(StakeStakes) = SumFunctionOnSet(StakeStakes, DOMAIN StakeStakes)
        BY SumAll
      <4> QED  BY <3>1, <3>2, <4>1, <4>2, <4>3
    <3> QED  BY <2>1, <3>4, <3>5
  <2>6. StakeEmission'
    <3> SUFFICES ASSUME ~stakeChurned
                 PROVE  /\ stakeMinted * stakeConfig.total + stakeConfig.rate * SumFunction(StakeOwed')
                             <= stakeConfig.rate * StakeEpoch' * stakeConfig.total
                        /\ stakeMinted <= stakeConfig.rate * StakeEpoch'
      BY <1>1 DEF StakeEmission
    <3> DEFINE m == stakeMinted
               r == stakeConfig.rate
               t == stakeConfig.total
               e == StakeEpoch
               o == SumFunction(StakeOwed)
    <3>1. /\ m * t + r * o <= r * e * t /\ m <= r * e
      BY <1>3 DEF StakeInv, StakeEmission
    <3>2. /\ m \in Nat /\ t \in Nat /\ r \in Nat /\ e \in Nat /\ o \in Nat
      BY <1>3, <2>1, StakeOwedIs
    <3>3. StakeEpoch' = e + d  BY <2>4
    <3>4. SumFunction(StakeOwed') = o + d * t  BY <2>5
    <3> HIDE DEF m, r, t, e, o
    <3>5. r * (o + d * t) = r * o + r * d * t  BY <2>4, <3>2
    <3>6. r * (e + d) = r * e + r * d  BY <2>4, <3>2
    <3>7. r * (e + d) * t = r * e * t + r * d * t  BY <2>4, <3>2, <3>6
    <3>8. r * d \in Nat /\ r * e \in Nat  BY <2>4, <3>2
    <3>9. r * d * t \in Nat /\ r * e * t \in Nat /\ m * t \in Nat /\ r * o \in Nat
      BY <3>2, <3>8
    <3>10. m * t + r * (o + d * t) <= r * (e + d) * t
      BY <3>1, <3>5, <3>7, <3>9
    <3>11. m <= r * (e + d)
      BY <3>1, <3>2, <3>6, <3>8
    <3> QED  BY <3>3, <3>4, <3>10, <3>11 DEF m, r, t
  <2>7. \A x \in DOMAIN stakePositions' : stakePositions'[x].lastClaimed <= StakeEpoch'
    BY <1>1, <2>1, <2>2, StakePositionIs
  <2>8. StakeTypeOK'  BY <1>1 DEF StakeInv, StakeBooks, StakeTypeOK
  <2>9. StakeBacked'  BY <1>1, <2>3 DEF StakeInv, StakeBooks, StakeBacked
  <2> QED  BY <1>1, <1>3, <2>6, <2>7, <2>8, <2>9 DEF StakeInv, StakeBooks
<1> QED  BY <1>2, <1>3

StakeInstruction ==
  \/ \E k \in Keys, c \in StakeConfigs : StakeInitConfig(k, c)
  \/ \E s \in Keys, a \in StakeAmounts : StakeStake(s, a)
  \/ \E s \in Keys, a \in StakeAmounts : StakeUnstake(s, a)
  \/ \E s \in Keys : StakeClaimRewards(s)
  \/ \E s, v \in Keys : StakeDelegate(s, v)

LEMMA StakeCommands ==
  ASSUME StakeNext PROVE StakeInstruction
<1>1. StakeCli => StakeInstruction
  BY Zenon DEF StakeCli, StakeInstruction, CliStakeInit, CliStakeStake, CliStakeUnstake,
     CliStakeDelegate, CliStakeClaim
<1> QED  BY <1>1, Zenon DEF StakeNext, StakeInstruction

LEMMA StakeStep ==
  ASSUME StakeInv, UNCHANGED slot, [StakeNext]_stakeVars PROVE StakeInv'
<1>1. CASE UNCHANGED stakeVars
  BY <1>1, StakeWaits DEF StakeInv
<1>2. CASE StakeNext
  <2>1. StakeInstruction  BY <1>2, StakeCommands
  <2> QED  BY <2>1, Zenon, StakeInitConfigKeeps, StakeStakeKeeps, StakeUnstakeKeeps,
              StakeClaimKeeps, StakeDelegateKeeps DEF StakeInstruction
<1> QED  BY <1>1, <1>2

LEMMA StakeStart ==
  ASSUME slot = 0, StakeInit PROVE StakeInv
<1>1. /\ stakeConfig = None /\ stakeVault = 0 /\ stakeMinted = 0 /\ stakeChurned = FALSE
      /\ DOMAIN stakePositions = {}
  BY DEF StakeInit, NoAccounts
<1>2. IsFiniteSet({})  BY FS_EmptySet
<1> QED  BY <1>1, <1>2 DEF StakeInv, StakeBooks, StakeTypeOK, StakeBacked, StakeEmission

-----------------------------------------------------------------------------
(***************************************************************************)
(* The rent bond.                                                          *)
(***************************************************************************)

\* After its set-up the reserve is there and covered.
RentUp ==
  /\ rentConfig \in [authority: Keys, target: Nat, programs: RentSizes]
  /\ rentConfig.target >= RentFloor
  /\ rentReserve \in [balance: Nat, recalcSlot: 0..MaxSlot]
  /\ rentReserve.balance <= rentLamports /\ rentReserve.balance >= RentExempt

RentInv ==
  /\ SlotType /\ RentTypeOK
  /\ rentConfig # None \/ rentReserve # None => RentUp

LEMMA RentInvCovers == ASSUME RentInv PROVE RentCovered
BY DEF RentInv, RentUp, RentCovered

\* What an instruction records is what the account then holds.
LEMMA RentRecords ==
  ASSUME RentInv, NEW l \in Nat, l >= RentExempt, RentRecord(l), UNCHANGED slot,
         rentConfig' \in [authority: Keys, target: Nat, programs: RentSizes],
         rentConfig'.target >= RentFloor
  PROVE  RentInv'
<1>1. rentLamports' = l /\ rentReserve' = [balance |-> l, recalcSlot |-> slot]
  BY DEF RentRecord
<1>2. slot \in 0..MaxSlot /\ SlotType'  BY DEF RentInv, SlotType
<1>3. /\ rentReserve' \in [balance: Nat, recalcSlot: 0..MaxSlot]
      /\ rentReserve'.balance = l
  BY <1>1, <1>2
<1>4. RentUp'  BY <1>1, <1>3 DEF RentUp
<1>5. RentTypeOK'  BY <1>1, <1>3 DEF RentTypeOK
<1> QED  BY <1>2, <1>4, <1>5 DEF RentInv

LEMMA RentStep ==
  ASSUME RentInv, UNCHANGED slot, [RentNext]_rentVars PROVE RentInv'
<1> USE RentAssumption
<1>1. rentLamports \in Nat /\ SlotType'  BY DEF RentInv, RentTypeOK, SlotType
<1>2. ASSUME rentConfig # None
      PROVE  /\ rentConfig \in [authority: Keys, target: Nat, programs: RentSizes]
             /\ rentConfig.target >= RentFloor
             /\ rentLamports >= RentExempt
  <2>1. RentUp  BY <1>2 DEF RentInv
  <2>2. rentReserve.balance \in Nat  BY <2>1 DEF RentUp
  <2> QED  BY <1>1, <2>1, <2>2 DEF RentUp
<1>3. ASSUME NEW k \in Keys, NEW x \in RentSizes, NEW p \in RentSizes, RentInitConfig(k, x, p)
      PROVE  RentInv'
  <2> DEFINE c == [authority |-> k, target |-> Greater(x, RentFloor), programs |-> p]
             l == Greater(rentLamports, RentExempt)
  <2>1. rentConfig' = c /\ RentRecord(l)  BY <1>3 DEF RentInitConfig
  <2>2. /\ Greater(x, RentFloor) \in Nat /\ Greater(x, RentFloor) >= RentFloor
        /\ l \in Nat /\ l >= RentExempt
    BY <1>1 DEF Greater
  <2>3. c \in [authority: Keys, target: Nat, programs: RentSizes] /\ c.target >= RentFloor
    BY <2>2
  <2> HIDE DEF c, l
  <2> QED  BY <2>1, <2>2, <2>3, RentRecords
<1>4. ASSUME NEW k \in Keys, NEW p \in RentSizes, RentSetTrackedPrograms(k, p)
      PROVE  RentInv'
  <2>1. /\ rentConfig # None /\ rentConfig' = [rentConfig EXCEPT !.programs = p]
        /\ UNCHANGED <<rentReserve, rentLamports>>
    BY <1>4 DEF RentSetTrackedPrograms, RentAuthoritySigns
  <2>2. /\ rentConfig' \in [authority: Keys, target: Nat, programs: RentSizes]
        /\ rentConfig'.target >= RentFloor
    BY <1>2, <2>1
  <2>3. RentUp'  BY <2>1, <2>2 DEF RentInv, RentUp
  <2> QED  BY <1>1, <2>1, <2>3 DEF RentInv, RentTypeOK
<1>5. ASSUME NEW k \in Keys, NEW l \in RentSizes, NEW x \in RentSizes, RentRecalcTargets(k, l, x)
      PROVE  RentInv'
  <2> DEFINE target == RentTarget(l, x)
  <2>1. /\ rentConfig # None /\ rentConfig' = [rentConfig EXCEPT !.target = target]
        /\ RentRecord(rentLamports)
    BY <1>5 DEF RentRecalcTargets, RentAuthoritySigns
  <2>2. target \in Nat /\ target >= RentFloor
    BY DEF RentTarget, Greater
  <2> HIDE DEF target
  <2>3. /\ rentConfig' \in [authority: Keys, target: Nat, programs: RentSizes]
        /\ rentConfig'.target >= RentFloor
    BY <1>2, <2>1, <2>2
  <2> QED  BY <1>1, <1>2, <2>1, <2>3, RentRecords
<1>6. ASSUME NEW k \in Keys, NEW a \in RentAmounts, RentDepositReserve(k, a)
      PROVE  RentInv'
  <2>1. /\ rentConfig # None /\ rentConfig' = rentConfig /\ RentRecord(rentLamports + a)
    BY <1>6 DEF RentDepositReserve, RentAuthoritySigns
  <2>2. rentLamports + a \in Nat /\ rentLamports + a >= RentExempt
    BY <1>1, <1>2, <2>1
  <2> QED  BY <1>2, <2>1, <2>2, RentRecords
<1>7. ASSUME NEW k \in Keys, NEW a \in RentAmounts, RentWithdrawReserve(k, a)
      PROVE  RentInv'
  <2>1. /\ rentConfig # None /\ rentConfig' = rentConfig /\ RentRecord(rentLamports - a)
        /\ SaturatingSub(rentLamports, a) >= RentExempt
    BY <1>7 DEF RentWithdrawReserve, RentAuthoritySigns
  <2>2. rentLamports - a \in Nat /\ rentLamports - a >= RentExempt
    BY <1>1, <2>1 DEF SaturatingSub
  <2> QED  BY <1>2, <2>1, <2>2, RentRecords
<1>8. ASSUME NEW a \in RentAmounts, RentGift(a)
      PROVE  RentInv'
  <2>1. rentLamports' = rentLamports + a /\ UNCHANGED <<rentConfig, rentReserve>>
    BY <1>8 DEF RentGift
  <2>2. rentLamports' \in Nat /\ rentLamports <= rentLamports'
    BY <1>1, <2>1
  <2>3. ASSUME RentUp PROVE RentUp'
    <3>1. rentReserve.balance \in Nat  BY <2>3 DEF RentUp
    <3> QED  BY <1>1, <2>1, <2>2, <2>3, <3>1 DEF RentUp
  <2> QED  BY <1>1, <2>1, <2>2, <2>3 DEF RentInv, RentTypeOK
<1>9. CASE UNCHANGED rentVars
  BY <1>1, <1>9 DEF rentVars, RentInv, RentUp, RentTypeOK
<1> QED  BY <1>3, <1>4, <1>5, <1>6, <1>7, <1>8, <1>9 DEF RentNext

LEMMA RentWaits ==
  ASSUME RentInv, SlotType', UNCHANGED rentVars PROVE RentInv'
BY DEF rentVars, RentInv, RentUp, RentTypeOK

LEMMA RentStart ==
  ASSUME SlotType, RentInit PROVE RentInv
BY DEF RentInit, RentInv, RentTypeOK

-----------------------------------------------------------------------------
(***************************************************************************)
(* Domain rewards: every toll for a route arrives in full.                 *)
(***************************************************************************)

DrInv ==
  /\ drConfig # None => drConfig.splits \in DrSplits
  /\ \A d \in DOMAIN drOwners : drOwners[d].wallet \in Keys /\ drOwners[d].splits \in DrSplits
  /\ drEarned \in [Keys -> Nat]
  /\ drMiners \in Int /\ drTreasury \in Int /\ drPaid \in Int
  /\ RouteTollsConserved /\ OnlyOwnersEarn

\* The owners' income with one payment to one wallet, or to none.
LEMMA DrEarns ==
  ASSUME drEarned \in [Keys -> Nat], NEW w, NEW n \in Nat, n > 0 => w \in Keys,
         drEarned' = [k \in Keys |-> drEarned[k] + (IF k = w THEN n ELSE 0)]
  PROVE  /\ drEarned' \in [Keys -> Nat]
         /\ SumFunction(drEarned) \in Int
         /\ SumFunction(drEarned') = SumFunction(drEarned) + n
<1>1. IsFiniteSet(DOMAIN drEarned) /\ \A k \in DOMAIN drEarned : drEarned[k] \in Int
  BY ChainAssumption
<1>2. drEarned' \in [Keys -> Nat]  OBVIOUS
<1>3. CASE w \in Keys
  <2>1. /\ DOMAIN drEarned' = DOMAIN drEarned \cup {w}
        /\ drEarned'[w] = drEarned[w] + n /\ drEarned[w] \in Nat /\ drEarned'[w] \in Int
        /\ \A k \in DOMAIN drEarned \ {w} : drEarned'[k] = drEarned[k]
    BY <1>3
  <2>2. /\ SumFunction(drEarned) \in Int
        /\ SumFunction(drEarned') = SumFunction(drEarned) + drEarned'[w]
             - (IF w \in DOMAIN drEarned THEN drEarned[w] ELSE 0)
    BY <1>1, <2>1, SumWrites
  <2>3. w \in DOMAIN drEarned  BY <1>3
  <2> QED  BY <1>2, <2>1, <2>2, <2>3
<1>4. CASE w \notin Keys
  <2>1. n = 0  BY <1>4
  <2>2. drEarned' = drEarned  BY <1>4, <2>1
  <2>3. SumFunction(drEarned) \in Int  BY <1>1, SumInt, SumAll
  <2> QED  BY <1>2, <2>1, <2>2, <2>3
<1> QED  BY <1>3, <1>4

LEMMA DrPayKeeps ==
  ASSUME DrInv, NEW d \in DrDomains, NEW amount \in DrAmounts, NEW given,
         TollPayForRoute(d, amount, given)
  PROVE  DrInv'
<1> DEFINE p == Payee(d, given)
           owner == MulBps(amount, p.splits[1])
           miners == MulBps(amount, p.splits[2])
<1>1. /\ drConfig # None
      /\ owner > 0 => p.wallet # None
      /\ drEarned' = [k \in Keys |-> drEarned[k] + (IF k = p.wallet THEN owner ELSE 0)]
      /\ drMiners' = drMiners + miners
      /\ drTreasury' = drTreasury + (amount - owner - miners)
      /\ drPaid' = drPaid + amount
      /\ UNCHANGED <<drConfig, drOwners>>
  BY DEF TollPayForRoute
<1>2. /\ p.splits \in DrSplits
      /\ \/ p.wallet = None
         \/ d \in DOMAIN drOwners /\ p.wallet = drOwners[d].wallet /\ p.wallet \in Keys
  <2>1. CASE given = d /\ Exists(drOwners, d)
    BY <2>1 DEF Payee, DrInv, Exists
  <2>2. CASE ~(given = d /\ Exists(drOwners, d))
    <3>1. p = [wallet |-> None, splits |-> drConfig.splits]  BY <2>2 DEF Payee
    <3> QED  BY <1>1, <3>1 DEF DrInv
  <2> QED  BY <2>1, <2>2
<1>3. amount \in Nat /\ p.splits[1] \in Nat /\ p.splits[2] \in Nat
  BY <1>2, DrAssumption
<1>4. owner \in Nat /\ miners \in Nat
  <2> HIDE DEF p
  <2> QED  BY <1>3, ShareOfAmount
<1> HIDE DEF p, owner, miners
<1>5. /\ drEarned' \in [Keys -> Nat]
      /\ SumFunction(drEarned) \in Int
      /\ SumFunction(drEarned') = SumFunction(drEarned) + owner
  <2>1. drEarned \in [Keys -> Nat]  BY DEF DrInv
  <2>2. owner > 0 => p.wallet \in Keys  BY <1>1, <1>2
  <2> DEFINE w == p.wallet
  <2>3. drEarned' = [k \in Keys |-> drEarned[k] + (IF k = w THEN owner ELSE 0)]
    BY <1>1
  <2> HIDE DEF w
  <2> QED  BY <1>4, <2>1, <2>2, <2>3, DrEarns DEF w
<1>6. RouteTollsConserved'
  BY <1>1, <1>3, <1>4, <1>5 DEF DrInv, RouteTollsConserved
<1>7. OnlyOwnersEarn'
  <2> SUFFICES ASSUME NEW k \in Keys, drEarned'[k] > 0
               PROVE  \E e \in DOMAIN drOwners : drOwners[e].wallet = k
    BY <1>1 DEF OnlyOwnersEarn
  <2>1. CASE drEarned[k] > 0
    BY <2>1 DEF DrInv, OnlyOwnersEarn
  <2>2. CASE ~(drEarned[k] > 0)
    <3>1. drEarned[k] = 0  BY <2>2 DEF DrInv
    <3>2. k = p.wallet /\ owner > 0  BY <1>1, <1>4, <3>1
    <3> QED  BY <1>1, <1>2, <3>2
  <2> QED  BY <2>1, <2>2
<1> QED  BY <1>1, <1>3, <1>4, <1>5, <1>6, <1>7 DEF DrInv

\* A step that moves no money.
LEMMA DrFrame ==
  ASSUME DrInv, UNCHANGED <<drEarned, drMiners, drTreasury, drPaid>>,
         drConfig' # None => drConfig'.splits \in DrSplits,
         DOMAIN drOwners \subseteq DOMAIN drOwners',
         \A d \in DOMAIN drOwners' :
           drOwners'[d].wallet \in Keys /\ drOwners'[d].splits \in DrSplits,
         \A d \in DOMAIN drOwners : drOwners'[d].wallet = drOwners[d].wallet
  PROVE  DrInv'
BY DEF DrInv, RouteTollsConserved, OnlyOwnersEarn

LEMMA DrStep ==
  ASSUME DrInv, [DrNext]_drVars PROVE DrInv'
<1>1. ASSUME NEW s \in DrSplits, NEW t, DrInitConfig(s, t)
      PROVE  DrInv'
  <2>1. /\ drConfig' = [splits |-> s, minToll |-> t]
        /\ UNCHANGED <<drOwners, drEarned, drMiners, drTreasury, drPaid>>
    BY <1>1 DEF DrInitConfig
  <2> QED  BY <2>1, DrFrame DEF DrInv
<1>2. ASSUME NEW d, NEW k \in Keys, NEW s \in DrSplits, DrRegisterOwner(d, k, s)
      PROVE  DrInv'
  <2>1. /\ d \notin DOMAIN drOwners
        /\ drOwners' = Created(drOwners, d, [wallet |-> k, splits |-> s])
        /\ UNCHANGED <<drConfig, drEarned, drMiners, drTreasury, drPaid>>
    BY <1>2 DEF DrRegisterOwner, Vacant
  <2> QED  BY <2>1, DrFrame DEF DrInv, Created
<1>3. ASSUME NEW d, NEW k \in Keys, NEW s \in DrSplits, UpdateDomainSplits(d, k, s)
      PROVE  DrInv'
  <2>1. /\ drOwners' = [drOwners EXCEPT ![d].splits = s]
        /\ UNCHANGED <<drConfig, drEarned, drMiners, drTreasury, drPaid>>
    BY <1>3 DEF UpdateDomainSplits
  <2>2. DOMAIN drOwners' = DOMAIN drOwners  BY <2>1
  <2>3. \A x \in DOMAIN drOwners :
          /\ drOwners'[x].wallet = drOwners[x].wallet
          /\ drOwners'[x].splits = IF x = d THEN s ELSE drOwners[x].splits
    BY <2>1
  <2> QED  BY <2>1, <2>2, <2>3, DrFrame DEF DrInv
<1>4. CASE UNCHANGED drVars
  BY <1>4 DEF drVars, DrInv, RouteTollsConserved, OnlyOwnersEarn
<1>5. CASE DrNext
  <2>1. \/ \E s \in DrSplits, t \in DrMinTolls : DrInitConfig(s, t)
        \/ \E s \in DrSplits, d \in DrDomains, k \in Keys :
             DrRegisterOwner(d, k, s) \/ UpdateDomainSplits(d, k, s)
        \/ \E d \in DrDomains, a \in DrAmounts, g \in DrDomains \cup {None} :
             TollPayForRoute(d, a, g)
    BY <1>5, Zenon DEF DrNext, DrCli, CliDrInit, CliDrRegister, CliDrPay
  <2> QED  BY <2>1, <1>1, <1>2, <1>3, DrPayKeeps
<1> QED  BY <1>4, <1>5

LEMMA DrStart == ASSUME DrInit PROVE DrInv
<1>1. /\ drConfig = None /\ DOMAIN drOwners = {} /\ drEarned = [k \in Keys |-> 0]
      /\ drMiners = 0 /\ drTreasury = 0 /\ drPaid = 0
  BY DEF DrInit, NoAccounts
<1>2. SumFunction(drEarned) = 0
  <2>1. IsFiniteSet(DOMAIN drEarned) /\ \A k \in DOMAIN drEarned : drEarned[k] = 0
    BY <1>1, ChainAssumption
  <2> QED  BY <2>1, SumZero
<1> QED  BY <1>1, <1>2 DEF DrInv, RouteTollsConserved, OnlyOwnersEarn

-----------------------------------------------------------------------------
(***************************************************************************)
(* The rewards program: tolls, and who may claim a domain.                 *)
(***************************************************************************)

\* Challenges and claims name wallets that started a challenge.
RwInv ==
  /\ slot \in Nat
  /\ rwConfig # None => rwConfig \in RwConfigType /\ RwConfigValid(rwConfig)
  /\ RwTypeOK /\ TollsConserved
  /\ rwPayouts \in [Keys -> Nat]
  /\ DOMAIN rwChallenges \subseteq RwDomains \X RwNonces
  /\ \A c \in DOMAIN rwChallenges : <<c[1], rwChallenges[c].owner>> \in rwProofs
  /\ \A d \in DOMAIN rwClaims : <<d, rwClaims[d].owner>> \in rwProofs

\* What ClaimProven asks of a step.
RwStepProven ==
  /\ \A d \in DOMAIN rwClaims' : <<d, rwClaims'[d].owner>> \in rwProofs
  /\ \A d \in RwDomains : Revoked(d) => Revoked(d)'

\* A payout that grows, with the books.
LEMMA RwPaysOut ==
  ASSUME RwInv, NEW k \in Keys, NEW n \in Nat,
         rwPayouts' = [rwPayouts EXCEPT ![k] = rwPayouts[k] + n]
  PROVE  /\ rwPayouts' \in [Keys -> Nat]
         /\ SumFunction(rwPayouts) \in Int
         /\ SumFunction(rwPayouts') = SumFunction(rwPayouts) + n
<1>1. rwPayouts \in [Keys -> Nat]  BY DEF RwInv
<1>2. /\ IsFiniteSet(DOMAIN rwPayouts) /\ \A x \in DOMAIN rwPayouts : rwPayouts[x] \in Int
      /\ k \in DOMAIN rwPayouts /\ rwPayouts[k] \in Nat
  BY <1>1, ChainAssumption
<1>3. /\ rwPayouts' \in [Keys -> Nat] /\ rwPayouts'[k] = rwPayouts[k] + n
      /\ DOMAIN rwPayouts' = DOMAIN rwPayouts \cup {k}
      /\ \A x \in DOMAIN rwPayouts \ {k} : rwPayouts'[x] = rwPayouts[x]
  BY <1>1
<1>4. rwPayouts'[k] \in Int  BY <1>2, <1>3
<1>5. /\ SumFunction(rwPayouts) \in Int
      /\ SumFunction(rwPayouts') = SumFunction(rwPayouts) + rwPayouts'[k]
           - (IF k \in DOMAIN rwPayouts THEN rwPayouts[k] ELSE 0)
  BY <1>2, <1>3, <1>4, SumWrites
<1> QED  BY <1>2, <1>3, <1>5

LEMMA RwSums ==
  ASSUME RwInv
  PROVE  /\ SumFunction(rwPayouts) \in Int /\ rwTreasury \in Nat /\ rwPaid \in Nat
         /\ rwPaid <= RwMaxPaid /\ rwTreasury + SumFunction(rwPayouts) = rwPaid
<1>1. IsFiniteSet(DOMAIN rwPayouts) /\ \A x \in DOMAIN rwPayouts : rwPayouts[x] \in Int
  BY ChainAssumption DEF RwInv
<1>2. SumFunction(rwPayouts) \in Int  BY <1>1, SumInt, SumAll
<1>3. RwMaxPaid \in Nat  BY RwAssumption
<1> QED  BY <1>2, <1>3 DEF RwInv, RwTypeOK, TollsConserved

\* A step that moves money and leaves the claims alone.
LEMMA RwMoves ==
  ASSUME RwInv, UNCHANGED <<slot, rwConfig, rwChallenges, rwClaims, rwProofs>>,
         rwTreasury' \in Nat, rwPaid' \in 0..RwMaxPaid, rwPayouts' \in [Keys -> Nat],
         TollsConserved'
  PROVE  RwInv' /\ RwStepProven
<1>1. RwTypeOK'  BY DEF RwInv, RwTypeOK
<1>2. RwStepProven  BY DEF RwInv, RwStepProven, Revoked, Exists
<1> QED  BY <1>1, <1>2 DEF RwInv

\* A step that writes the claims and leaves the money alone.
LEMMA RwBooks ==
  ASSUME RwInv, UNCHANGED <<slot, rwTreasury, rwPayouts, rwPaid>>,
         rwConfig' # None => rwConfig' \in RwConfigType /\ RwConfigValid(rwConfig'),
         rwProofs \subseteq rwProofs',
         DOMAIN rwChallenges' \subseteq RwDomains \X RwNonces,
         \A c \in DOMAIN rwChallenges' :
           /\ rwChallenges'[c].owner \in Keys /\ rwChallenges'[c].expires \in Nat
           /\ <<c[1], rwChallenges'[c].owner>> \in rwProofs',
         DOMAIN rwClaims' \subseteq RwDomains,
         \A d \in DOMAIN rwClaims' :
           /\ rwClaims'[d] \in [owner: Keys, status: {"verified", "revoked"}]
           /\ <<d, rwClaims'[d].owner>> \in rwProofs,
         \A d \in DOMAIN rwClaims : rwClaims[d].status = "revoked" =>
            d \in DOMAIN rwClaims' /\ rwClaims'[d].status = "revoked"
  PROVE  RwInv' /\ RwStepProven
<1>1. RwTypeOK'  BY DEF RwInv, RwTypeOK
<1>2. RwStepProven  BY DEF RwStepProven, Revoked, Exists
<1>3. TollsConserved'  BY DEF RwInv, TollsConserved
<1> QED  BY <1>1, <1>2, <1>3 DEF RwInv

\* What the invariant says of the claims, for RwBooks.
LEMMA RwClaimsAre ==
  ASSUME RwInv
  PROVE  /\ DOMAIN rwChallenges \subseteq RwDomains \X RwNonces
         /\ \A c \in DOMAIN rwChallenges :
              /\ rwChallenges[c].owner \in Keys /\ rwChallenges[c].expires \in Nat
              /\ <<c[1], rwChallenges[c].owner>> \in rwProofs
         /\ DOMAIN rwClaims \subseteq RwDomains
         /\ \A d \in DOMAIN rwClaims :
              /\ rwClaims[d] \in [owner: Keys, status: {"verified", "revoked"}]
              /\ <<d, rwClaims[d].owner>> \in rwProofs
BY DEF RwInv, RwTypeOK

LEMMA RwConfigKeeps ==
  ASSUME RwInv, UNCHANGED slot, NEW c \in RwConfigType, RwConfigValid(c), rwConfig' = c,
         UNCHANGED <<rwChallenges, rwClaims, rwUsage, rwMoney, rwProofs>>
  PROVE  RwInv' /\ RwStepProven
<1>1. rwConfig' \in RwConfigType /\ RwConfigValid(rwConfig')
  BY DEF RwConfigValid
<1> QED  BY <1>1, RwClaimsAre, RwBooks DEF rwMoney

LEMMA RwChallengeKeeps ==
  ASSUME RwInv, UNCHANGED slot, NEW k \in Keys, NEW d \in RwDomains, NEW n \in RwNonces,
         StartDomainChallenge(k, d, n)
  PROVE  RwInv' /\ RwStepProven
<1>1. /\ rwConfig # None
      /\ rwChallenges' = Created(rwChallenges, <<d, n>>, DomainChallenge(k))
      /\ rwProofs' = rwProofs \cup {<<d, k>>}
      /\ UNCHANGED <<rwConfig, rwClaims, rwUsage, rwMoney>>
  BY DEF StartDomainChallenge, ChallengeAccounts
<1>2. DomainChallenge(k).owner = k /\ DomainChallenge(k).expires \in Nat
  <2>1. rwConfig.challengeTtl \in Nat /\ slot \in Nat
    BY <1>1 DEF RwInv, RwConfigType
  <2> QED  BY <2>1 DEF DomainChallenge
<1>3. DOMAIN rwChallenges' \subseteq RwDomains \X RwNonces
  BY <1>1, RwClaimsAre DEF Created
<1>4. \A c \in DOMAIN rwChallenges' :
        /\ rwChallenges'[c].owner \in Keys /\ rwChallenges'[c].expires \in Nat
        /\ <<c[1], rwChallenges'[c].owner>> \in rwProofs'
  <2> DEFINE x == <<d, n>>
  <2>1. x[1] = d  OBVIOUS
  <2> HIDE DEF x
  <2>2. /\ DOMAIN rwChallenges' = DOMAIN rwChallenges \cup {x}
        /\ rwChallenges'[x] = DomainChallenge(k)
        /\ \A c \in DOMAIN rwChallenges \ {x} : rwChallenges'[c] = rwChallenges[c]
    BY <1>1 DEF Created, x
  <2> QED  BY <1>1, <1>2, <2>1, <2>2, RwClaimsAre
<1>5. rwConfig' # None => rwConfig' \in RwConfigType /\ RwConfigValid(rwConfig')
  BY <1>1 DEF RwInv, RwConfigValid
<1>6. /\ UNCHANGED <<slot, rwTreasury, rwPayouts, rwPaid>> /\ rwProofs \subseteq rwProofs'
      /\ rwClaims' = rwClaims
  BY <1>1 DEF rwMoney
<1> QED  BY <1>3, <1>4, <1>5, <1>6, RwClaimsAre, RwBooks

LEMMA RwClaimKeeps ==
  ASSUME RwInv, UNCHANGED slot, NEW k \in Keys, NEW d \in RwDomains, NEW n \in RwNonces,
         ClaimDomain(k, d, n)
  PROVE  RwInv' /\ RwStepProven
<1> DEFINE x == <<d, n>>
           owner == rwChallenges[x].owner
<1>1. /\ x \in DOMAIN rwChallenges /\ ~Revoked(d)
      /\ rwClaims' = Created(rwClaims, d, DomainClaim(owner))
      /\ rwChallenges' = Restrict(rwChallenges, DOMAIN rwChallenges \ {x})
      /\ UNCHANGED <<rwConfig, rwUsage, rwMoney, rwProofs>>
  BY DEF ClaimDomain, ClaimDomainAccounts, Exists
<1>2. x[1] = d /\ owner \in Keys /\ <<d, owner>> \in rwProofs
  BY <1>1, RwClaimsAre
<1> HIDE DEF owner, x
<1>3. /\ DOMAIN rwChallenges' \subseteq DOMAIN rwChallenges
      /\ \A c \in DOMAIN rwChallenges' : rwChallenges'[c] = rwChallenges[c]
  BY <1>1 DEF Restrict
<1>4. /\ DOMAIN rwClaims' = DOMAIN rwClaims \cup {d}
      /\ rwClaims'[d] = [owner |-> owner, status |-> "verified"]
      /\ \A y \in DOMAIN rwClaims \ {d} : rwClaims'[y] = rwClaims[y]
  BY <1>1 DEF Created, DomainClaim
<1>5. \A y \in DOMAIN rwClaims' :
        /\ rwClaims'[y] \in [owner: Keys, status: {"verified", "revoked"}]
        /\ <<y, rwClaims'[y].owner>> \in rwProofs
  BY <1>2, <1>4, RwClaimsAre
<1>6. \A y \in DOMAIN rwClaims : rwClaims[y].status = "revoked" =>
         y \in DOMAIN rwClaims' /\ rwClaims'[y].status = "revoked"
  BY <1>1, <1>4 DEF Revoked, Exists
<1>7. rwConfig' # None => rwConfig' \in RwConfigType /\ RwConfigValid(rwConfig')
  BY <1>1 DEF RwInv, RwConfigValid
<1>8. UNCHANGED <<slot, rwTreasury, rwPayouts, rwPaid, rwProofs>>
  BY <1>1 DEF rwMoney
<1>9. DOMAIN rwClaims' \subseteq RwDomains  BY <1>4, RwClaimsAre
<1>10. /\ DOMAIN rwChallenges' \subseteq RwDomains \X RwNonces
       /\ \A c \in DOMAIN rwChallenges' :
            /\ rwChallenges'[c].owner \in Keys /\ rwChallenges'[c].expires \in Nat
            /\ <<c[1], rwChallenges'[c].owner>> \in rwProofs'
  BY <1>3, <1>8, RwClaimsAre
<1> QED  BY <1>5, <1>6, <1>7, <1>8, <1>9, <1>10, RwBooks

LEMMA RwRevokeKeeps ==
  ASSUME RwInv, UNCHANGED slot, NEW k \in Keys, NEW d \in RwDomains, RevokeDomainClaim(k, d)
  PROVE  RwInv' /\ RwStepProven
<1>1. /\ rwClaims' = [rwClaims EXCEPT ![d].status = "revoked"]
      /\ UNCHANGED <<rwConfig, rwChallenges, rwUsage, rwMoney, rwProofs>>
  BY DEF RevokeDomainClaim
<1>2. /\ DOMAIN rwClaims' = DOMAIN rwClaims
      /\ \A y \in DOMAIN rwClaims' :
           /\ rwClaims'[y] \in [owner: Keys, status: {"verified", "revoked"}]
           /\ rwClaims'[y].owner = rwClaims[y].owner
           /\ rwClaims[y].status = "revoked" => rwClaims'[y].status = "revoked"
  BY <1>1, RwClaimsAre
<1>3. rwConfig' # None => rwConfig' \in RwConfigType /\ RwConfigValid(rwConfig')
  BY <1>1 DEF RwInv, RwConfigValid
<1>4. UNCHANGED <<slot, rwTreasury, rwPayouts, rwPaid, rwProofs, rwChallenges>>
  BY <1>1 DEF rwMoney
<1> QED  BY <1>2, <1>3, <1>4, RwClaimsAre, RwBooks

LEMMA RwTollKeeps ==
  ASSUME RwInv, UNCHANGED slot, NEW amount \in RwAmounts, PayToll(amount)
  PROVE  RwInv' /\ RwStepProven
<1>1. /\ rwPaid + amount <= RwMaxPaid
      /\ rwTreasury' = rwTreasury + amount /\ rwPaid' = rwPaid + amount
      /\ UNCHANGED <<rwConfig, rwChallenges, rwClaims, rwUsage, rwPayouts, rwProofs>>
  BY DEF PayToll, TollAllowed
<1>2. amount \in Nat /\ RwMaxPaid \in Nat  BY RwAssumption
<1>3. TollsConserved'  BY <1>1, <1>2, RwSums DEF TollsConserved
<1>4. rwTreasury' \in Nat /\ rwPaid' \in 0..RwMaxPaid  BY <1>1, <1>2, RwSums
<1>5. rwPayouts' \in [Keys -> Nat]  BY <1>1 DEF RwInv
<1> QED  BY <1>1, <1>3, <1>4, <1>5, RwMoves

LEMMA RwFundKeeps ==
  ASSUME RwInv, UNCHANGED slot, NEW k, NEW amount \in RwAmounts, FundRewards(k, amount)
  PROVE  RwInv' /\ RwStepProven
<1>1. /\ rwPaid + amount <= RwMaxPaid
      /\ rwTreasury' = rwTreasury + amount /\ rwPaid' = rwPaid + amount
      /\ UNCHANGED <<rwConfig, rwChallenges, rwClaims, rwUsage, rwPayouts, rwProofs>>
  BY DEF FundRewards
<1>2. amount \in Nat /\ RwMaxPaid \in Nat  BY RwAssumption
<1>3. TollsConserved'  BY <1>1, <1>2, RwSums DEF TollsConserved
<1>4. rwTreasury' \in Nat /\ rwPaid' \in 0..RwMaxPaid  BY <1>1, <1>2, RwSums
<1>5. rwPayouts' \in [Keys -> Nat]  BY <1>1 DEF RwInv
<1> QED  BY <1>1, <1>3, <1>4, <1>5, RwMoves

\* The share of the domain is never more than the toll.
LEMMA RwShareKeeps ==
  ASSUME RwInv, UNCHANGED slot, NEW d, NEW amount \in RwAmounts,
         PayTollWithDomain(d, amount)
  PROVE  RwInv' /\ RwStepProven
<1> DEFINE share == MulBps(amount, rwConfig.shareBps)
           owner == rwClaims[d].owner
<1>1. /\ rwConfig # None /\ d \in DOMAIN rwClaims
      /\ rwPaid + amount <= RwMaxPaid
      /\ rwPayouts' = [rwPayouts EXCEPT ![owner] = rwPayouts[owner] + share]
      /\ rwTreasury' = rwTreasury + (amount - share) /\ rwPaid' = rwPaid + amount
      /\ UNCHANGED <<rwConfig, rwChallenges, rwClaims, rwUsage, rwProofs>>
  BY DEF PayTollWithDomain, TollAllowed, Verified, Exists
<1>2. amount \in Nat /\ RwMaxPaid \in Nat  BY RwAssumption
<1>3. rwConfig.shareBps \in Nat /\ rwConfig.shareBps <= BpsDenom
  BY <1>1 DEF RwInv, RwConfigType, RwConfigValid
<1>4. share \in Nat /\ share <= amount  BY <1>2, <1>3, ShareOfAmount
<1>5. owner \in Keys  BY <1>1, RwClaimsAre
<1> HIDE DEF share, owner
<1>6. /\ rwPayouts' \in [Keys -> Nat]
      /\ SumFunction(rwPayouts') = SumFunction(rwPayouts) + share
  BY <1>1, <1>4, <1>5, RwPaysOut
<1>7. TollsConserved'  BY <1>1, <1>2, <1>4, <1>6, RwSums DEF TollsConserved
<1>8. rwTreasury' \in Nat /\ rwPaid' \in 0..RwMaxPaid  BY <1>1, <1>2, <1>4, RwSums
<1> QED  BY <1>1, <1>6, <1>7, <1>8, RwMoves

LEMMA RwUsageKeeps ==
  ASSUME RwInv, UNCHANGED slot, NEW k, NEW d, NEW u, SubmitDomainUsage(k, d, u)
  PROVE  RwInv' /\ RwStepProven
<1>1. UNCHANGED <<rwConfig, rwChallenges, rwClaims, rwMoney, rwProofs>>
  BY DEF SubmitDomainUsage
<1>2. TollsConserved'  BY <1>1 DEF RwInv, TollsConserved, rwMoney
<1>3. rwTreasury' \in Nat /\ rwPaid' \in 0..RwMaxPaid /\ rwPayouts' \in [Keys -> Nat]
  BY <1>1 DEF RwInv, RwTypeOK, rwMoney
<1> QED  BY <1>1, <1>2, <1>3, RwMoves

LEMMA RwRewardKeeps ==
  ASSUME RwInv, UNCHANGED slot, NEW k \in Keys, NEW d, NEW e, ClaimDomainRewards(k, d, e)
  PROVE  RwInv' /\ RwStepProven
<1> DEFINE reward == UsageReward(rwUsage[<<d, e>>])
<1>1. /\ reward \in 1..rwTreasury
      /\ rwTreasury' = rwTreasury - reward
      /\ rwPayouts' = [rwPayouts EXCEPT ![k] = rwPayouts[k] + reward]
      /\ UNCHANGED <<rwConfig, rwChallenges, rwClaims, rwPaid, rwProofs>>
  BY DEF ClaimDomainRewards
<1> HIDE DEF reward
<1>2. reward \in Nat /\ reward <= rwTreasury  BY <1>1, RwSums
<1>3. /\ rwPayouts' \in [Keys -> Nat]
      /\ SumFunction(rwPayouts') = SumFunction(rwPayouts) + reward
  BY <1>1, <1>2, RwPaysOut
<1>4. TollsConserved'  BY <1>1, <1>2, <1>3, RwSums DEF TollsConserved
<1>5. rwTreasury' \in Nat /\ rwPaid' \in 0..RwMaxPaid
  BY <1>1, <1>2, RwSums DEF RwInv, RwTypeOK
<1> QED  BY <1>1, <1>3, <1>4, <1>5, RwMoves

RwInstruction ==
  \/ \E c \in RwConfigType :
       /\ RwConfigValid(c) /\ rwConfig' = c
       /\ UNCHANGED <<rwChallenges, rwClaims, rwUsage, rwMoney, rwProofs>>
  \/ \E k \in Keys, d \in RwDomains, n \in RwNonces :
       StartDomainChallenge(k, d, n) \/ ClaimDomain(k, d, n)
  \/ \E k \in Keys, d \in RwDomains : RevokeDomainClaim(k, d)
  \/ \E k \in Keys, d \in RwDomains, u \in RwUsages : SubmitDomainUsage(k, d, u)
  \/ \E k \in Keys, d \in RwDomains, e \in 0..MaxSlot : ClaimDomainRewards(k, d, e)
  \/ \E a \in RwAmounts : PayToll(a)
  \/ \E a \in RwAmounts, d \in RwDomains : PayTollWithDomain(d, a)
  \/ \E a \in RwAmounts, k \in Keys : FundRewards(k, a)

\* The claim is looked up before the payment: only a claimed domain is paid for.
LEMMA RwCommands ==
  ASSUME RwInv, RwNext PROVE RwInstruction
<1>1. ASSUME NEW k \in Keys, NEW c \in RwConfigs, CliRwInit(k, c)
      PROVE  RwInstruction
  <2> DEFINE f == IF c.verifiers = {} THEN [c EXCEPT !.verifiers = {k}] ELSE c
  <2>1. c \in RwConfigType  BY RwAssumption
  <2>2. f \in RwConfigType  BY <2>1 DEF RwConfigType
  <2>3. InitRewardsConfig(k, f)  BY <1>1 DEF CliRwInit
  <2> HIDE DEF f
  <2> QED  BY <2>2, <2>3, Zenon DEF InitRewardsConfig, RwInstruction
<1>2. ASSUME NEW k \in Keys, NEW c \in RwConfigs,
             InitRewardsConfig(k, c) \/ UpdateRewardsConfig(k, c)
      PROVE  RwInstruction
  <2>1. c \in RwConfigType  BY RwAssumption
  <2> QED  BY <1>2, <2>1, Zenon DEF InitRewardsConfig, UpdateRewardsConfig, RwInstruction
<1>3. ASSUME NEW a \in RwAmounts, NEW d \in RwDomains \cup {None}, CliRwPay(d, a)
      PROVE  RwInstruction
  <2>1. CASE PayToll(a)  BY <2>1, Zenon DEF RwInstruction
  <2>2. CASE Exists(rwClaims, d) /\ PayTollWithDomain(d, a)
    <3>1. d \in RwDomains  BY <2>2, RwClaimsAre DEF Exists
    <3> QED  BY <2>2, <3>1, Zenon DEF RwInstruction
  <2> QED  BY <1>3, <2>1, <2>2 DEF CliRwPay
<1>4. ASSUME NEW k \in Keys, NEW d \in RwDomains,
             \/ CliRwChallenge(k, d)
             \/ \E o \in Keys, n \in RwNonces : CliRwClaim(k, o, d, n)
             \/ \E u \in RwUsages : CliRwUsageSubmit(k, d, u)
             \/ \E e \in 0..MaxSlot : CliRwRewardClaim(k, d, e)
      PROVE  RwInstruction
  BY <1>4, Zenon DEF CliRwChallenge, CliRwClaim, CliRwUsageSubmit, CliRwRewardClaim,
     RwInstruction
<1>5. RwCli => RwInstruction  BY <1>1, <1>3, <1>4, Zenon DEF RwCli
<1> QED  BY <1>2, <1>5, Zenon DEF RwNext, RwInstruction

LEMMA RwWaits ==
  ASSUME RwInv, slot' \in Nat, UNCHANGED rwVars PROVE RwInv'
BY DEF RwInv, rwVars, RwConfigValid, RwTypeOK, TollsConserved

LEMMA RwStep ==
  ASSUME RwInv, UNCHANGED slot, RwNext PROVE RwInv' /\ RwStepProven
<1>1. RwInstruction  BY RwCommands
<1> QED  BY <1>1, Zenon, RwConfigKeeps, RwChallengeKeeps, RwClaimKeeps, RwRevokeKeeps,
            RwTollKeeps, RwFundKeeps, RwShareKeeps, RwUsageKeeps, RwRewardKeeps
            DEF RwInstruction

LEMMA RwStart ==
  ASSUME slot = 0, RwInit PROVE RwInv
<1>1. /\ rwConfig = None /\ DOMAIN rwChallenges = {} /\ DOMAIN rwClaims = {}
      /\ rwTreasury = 0 /\ rwPayouts = [k \in Keys |-> 0] /\ rwPaid = 0
  BY DEF RwInit, NoAccounts
<1>2. SumFunction(rwPayouts) = 0
  <2>1. IsFiniteSet(DOMAIN rwPayouts) /\ \A k \in DOMAIN rwPayouts : rwPayouts[k] = 0
    BY <1>1, ChainAssumption
  <2> QED  BY <2>1, SumZero
<1> QED  BY <1>1, <1>2, RwAssumption DEF RwInv, RwTypeOK, TollsConserved

-----------------------------------------------------------------------------
(***************************************************************************)
(* The escrow program: what a vault holds, and what leaves it arrives.     *)
(***************************************************************************)

SpentBy(u) == {x \in DOMAIN spent : x[1] = u}

EscrowMoneyInv ==
  /\ escrowConfig # None => escrowConfig \in EscrowConfigType
  /\ EscrowTypeOK /\ EscrowConserved
  /\ IsFiniteSet(DOMAIN spent)
  /\ \A x \in DOMAIN spent : spent[x] \in Nat /\ x[1] \in DOMAIN userEscrows
  /\ \A u \in Keys \ DOMAIN userEscrows : deposited[u] = 0

\* One receiver gets more.
Grown(r, x, n) == [r EXCEPT ![x] = r[x] + n]

LEMMA ReceivedGrows ==
  ASSUME NEW r \in [Receivers -> Nat], NEW x \in Receivers, NEW n \in Nat
  PROVE  /\ Grown(r, x, n) \in [Receivers -> Nat] /\ SumFunction(r) \in Int
         /\ SumFunction(Grown(r, x, n)) = SumFunction(r) + n
<1> DEFINE q == Grown(r, x, n)
<1>1. IsFiniteSet(Receivers)
  <2>1. IsFiniteSet(EscrowNames \cup {"miners"})  BY EscrowAssumption, FS_AddElement
  <2>2. Receivers = (EscrowNames \cup {"miners"}) \cup {"treasury"}  BY DEF Receivers
  <2> QED  BY <2>1, <2>2, FS_AddElement
<1>2. /\ q \in [Receivers -> Nat] /\ q[x] = r[x] + n /\ r[x] \in Nat
      /\ DOMAIN q = DOMAIN r \cup {x} /\ x \in DOMAIN r
      /\ \A y \in DOMAIN r \ {x} : q[y] = r[y]
  <2> HIDE DEF Receivers
  <2>1. r[x] \in Nat /\ DOMAIN r = Receivers  OBVIOUS
  <2>2. DOMAIN q = Receivers /\ \A y \in Receivers : q[y] = IF y = x THEN r[x] + n ELSE r[y]
    BY <2>1 DEF Grown
  <2>3. \A y \in Receivers : q[y] \in Nat  BY <2>1, <2>2
  <2>4. q = [y \in Receivers |-> q[y]]  BY <2>1 DEF Grown
  <2> HIDE DEF q
  <2>5. q \in [Receivers -> Nat]  BY <2>3, <2>4
  <2> QED  BY <2>1, <2>2, <2>5
<1> HIDE DEF q
<1>3. IsFiniteSet(DOMAIN r) /\ (\A y \in DOMAIN r : r[y] \in Int) /\ q[x] \in Int
  BY <1>1, <1>2
<1>4. /\ SumFunction(r) \in Int
      /\ SumFunction(q) = SumFunction(r) + q[x] - (IF x \in DOMAIN r THEN r[x] ELSE 0)
  BY <1>2, <1>3, SumWrites
<1>5. q \in [Receivers -> Nat] /\ SumFunction(r) \in Int /\ SumFunction(q) = SumFunction(r) + n
  BY <1>2, <1>4
<1> QED  BY <1>5, Zenon DEF q

\* What a user has spent with one more voucher.
LEMMA SpentGrows ==
  ASSUME EscrowMoneyInv, NEW x, x \notin DOMAIN spent, NEW n \in Nat,
         spent' = Created(spent, x, n)
  PROVE  /\ IsFiniteSet(DOMAIN spent') /\ DOMAIN spent' = DOMAIN spent \cup {x}
         /\ spent'[x] = n /\ \A y \in DOMAIN spent : spent'[y] = spent[y]
         /\ SumFunction(spent) \in Int /\ SumFunction(spent') = SumFunction(spent) + n
         /\ \A u : SumFunctionOnSet(spent, SpentBy(u)) \in Int
         /\ SumFunctionOnSet(spent', SpentBy(x[1])')
              = SumFunctionOnSet(spent, SpentBy(x[1])) + n
         /\ \A u : u # x[1] => SumFunctionOnSet(spent', SpentBy(u)')
                                 = SumFunctionOnSet(spent, SpentBy(u))
<1>1. /\ DOMAIN spent' = DOMAIN spent \cup {x} /\ spent'[x] = n
      /\ \A y \in DOMAIN spent : spent'[y] = spent[y]
  BY DEF Created
<1>2. IsFiniteSet(DOMAIN spent) /\ \A y \in DOMAIN spent : spent[y] \in Nat
  BY DEF EscrowMoneyInv
<1>3. IsFiniteSet(DOMAIN spent')  BY <1>1, <1>2, FS_AddElement
<1>4. SumFunction(spent) \in Int /\ SumFunction(spent') = SumFunction(spent) + n
  <2>1. \A y \in DOMAIN spent : spent[y] \in Int  BY <1>2
  <2>2. \A y \in DOMAIN spent \ {x} : spent'[y] = spent[y]  BY <1>1
  <2>3. spent'[x] \in Int  BY <1>1
  <2>4. /\ SumFunction(spent) \in Int
        /\ SumFunction(spent') = SumFunction(spent) + spent'[x]
             - (IF x \in DOMAIN spent THEN spent[x] ELSE 0)
    BY <1>1, <1>2, <2>1, <2>2, <2>3, SumWrites
  <2> QED  BY <1>1, <2>4
<1>5. ASSUME NEW u
      PROVE  /\ IsFiniteSet(SpentBy(u)) /\ \A y \in SpentBy(u) : spent[y] \in Int
             /\ SumFunctionOnSet(spent, SpentBy(u)) \in Int
  <2>1. IsFiniteSet(SpentBy(u))  BY <1>2, FS_Subset DEF SpentBy
  <2>2. \A y \in SpentBy(u) : spent[y] \in Int  BY <1>2 DEF SpentBy
  <2> QED  BY <2>1, <2>2, SumInt
<1>6. SumFunctionOnSet(spent', SpentBy(x[1])')
        = SumFunctionOnSet(spent, SpentBy(x[1])) + n
  <2> DEFINE S == SpentBy(x[1])
  <2>1. /\ SpentBy(x[1])' = S \cup {x} /\ x \notin S
        /\ \A y \in S \ {x} : spent'[y] = spent[y]
    BY <1>1 DEF SpentBy
  <2>2. IsFiniteSet(S) /\ (\A y \in S : spent[y] \in Int) /\ spent'[x] \in Int
    BY <1>1, <1>5
  <2> HIDE DEF S
  <2>3. /\ SumFunctionOnSet(spent, S) \in Int
        /\ SumFunctionOnSet(spent', S \cup {x})
          = SumFunctionOnSet(spent, S) + spent'[x] - (IF x \in S THEN spent[x] ELSE 0)
    BY <2>1, <2>2, SumOnSetWrites
  <2>4. SumFunctionOnSet(spent', S \cup {x}) = SumFunctionOnSet(spent, S) + n
    BY <1>1, <2>1, <2>3
  <2> QED  BY <2>1, <2>4, Zenon DEF S
<1>7. ASSUME NEW u, u # x[1]
      PROVE  SumFunctionOnSet(spent', SpentBy(u)') = SumFunctionOnSet(spent, SpentBy(u))
  <2>1. SpentBy(u)' = SpentBy(u)  BY <1>1, <1>7 DEF SpentBy
  <2>2. \A y \in SpentBy(u) : spent[y] \in Int /\ spent'[y] = spent[y]
    BY <1>1, <1>5 DEF SpentBy
  <2>3. SumFunctionOnSet(spent', SpentBy(u)) = SumFunctionOnSet(spent, SpentBy(u))
    BY <1>5, <2>2, SumSame
  <2> QED  BY <2>1, <2>3
<1> QED  BY <1>1, <1>3, <1>4, <1>5, <1>6, <1>7, Zenon

LEMMA EscrowVaults ==
  ASSUME EscrowMoneyInv
  PROVE  \A u \in DOMAIN userEscrows :
           /\ u \in Keys /\ userEscrows[u] \in Nat /\ deposited[u] \in Nat
           /\ userEscrows[u] = deposited[u] - SumFunctionOnSet(spent, SpentBy(u))
BY DEF EscrowMoneyInv, EscrowTypeOK, EscrowConserved, SpentBy

\* The shares of a voucher add up to its amount.
LEMMA RedeemKeeps ==
  ASSUME EscrowMoneyInv, NEW v \in Vouchers, RedeemTollVoucher(v)
  PROVE  EscrowMoneyInv'
<1> DEFINE x == <<v.payer, v.nonce>>
           a == DomainShare(v)
           b == MinersShare(v)
           c == TreasuryShare(v)
           n == v.amount
           payer == v.payer
<1>1. /\ escrowConfig # None /\ payer \in DOMAIN userEscrows /\ x \notin DOMAIN redeemed
      /\ c >= 0 /\ userEscrows[payer] >= n
      /\ redeemed' = Created(redeemed, x, slot)
      /\ userEscrows' = [userEscrows EXCEPT ![payer] = userEscrows[payer] - n]
      /\ paidVouchers' = [paidVouchers EXCEPT ![v] = paidVouchers[v] + 1]
      /\ UNCHANGED <<escrowConfig, domainOwners, deposited>>
  BY DEF RedeemTollVoucher, RedeemAccounts, Vacant, Exists
<1>2. x[1] = payer  OBVIOUS
<1>3. n \in Nat /\ payer \in Keys /\ v.name \in Receivers
  BY EscrowAssumption DEF Receivers
<1>4. a \in Nat /\ b \in Nat /\ c \in Nat /\ a + b + c = n
  <2>1. escrowConfig.domainBps \in Nat /\ escrowConfig.minersBps \in Nat
    BY <1>1 DEF EscrowMoneyInv, EscrowConfigType
  <2>2. a \in Nat  BY <1>3, <2>1, ShareOfAmount DEF DomainShare
  <2>3. b \in Nat  BY <1>3, <2>1, ShareOfAmount DEF MinersShare
  <2>4. c = n - a - b  BY DEF TreasuryShare
  <2> HIDE DEF a, b, n
  <2> QED  BY <1>1, <1>3, <2>2, <2>3, <2>4
<1>5. PICK q \in [Receivers -> Nat], r \in [Receivers -> Nat] :
         q = Grown(received, v.name, a) /\ r = Grown(q, "miners", b)
         /\ received' = Grown(r, "treasury", c)
  <2>1. received \in [Receivers -> Nat] /\ "miners" \in Receivers /\ "treasury" \in Receivers
    BY DEF EscrowMoneyInv, EscrowTypeOK, Receivers
  <2> DEFINE name == v.name
             q == [received EXCEPT ![name] = received[name] + a]
             r == [q EXCEPT !["miners"] = q["miners"] + b]
             s == [r EXCEPT !["treasury"] = r["treasury"] + c]
  <2>2. name \in Receivers /\ name # "miners" /\ name # "treasury"
    BY <1>3, EscrowAssumption
  <2>3. received' = [received EXCEPT ![name] = @ + a, !["miners"] = @ + b,
                                     !["treasury"] = @ + c]
    BY Zenon DEF RedeemTollVoucher
  <2> HIDE DEF a, b, c, name
  <2>4. received' = [y \in Receivers |->
                      IF y = name THEN received[name] + a
                      ELSE IF y = "miners" THEN received["miners"] + b
                      ELSE IF y = "treasury" THEN received["treasury"] + c
                      ELSE received[y]]
    BY <2>1, <2>2, <2>3
  <2>5. q \in [Receivers -> Nat] /\ r \in [Receivers -> Nat] /\ s \in [Receivers -> Nat]
    <3>1. q \in [Receivers -> Nat]  BY <1>4, <2>1, <2>2
    <3> HIDE DEF q
    <3>2. r \in [Receivers -> Nat]  BY <1>4, <2>1, <3>1
    <3> HIDE DEF r
    <3>3. s \in [Receivers -> Nat]  BY <1>4, <2>1, <3>2
    <3> QED  BY <3>1, <3>2, <3>3
  <2>6. \A y \in Receivers : s[y] = received'[y]
    BY <2>1, <2>2, <2>4
  <2>7. s = received'
    <3> HIDE DEF s
    <3> QED  BY <2>4, <2>5, <2>6
  <2> QED  BY <2>5, <2>7, Zenon DEF name, Grown
<1>6. spent' = Created(spent, x, n) /\ x \notin DOMAIN spent
  <2>1. x \notin DOMAIN spent  BY <1>1 DEF EscrowMoneyInv, EscrowTypeOK
  <2>2. spent' = Created(spent, x, n + (IF Vacant(spent, x) THEN 0 ELSE spent[x]))
    BY Zenon DEF RedeemTollVoucher
  <2>3. n + (IF Vacant(spent, x) THEN 0 ELSE spent[x]) = n
    BY <1>3, <2>1 DEF Vacant
  <2> HIDE DEF x, n
  <2> QED  BY <2>1, <2>2, <2>3
<1> HIDE DEF x, a, b, c, n, payer
<1>7. received' \in [Receivers -> Nat] /\ SumFunction(received') = SumFunction(received) + n
  <2>1. received \in [Receivers -> Nat] /\ "miners" \in Receivers /\ "treasury" \in Receivers
    BY DEF EscrowMoneyInv, EscrowTypeOK, Receivers
  <2>2. /\ SumFunction(received) \in Int
        /\ SumFunction(q) = SumFunction(received) + a
    BY <1>3, <1>4, <1>5, <2>1, ReceivedGrows
  <2>3. SumFunction(r) = SumFunction(q) + b
    BY <1>4, <1>5, <2>1, ReceivedGrows
  <2>4. /\ received' \in [Receivers -> Nat]
        /\ SumFunction(received') = SumFunction(r) + c
    BY <1>4, <1>5, <2>1, ReceivedGrows
  <2> QED  BY <1>4, <2>2, <2>3, <2>4
<1>8. /\ IsFiniteSet(DOMAIN spent') /\ DOMAIN spent' = DOMAIN spent \cup {x}
      /\ spent'[x] = n /\ \A y \in DOMAIN spent : spent'[y] = spent[y]
  BY <1>3, <1>6, SpentGrows
<1>9. SumFunction(spent) \in Int /\ SumFunction(spent') = SumFunction(spent) + n
  BY <1>3, <1>6, SpentGrows
<1>10. /\ \A u : SumFunctionOnSet(spent, SpentBy(u)) \in Int
       /\ SumFunctionOnSet(spent', SpentBy(payer)')
            = SumFunctionOnSet(spent, SpentBy(payer)) + n
       /\ \A u : u # payer => SumFunctionOnSet(spent', SpentBy(u)')
                                = SumFunctionOnSet(spent, SpentBy(u))
  BY <1>2, <1>3, <1>6, SpentGrows
<1>11. /\ DOMAIN userEscrows' = DOMAIN userEscrows
       /\ \A u \in DOMAIN userEscrows :
            userEscrows'[u] = IF u = payer THEN userEscrows[u] - n ELSE userEscrows[u]
  BY <1>1
<1>12. \A u \in DOMAIN userEscrows' :
         userEscrows'[u] = deposited'[u] - SumFunctionOnSet(spent', SpentBy(u)')
  <2> SUFFICES ASSUME NEW u \in DOMAIN userEscrows
               PROVE  userEscrows'[u] = deposited[u] - SumFunctionOnSet(spent', SpentBy(u)')
    BY <1>1, <1>11
  <2>1. /\ userEscrows[u] \in Nat /\ deposited[u] \in Nat
        /\ userEscrows[u] = deposited[u] - SumFunctionOnSet(spent, SpentBy(u))
    BY EscrowVaults
  <2> QED  BY <1>3, <1>10, <1>11, <2>1
<1>13. EscrowConserved'
  <2>1. SumFunction(received') = SumFunction(spent')
    BY <1>7, <1>9 DEF EscrowMoneyInv, EscrowConserved
  <2> QED  BY <1>12, <2>1 DEF EscrowConserved, SpentBy
<1>14. \A u \in DOMAIN userEscrows' : userEscrows'[u] \in Nat
  BY <1>1, <1>3, <1>11, EscrowVaults
<1>15. DOMAIN spent' = DOMAIN redeemed'
  BY <1>1, <1>8 DEF Created, EscrowMoneyInv, EscrowTypeOK
<1>16. paidVouchers' \in [Vouchers -> Nat]
  BY <1>1 DEF EscrowMoneyInv, EscrowTypeOK
<1>17. EscrowTypeOK'
  BY <1>1, <1>7, <1>11, <1>14, <1>15, <1>16 DEF EscrowMoneyInv, EscrowTypeOK
<1>18. \A y \in DOMAIN spent' : spent'[y] \in Nat /\ y[1] \in DOMAIN userEscrows'
  BY <1>1, <1>2, <1>3, <1>8, <1>11 DEF EscrowMoneyInv
<1>19. \A u \in Keys \ DOMAIN userEscrows' : deposited'[u] = 0
  BY <1>1, <1>11 DEF EscrowMoneyInv
<1>20. escrowConfig' # None => escrowConfig' \in EscrowConfigType
  BY <1>1 DEF EscrowMoneyInv
<1> QED  BY <1>8, <1>13, <1>17, <1>18, <1>19, <1>20 DEF EscrowMoneyInv

\* A step in which no voucher is redeemed.
LEMMA EscrowFrame ==
  ASSUME EscrowMoneyInv, UNCHANGED <<redeemed, received, paidVouchers, spent>>,
         escrowConfig' # None => escrowConfig' \in EscrowConfigType,
         deposited' \in [Keys -> Nat],
         DOMAIN userEscrows \subseteq DOMAIN userEscrows', DOMAIN userEscrows' \subseteq Keys,
         \A u \in DOMAIN userEscrows' :
           /\ userEscrows'[u] \in Nat
           /\ userEscrows'[u] = deposited'[u] - SumFunctionOnSet(spent, SpentBy(u)),
         \A u \in Keys \ DOMAIN userEscrows' : deposited'[u] = 0
  PROVE  EscrowMoneyInv'
<1>1. EscrowTypeOK'  BY DEF EscrowMoneyInv, EscrowTypeOK
<1>2. EscrowConserved'  BY DEF EscrowMoneyInv, EscrowConserved, SpentBy
<1> QED  BY <1>1, <1>2 DEF EscrowMoneyInv

LEMMA InitEscrowKeeps ==
  ASSUME EscrowMoneyInv, NEW u \in Keys, InitUserEscrow(u)
  PROVE  EscrowMoneyInv'
<1>1. /\ u \notin DOMAIN userEscrows /\ userEscrows' = Created(userEscrows, u, 0)
      /\ UNCHANGED <<escrowConfig, domainOwners, redeemed, received, deposited,
                     paidVouchers, spent>>
  BY DEF InitUserEscrow, Vacant
<1>2. /\ DOMAIN userEscrows' = DOMAIN userEscrows \cup {u} /\ userEscrows'[u] = 0
      /\ \A w \in DOMAIN userEscrows : userEscrows'[w] = userEscrows[w]
  BY <1>1 DEF Created
<1>3. SpentBy(u) = {}  BY <1>1 DEF SpentBy, EscrowMoneyInv
<1>4. SumFunctionOnSet(spent, SpentBy(u)) = 0  BY <1>3, SumEmpty
<1>5. deposited[u] = 0  BY <1>1 DEF EscrowMoneyInv
<1>6. \A w \in DOMAIN userEscrows' :
        /\ userEscrows'[w] \in Nat
        /\ userEscrows'[w] = deposited'[w] - SumFunctionOnSet(spent, SpentBy(w))
  BY <1>1, <1>2, <1>4, <1>5, EscrowVaults
<1>7. deposited' \in [Keys -> Nat] /\ DOMAIN userEscrows' \subseteq Keys
  BY <1>1, <1>2 DEF EscrowMoneyInv, EscrowTypeOK
<1>8. \A w \in Keys \ DOMAIN userEscrows' : deposited'[w] = 0
  BY <1>1, <1>2 DEF EscrowMoneyInv
<1>9. escrowConfig' # None => escrowConfig' \in EscrowConfigType
  BY <1>1 DEF EscrowMoneyInv
<1> QED  BY <1>1, <1>2, <1>6, <1>7, <1>8, <1>9, EscrowFrame

LEMMA DepositKeeps ==
  ASSUME EscrowMoneyInv, NEW u \in Keys, NEW amount \in EscrowDeposits, Deposit(u, amount)
  PROVE  EscrowMoneyInv'
<1>1. /\ u \in DOMAIN userEscrows
      /\ userEscrows' = [userEscrows EXCEPT ![u] = userEscrows[u] + amount]
      /\ deposited' = [deposited EXCEPT ![u] = deposited[u] + amount]
      /\ UNCHANGED <<escrowConfig, domainOwners, redeemed, received, paidVouchers, spent>>
  BY DEF Deposit, DepositAccounts, Exists
<1>2. amount \in Nat /\ deposited \in [Keys -> Nat] /\ DOMAIN userEscrows \subseteq Keys
  BY EscrowAssumption DEF EscrowMoneyInv, EscrowTypeOK
<1>3. DOMAIN userEscrows' = DOMAIN userEscrows  BY <1>1
<1>4. deposited' \in [Keys -> Nat]  BY <1>1, <1>2
<1>5. ASSUME NEW w \in DOMAIN userEscrows'
      PROVE  /\ userEscrows'[w] \in Nat
             /\ userEscrows'[w] = deposited'[w] - SumFunctionOnSet(spent, SpentBy(w))
  <2> DEFINE s == SumFunctionOnSet(spent, SpentBy(w))
  <2>1. /\ userEscrows[w] \in Nat /\ deposited[w] \in Nat /\ userEscrows[w] = deposited[w] - s
    BY <1>3, EscrowVaults
  <2>2. s \in Int
    <3>1. IsFiniteSet(SpentBy(w))  BY FS_Subset DEF SpentBy, EscrowMoneyInv
    <3>2. \A y \in SpentBy(w) : spent[y] \in Int  BY DEF SpentBy, EscrowMoneyInv
    <3> QED  BY <3>1, <3>2, SumInt
  <2> HIDE DEF s
  <2>3. /\ userEscrows'[w] = IF w = u THEN userEscrows[w] + amount ELSE userEscrows[w]
        /\ deposited'[w] = IF w = u THEN deposited[w] + amount ELSE deposited[w]
    BY <1>1, <1>2, <1>3
  <2>4. userEscrows'[w] \in Nat /\ userEscrows'[w] = deposited'[w] - s
    BY <1>2, <2>1, <2>2, <2>3
  <2> QED  BY <2>4 DEF s
<1>6. \A w \in Keys \ DOMAIN userEscrows' : deposited'[w] = 0
  BY <1>1, <1>2, <1>3 DEF EscrowMoneyInv
<1>7. escrowConfig' # None => escrowConfig' \in EscrowConfigType
  BY <1>1 DEF EscrowMoneyInv
<1> QED  BY <1>1, <1>2, <1>3, <1>4, <1>5, <1>6, <1>7, EscrowFrame

\* The config and the owners of the domains: no money moves.
LEMMA EscrowConfigKeeps ==
  ASSUME EscrowMoneyInv, NEW c \in EscrowConfigType, EscrowInitConfig(c)
  PROVE  EscrowMoneyInv'
<1>1. /\ escrowConfig' = c
      /\ UNCHANGED <<userEscrows, domainOwners, redeemed, received, deposited,
                     paidVouchers, spent>>
  BY DEF EscrowInitConfig
<1> QED  BY <1>1 DEF EscrowMoneyInv, EscrowTypeOK, EscrowConserved

LEMMA EscrowOwnerKeeps ==
  ASSUME EscrowMoneyInv, NEW name, NEW k, RegisterDomainOwner(name, k)
  PROVE  EscrowMoneyInv'
<1>1. UNCHANGED <<escrowConfig, userEscrows, redeemed, received, deposited,
                  paidVouchers, spent>>
  BY DEF RegisterDomainOwner
<1> QED  BY <1>1 DEF EscrowMoneyInv, EscrowTypeOK, EscrowConserved

EscrowInstruction ==
  \/ \E c \in EscrowConfigType : EscrowInitConfig(c)
  \/ \E u \in Keys : InitUserEscrow(u)
  \/ \E u \in Keys, a \in EscrowDeposits : Deposit(u, a)
  \/ \E n, k : RegisterDomainOwner(n, k)
  \/ \E v \in Vouchers : RedeemTollVoucher(v)

LEMMA EscrowCommands ==
  ASSUME EscrowNext PROVE EscrowInstruction
<1>1. ASSUME NEW k \in Keys, NEW c \in EscrowConfigs, CliEscrowInit(k, c)
      PROVE  EscrowInstruction
  <2> DEFINE f == IF c.signers = {} THEN [c EXCEPT !.signers = {k}] ELSE c
  <2>1. c \in EscrowConfigType  BY EscrowAssumption
  <2>2. f \in EscrowConfigType  BY <2>1 DEF EscrowConfigType
  <2>3. EscrowInitConfig(f)  BY <1>1 DEF CliEscrowInit
  <2> HIDE DEF f
  <2> QED  BY <2>2, <2>3, Zenon DEF EscrowInstruction
<1>2. (\E c \in EscrowConfigs : EscrowInitConfig(c)) => EscrowInstruction
  <2>1. EscrowConfigs \subseteq EscrowConfigType  BY EscrowAssumption
  <2> QED  BY <2>1, Zenon DEF EscrowInstruction
<1>3. EscrowCli => EscrowInstruction
  BY <1>1, Zenon DEF EscrowCli, CliEscrowDeposit, CliDomainOwnerRegister, CliVoucherRedeem,
     EscrowInstruction
<1> QED  BY <1>2, <1>3, Zenon DEF EscrowNext, EscrowInstruction

LEMMA EscrowStep ==
  ASSUME EscrowMoneyInv, [EscrowNext]_escrowVars PROVE EscrowMoneyInv'
<1>1. CASE UNCHANGED escrowVars
  BY <1>1 DEF escrowVars, EscrowMoneyInv, EscrowTypeOK, EscrowConserved
<1>2. CASE EscrowNext
  <2>1. EscrowInstruction  BY <1>2, EscrowCommands
  <2> QED  BY <2>1, Zenon, EscrowConfigKeeps, InitEscrowKeeps, DepositKeeps,
              EscrowOwnerKeeps, RedeemKeeps DEF EscrowInstruction
<1> QED  BY <1>1, <1>2

LEMMA EscrowStart ==
  ASSUME EscrowInit PROVE EscrowMoneyInv
<1>1. /\ escrowConfig = None /\ DOMAIN userEscrows = {} /\ DOMAIN redeemed = {}
      /\ received = [x \in Receivers |-> 0] /\ deposited = [k \in Keys |-> 0]
      /\ paidVouchers = [v \in Vouchers |-> 0] /\ DOMAIN spent = {}
  BY DEF EscrowInit, NoAccounts
<1>2. SumFunction(spent) = 0
  <2>1. IsFiniteSet(DOMAIN spent) /\ \A k \in DOMAIN spent : spent[k] = 0
    BY <1>1, FS_EmptySet
  <2> QED  BY <2>1, SumZero
<1>3. SumFunction(received) = 0
  <2>1. IsFiniteSet(EscrowNames \cup {"miners"})  BY EscrowAssumption, FS_AddElement
  <2>2. Receivers = (EscrowNames \cup {"miners"}) \cup {"treasury"}  BY DEF Receivers
  <2>3. IsFiniteSet(DOMAIN received) /\ \A k \in DOMAIN received : received[k] = 0
    BY <1>1, <2>1, <2>2, FS_AddElement
  <2> QED  BY <2>3, SumZero
<1>4. IsFiniteSet(DOMAIN spent)  BY <1>1, FS_EmptySet
<1> QED  BY <1>1, <1>2, <1>3, <1>4 DEF EscrowMoneyInv, EscrowTypeOK, EscrowConserved

=============================================================================
