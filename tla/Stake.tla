------------------------------- MODULE Stake -------------------------------
(***************************************************************************)
(* The stake program (solana/programs/ddns_stake): one lamport vault, one  *)
(* position per owner, and rewards minted per epoch in proportion to the   *)
(* stake.  Rewards are computed when they are claimed, from the stake and  *)
(* the total of that moment.                                               *)
(***************************************************************************)
EXTENDS SolanaChain, Functions

CONSTANTS StakeConfigs,  \* arguments of init_stake_config that may be tried
          StakeAmounts,  \* lamports of stake and unstake
          StakeMax       \* bound on total_stake

StakeConfigType ==
  [authority: Keys, epochLen: Nat, rate: Nat, minLock: Nat, total: Nat]

ASSUME StakeAssumption ==
  /\ StakeConfigs \subseteq [epochLen: Nat, rate: Nat, minLock: Nat]
  /\ None \notin StakeConfigType
  /\ StakeAmounts \subseteq Nat /\ StakeMax \in Nat

VARIABLES stakeConfig,     \* StakeConfig, None before init_stake_config
          stakePositions,  \* StakePosition by owner
          stakeVault,      \* lamports in the vault, above its rent
          stakeMinted,     \* history: reward tokens minted
          stakeChurned     \* history: stakes moved while rewards were owed

stakeVars == <<stakeConfig, stakePositions, stakeVault, stakeMinted, stakeChurned>>

StakeInit ==
  /\ stakeConfig = None /\ stakePositions = NoAccounts /\ stakeVault = 0
  /\ stakeMinted = 0 /\ stakeChurned = FALSE

StakeInitConfig(authority, c) ==
  /\ stakeConfig = None /\ c.epochLen > 0
  /\ stakeConfig' = [authority |-> authority, epochLen |-> c.epochLen,
                     rate |-> c.rate, minLock |-> c.minLock, total |-> 0]
  /\ UNCHANGED <<stakePositions, stakeVault, stakeMinted, stakeChurned>>

StakeEpoch == EpochOf(stakeConfig.epochLen)

\* history: somebody has not claimed for an epoch that is over.
StakeOwes ==
  \E s \in DOMAIN stakePositions :
    stakePositions[s].staked > 0 /\ stakePositions[s].lastClaimed < StakeEpoch

StakeMoved(s, position, total) ==
  /\ stakePositions' = Created(stakePositions, s, position)
  /\ stakeConfig' = [stakeConfig EXCEPT !.total = total]
  /\ stakeVault' = stakeVault + total - stakeConfig.total
  /\ stakeChurned' = (stakeChurned \/ StakeOwes)
  /\ UNCHANGED stakeMinted

\* init_if_needed: the position as it is found, or all zeros.
StakePositionOf(s) ==
  IF Exists(stakePositions, s) THEN stakePositions[s]
  ELSE [staked |-> 0, lastClaimed |-> 0, lockedUntil |-> 0, delegate |-> None]

StakeStakeMut(s, amount) ==
  /\ stakeConfig # None /\ amount > 0 /\ stakeConfig.total + amount <= StakeMax
  /\ StakeMoved(s, [StakePositionOf(s) EXCEPT
       !.staked = @ + amount,
       !.lockedUntil = Greater(@, StakeEpoch + stakeConfig.minLock)],
       stakeConfig.total + amount)
\* A position without stake starts anew but keeps its lock.
StakeStake(s, amount) ==
  /\ stakeConfig # None /\ amount > 0 /\ stakeConfig.total + amount <= StakeMax
  /\ LET found == StakePositionOf(s)
         p == IF found.staked > 0 THEN found
              ELSE [found EXCEPT !.lastClaimed = StakeEpoch, !.delegate = None]
     IN StakeMoved(s, [p EXCEPT
          !.staked = @ + amount,
          !.lockedUntil = Greater(@, StakeEpoch + stakeConfig.minLock)],
          stakeConfig.total + amount)

StakeOwnerSigns(s) == Exists(stakePositions, s)

StakeUnstakeMut(s, amount) ==
  /\ StakeOwnerSigns(s) /\ amount > 0
  /\ StakeEpoch >= stakePositions[s].lockedUntil
  /\ StakeMoved(s, [stakePositions[s] EXCEPT !.staked = @ - amount],
                stakeConfig.total - amount)
\* Rewards not claimed yet stay with the position.
StakeUnstake(s, amount) ==
  /\ StakeOwnerSigns(s) /\ amount > 0
  /\ StakeEpoch >= stakePositions[s].lockedUntil
  /\ stakePositions[s].staked >= amount
  /\ stakeConfig.total >= amount /\ stakeVault >= amount
  /\ StakeMoved(s, [stakePositions[s] EXCEPT !.staked = @ - amount],
                stakeConfig.total - amount)

StakeClaimRewards(s) ==
  /\ StakeOwnerSigns(s)
  /\ LET p == stakePositions[s]
         epochs == StakeEpoch - p.lastClaimed
         reward == (stakeConfig.rate * epochs * p.staked) \div stakeConfig.total
     IN /\ stakeConfig.total > 0 /\ p.staked > 0 /\ epochs > 0 /\ reward > 0
        /\ stakeMinted' = stakeMinted + reward
        /\ stakePositions' = [stakePositions EXCEPT ![s].lastClaimed = StakeEpoch]
  /\ UNCHANGED <<stakeConfig, stakeVault, stakeChurned>>

StakeDelegate(s, verifier) ==
  /\ StakeOwnerSigns(s)
  /\ stakePositions' = [stakePositions EXCEPT ![s].delegate = verifier]
  /\ UNCHANGED <<stakeConfig, stakeVault, stakeMinted, stakeChurned>>

\* The commands of solana/scripts/stake.ts, run by the wallet k.
CliStakeInit(k, c) == stakeConfig = None /\ StakeInitConfig(k, c)
CliStakeReady == stakeConfig # None
CliStakeStake(k, amount) == CliStakeReady /\ StakeStake(k, amount)
CliStakeUnstake(k, amount) == CliStakeReady /\ StakeUnstake(k, amount)
CliStakeDelegate(k, v) == CliStakeReady /\ StakeDelegate(k, v)
CliStakeClaim(k) == CliStakeReady /\ StakeClaimRewards(k)

StakeCli ==
  \E k \in Keys :
    \/ \E c \in StakeConfigs : CliStakeInit(k, c)
    \/ \E a \in StakeAmounts : CliStakeStake(k, a) \/ CliStakeUnstake(k, a)
    \/ \E v \in Keys : CliStakeDelegate(k, v)
    \/ CliStakeClaim(k)

StakeNext ==
  \/ \E k \in Keys, c \in StakeConfigs : StakeInitConfig(k, c)
  \/ \E s \in Keys, a \in StakeAmounts : StakeStake(s, a)
  \/ \E s \in Keys, a \in StakeAmounts : StakeUnstake(s, a)
  \/ \E s \in Keys : StakeClaimRewards(s)
  \/ \E s, v \in Keys : StakeDelegate(s, v)
  \/ StakeCli

StakeSpec ==
  ChainInit /\ StakeInit
  /\ [][(StakeNext /\ UNCHANGED slot) \/ (NewSlot /\ UNCHANGED stakeVars)]_<<slot, stakeVars>>

-----------------------------------------------------------------------------
StakePosition ==
  [staked: Nat, lastClaimed: Nat, lockedUntil: Nat, delegate: Keys \cup {None}]

StakeTypeOK ==
  /\ DOMAIN stakePositions \subseteq Keys
  /\ \A s \in DOMAIN stakePositions : stakePositions[s] \in StakePosition
  /\ stakeVault \in Nat /\ stakeMinted \in Nat

StakeStakes == [s \in DOMAIN stakePositions |-> stakePositions[s].staked]

\* The vault and total_stake are both the sum of the positions: no unstake
\* finds the vault short, and no reward is divided by a total that lags.
StakeBacked ==
  stakeConfig # None =>
    /\ stakeVault = stakeConfig.total
    /\ stakeConfig.total = SumFunction(StakeStakes)

\* No more is minted than the rate allows for the epochs that are over, as long
\* as no stake moves while rewards are owed.  claim_rewards applies the present
\* shares to past epochs, so without the condition it does not hold.
StakeEmissionBounded ==
  stakeConfig # None /\ ~stakeChurned =>
    stakeMinted <= stakeConfig.rate * StakeEpoch
=============================================================================
