---------------------------- MODULE RewardProofs ----------------------------
(***************************************************************************)
(* Theorems about the programs that reward: miners, operators, name        *)
(* servers and witnesses are paid once for what they did in an epoch.      *)
(* With them, the theorems about all programs together.                    *)
(***************************************************************************)
EXTENDS MoneyProofs

-----------------------------------------------------------------------------
(***************************************************************************)
(* Arithmetic of scores.                                                   *)
(***************************************************************************)

LEMMA QuotientBounded ==
  ASSUME NEW a \in Nat, NEW b \in Nat, NEW c \in Nat, c > 0, a <= b * c
  PROVE  a \div c \in 0..b
<1> DEFINE q == a \div c
<1>1. q \in Nat /\ c * q <= a  OBVIOUS
<1> HIDE DEF q
<1>2. q <= b
  <2> SUFFICES ASSUME q >= b + 1 PROVE FALSE  BY <1>1
  <2>1. c * q >= c * (b + 1)  BY <1>1
  <2>2. c * (b + 1) = b * c + c  OBVIOUS
  <2>3. c * q \in Nat /\ b * c \in Nat  BY <1>1
  <2> QED  BY <1>1, <2>1, <2>2, <2>3
<1> QED  BY <1>1, <1>2 DEF q

LEMMA ProductBounded ==
  ASSUME NEW a \in Nat, NEW b \in Nat, NEW c \in Nat, a <= b
  PROVE  a * c \in Nat /\ a * c <= b * c /\ c * a \in Nat /\ c * a <= c * b
OBVIOUS

LEMMA ScaledBounded ==
  ASSUME NEW a \in Nat, NEW bps \in 0..BpsDenom
  PROVE  MulBps(a, bps) \in 0..a
<1>1. bps \in Nat /\ bps <= BpsDenom  BY DEF BpsDenom
<1>2. MulBps(a, bps) \in Nat /\ MulBps(a, bps) <= a  BY <1>1, ShareOfAmount
<1> QED  BY <1>2

-----------------------------------------------------------------------------
(***************************************************************************)
(* The miner score program.                                                *)
(***************************************************************************)

LEMMA TimelinessBounded ==
  ASSUME scoreConfig \in ScoreConfigType, scoreConfig.epochLen > 0,
         NEW e \in Nat, NEW first \in Nat
  PROVE  Timeliness(e, first) \in 0..BpsDenom
<1> DEFINE len == scoreConfig.epochLen
           start == e * len
           late == Greater(first, start) - start
           left == SaturatingSub(len, late)
<1>1. len \in Nat /\ len > 0  BY DEF ScoreConfigType
<1>2. start \in Nat  BY <1>1
<1> HIDE DEF len, start
<1>3. late \in Nat  BY <1>2 DEF Greater
<1> HIDE DEF late
<1>4. left \in Nat /\ left <= len  BY <1>1, <1>3 DEF SaturatingSub
<1> HIDE DEF left
<1>5. left * BpsDenom \in Nat /\ left * BpsDenom <= BpsDenom * len
  BY <1>1, <1>4 DEF BpsDenom
<1>6. (left * BpsDenom) \div len \in 0..BpsDenom
  <2>1. BpsDenom \in Nat  BY DEF BpsDenom
  <2> DEFINE a == left * BpsDenom
  <2> HIDE DEF a
  <2>2. a \div len \in 0..BpsDenom
    <3>1. a \in Nat /\ a <= BpsDenom * len  BY <1>5 DEF a
    <3> QED  BY <1>1, <2>1, <3>1, QuotientBounded
  <2> QED  BY <2>2 DEF a
<1>7. Timeliness(e, first) = (left * BpsDenom) \div len
  BY DEF Timeliness, left, late, start, len
<1> QED  BY <1>6, <1>7

LEMMA DiversityBounded ==
  ASSUME scoreConfig \in ScoreConfigType, scoreConfig.diversityTarget > 0, NEW n \in Nat
  PROVE  Diversity(n) \in 0..BpsDenom
<1> DEFINE q == (n * BpsDenom) \div scoreConfig.diversityTarget
<1>1. q \in Nat
  <2>1. n * BpsDenom \in Nat  BY DEF BpsDenom
  <2>2. scoreConfig.diversityTarget \in Nat  BY DEF ScoreConfigType
  <2> QED  BY <2>1, <2>2
<1>2. Diversity(n) = Lesser(BpsDenom, q)  BY DEF Diversity
<1> HIDE DEF q
<1> QED  BY <1>1, <1>2 DEF Lesser, BpsDenom

ScoreReport ==
  [stakeWeight: Nat, names: Nat, first: Nat, uptime: Nat, correctness: Nat, dominance: Nat]

\* The weights add up to one and every part is at most one, so a raw score is
\* at most the stake weight, times the denominator.
LEMMA RawScoreBounded ==
  ASSUME scoreConfig \in ScoreConfigType, ScoreConfigValid(scoreConfig), NEW e \in Nat,
         NEW r \in ScoreReport, r.uptime <= BpsDenom, r.correctness <= BpsDenom
  PROVE  RawScore(e, r) \in 0..(r.stakeWeight * BpsDenom)
<1> DEFINE c == scoreConfig
           d == Diversity(r.names)
           t == Timeliness(e, r.first)
           w1 == c.alphaCorrectness * r.correctness
           w2 == c.alphaUptime * r.uptime
           w3 == c.alphaDiversity * d
           w4 == c.alphaTimeliness * t
           weighted == w1 + w2 + w3 + w4
           weight == weighted \div BpsDenom
           score == r.stakeWeight * weight
<1>1. /\ c.alphaCorrectness \in Nat /\ c.alphaUptime \in Nat /\ c.alphaDiversity \in Nat
      /\ c.alphaTimeliness \in Nat /\ c.penalty \in Nat /\ c.penalty <= BpsDenom
      /\ c.alphaCorrectness + c.alphaUptime + c.alphaDiversity + c.alphaTimeliness = BpsDenom
      /\ c.epochLen > 0 /\ c.diversityTarget > 0
  BY DEF ScoreConfigType, ScoreConfigValid, BpsDenom
<1>2. /\ r.uptime \in Nat /\ r.correctness \in Nat /\ r.stakeWeight \in Nat
      /\ r.names \in Nat /\ r.first \in Nat
  BY DEF ScoreReport
<1>3. t \in 0..BpsDenom  BY <1>1, <1>2, TimelinessBounded
<1>4. d \in 0..BpsDenom  BY <1>1, <1>2, DiversityBounded
<1>5. BpsDenom \in Nat /\ BpsDenom > 0  BY DEF BpsDenom
<1> HIDE DEF d, t
<1>6. w1 \in Nat /\ w1 <= c.alphaCorrectness * BpsDenom
  <2> DEFINE x == c.alphaCorrectness
             y == r.correctness
  <2>1. x \in Nat /\ y \in Nat /\ y <= BpsDenom  BY <1>1, <1>2
  <2> HIDE DEF x, y
  <2>2. x * y \in Nat /\ x * y <= x * BpsDenom  BY <1>5, <2>1, ProductBounded
  <2> QED  BY <2>2 DEF x, y
<1>7. w2 \in Nat /\ w2 <= c.alphaUptime * BpsDenom
  <2> DEFINE x == c.alphaUptime
             y == r.uptime
  <2>1. x \in Nat /\ y \in Nat /\ y <= BpsDenom  BY <1>1, <1>2
  <2> HIDE DEF x, y
  <2>2. x * y \in Nat /\ x * y <= x * BpsDenom  BY <1>5, <2>1, ProductBounded
  <2> QED  BY <2>2 DEF x, y
<1>8. w3 \in Nat /\ w3 <= c.alphaDiversity * BpsDenom
  <2> DEFINE x == c.alphaDiversity
  <2>1. x \in Nat /\ d \in Nat /\ d <= BpsDenom  BY <1>1, <1>4
  <2> HIDE DEF x
  <2>2. x * d \in Nat /\ x * d <= x * BpsDenom  BY <1>5, <2>1, ProductBounded
  <2> QED  BY <2>2 DEF x
<1>9. w4 \in Nat /\ w4 <= c.alphaTimeliness * BpsDenom
  <2> DEFINE x == c.alphaTimeliness
  <2>1. x \in Nat /\ t \in Nat /\ t <= BpsDenom  BY <1>1, <1>3
  <2> HIDE DEF x
  <2>2. x * t \in Nat /\ x * t <= x * BpsDenom  BY <1>5, <2>1, ProductBounded
  <2> QED  BY <2>2 DEF x
<1> HIDE DEF w1, w2, w3, w4
<1>10. weighted \in Nat /\ weighted <= BpsDenom * BpsDenom
  <2> DEFINE x1 == c.alphaCorrectness
             x2 == c.alphaUptime
             x3 == c.alphaDiversity
             x4 == c.alphaTimeliness
  <2>1. x1 \in Nat /\ x2 \in Nat /\ x3 \in Nat /\ x4 \in Nat /\ x1 + x2 + x3 + x4 = BpsDenom
    BY <1>1
  <2>2. w1 <= x1 * BpsDenom /\ w2 <= x2 * BpsDenom /\ w3 <= x3 * BpsDenom /\ w4 <= x4 * BpsDenom
    BY <1>6, <1>7, <1>8, <1>9
  <2> HIDE DEF x1, x2, x3, x4
  <2> QED  BY <1>6, <1>7, <1>8, <1>9, <2>1, <2>2 DEF BpsDenom
<1> HIDE DEF weighted
<1>11. weight \in 0..BpsDenom  BY <1>5, <1>10, QuotientBounded
<1> HIDE DEF weight
<1>12. score \in Nat /\ score <= r.stakeWeight * BpsDenom
  <2> DEFINE x == r.stakeWeight
  <2>1. x \in Nat /\ weight \in Nat /\ weight <= BpsDenom  BY <1>2, <1>11
  <2> HIDE DEF x
  <2>2. x * weight \in Nat /\ x * weight <= x * BpsDenom
    BY <1>5, <2>1, ProductBounded
  <2> QED  BY <2>2 DEF x
<1> HIDE DEF score
<1>13. MulBps(score, BpsDenom - c.penalty) \in 0..score
  <2> DEFINE p == c.penalty
  <2>1. p \in Nat /\ p <= BpsDenom  BY <1>1
  <2> HIDE DEF p
  <2>2. BpsDenom - p \in 0..BpsDenom  BY <2>1 DEF BpsDenom
  <2>3. MulBps(score, BpsDenom - p) \in 0..score  BY <1>12, <2>2, ScaledBounded
  <2> QED  BY <2>3 DEF p
<1>14. RawScore(e, r) = IF r.dominance > c.threshold
                        THEN MulBps(score, BpsDenom - c.penalty) ELSE score
  BY DEF RawScore, score, weight, weighted, w1, w2, w3, w4, d, t
<1>15. r.stakeWeight * BpsDenom \in Nat  BY <1>2 DEF BpsDenom
<1> DEFINE bound == r.stakeWeight * BpsDenom
           raw == RawScore(e, r)
<1> HIDE DEF bound, raw
<1>16. raw \in 0..score  BY <1>12, <1>13, <1>14 DEF raw
<1>17. bound \in Nat /\ score <= bound  BY <1>12, <1>15 DEF bound
<1>18. raw \in 0..bound  BY <1>12, <1>16, <1>17
<1> QED  BY <1>18 DEF raw, bound

MinerStats ==
  [stakeWeight: Nat, correctness: Nat, raw: Nat, normalized: Nat, reward: Nat,
   claimed: BOOLEAN]

\* What stands in the statistics of a miner: a score within its stake weight,
\* and a reward within the cap, only for a finalized epoch.
StatsSettled(r, e) ==
  /\ r \in MinerStats /\ r.raw <= r.stakeWeight * BpsDenom
  /\ r.reward <= scoreConfig.cap /\ (r.reward > 0 => e \in epochTotals)

ScoreInv ==
  /\ scoreConfig # None => scoreConfig \in ScoreConfigType /\ ScoreConfigValid(scoreConfig)
  /\ scoreConfig = None => DOMAIN minerEpochs = {}
  /\ scoreVault \in Nat /\ scoreFunded \in Nat
  /\ DOMAIN minerEpochs \subseteq ScoreEpochs \X Keys
  /\ \A s \in DOMAIN minerEpochs : StatsSettled(minerEpochs[s], s[1])
  /\ IsFiniteSet(DOMAIN claimReceipts) /\ DOMAIN claimReceipts \subseteq DOMAIN minerEpochs
  /\ \A s \in DOMAIN claimReceipts : claimReceipts[s] \in Nat
  /\ RewardsPaidOnce

LEMMA ScoreInvTypes == ASSUME ScoreInv PROVE ScoreTypeOK
<1>1. ASSUME NEW s \in DOMAIN minerEpochs
      PROVE  minerEpochs[s].raw \in 0..(minerEpochs[s].stakeWeight * BpsDenom)
  <2> DEFINE x == minerEpochs[s].stakeWeight
             y == minerEpochs[s].raw
  <2>1. x \in Nat /\ y \in Nat /\ y <= x * BpsDenom
    BY DEF ScoreInv, StatsSettled, MinerStats
  <2> HIDE DEF x, y
  <2>2. x * BpsDenom \in Nat  BY <2>1 DEF BpsDenom
  <2> DEFINE z == x * BpsDenom
  <2> HIDE DEF z
  <2>3. z \in Nat /\ y <= z  BY <2>1, <2>2 DEF z
  <2>4. y \in 0..z  BY <2>1, <2>3
  <2> QED  BY <2>4 DEF x, y, z
<1> QED  BY <1>1 DEF ScoreInv, ScoreTypeOK

LEMMA ReceiptsAre ==
  ASSUME ScoreInv
  PROVE  /\ scoreVault + SumFunction(claimReceipts) = scoreFunded
         /\ SumFunction(claimReceipts) \in Int /\ scoreVault \in Nat /\ scoreFunded \in Nat
         /\ \A s \in DOMAIN claimReceipts :
              /\ s \in DOMAIN minerEpochs /\ s[1] \in epochTotals /\ minerEpochs[s].claimed
              /\ claimReceipts[s] = minerEpochs[s].reward
              /\ claimReceipts[s] \in 1..scoreConfig.cap
<1>1. SumFunction(claimReceipts) \in Int
  <2>1. IsFiniteSet(DOMAIN claimReceipts) /\ \A s \in DOMAIN claimReceipts : claimReceipts[s] \in Int
    BY DEF ScoreInv
  <2> QED  BY <2>1, SumInt, SumAll
<1> QED  BY <1>1 DEF ScoreInv, RewardsPaidOnce

\* The statistics of one miner, not yet claimed, are written.
LEMMA ScoreWrites ==
  ASSUME ScoreInv, scoreConfig # None,
         UNCHANGED <<scoreConfig, epochTotals, claimReceipts, scoreVault, scoreFunded>>,
         NEW x \in ScoreEpochs \X Keys, x \notin DOMAIN claimReceipts,
         DOMAIN minerEpochs' = DOMAIN minerEpochs \cup {x},
         NEW n, StatsSettled(n, x[1]), minerEpochs'[x] = n,
         \A s \in DOMAIN minerEpochs \ {x} : minerEpochs'[s] = minerEpochs[s]
  PROVE  ScoreInv'
<1>1. RewardsPaidOnce'
  <2>1. scoreVault' + SumFunction(claimReceipts') = scoreFunded'  BY ReceiptsAre
  <2>2. \A s \in DOMAIN claimReceipts :
          s \in DOMAIN minerEpochs /\ minerEpochs'[s] = minerEpochs[s]
    BY ReceiptsAre
  <2> QED  BY <2>1, <2>2, ReceiptsAre DEF RewardsPaidOnce
<1>2. \A s \in DOMAIN minerEpochs' : StatsSettled(minerEpochs[s], s[1])'
  BY DEF ScoreInv, StatsSettled
<1> QED  BY <1>1, <1>2 DEF ScoreInv, ScoreConfigValid

\* Nothing but the totals and the money that was put in changes.
LEMMA ScoreFrame ==
  ASSUME ScoreInv, UNCHANGED <<scoreConfig, minerEpochs, claimReceipts>>,
         epochTotals \subseteq epochTotals',
         NEW n \in Nat, scoreVault' = scoreVault + n, scoreFunded' = scoreFunded + n
  PROVE  ScoreInv'
<1>1. RewardsPaidOnce'
  BY ReceiptsAre DEF RewardsPaidOnce
<1>2. \A s \in DOMAIN minerEpochs' : StatsSettled(minerEpochs[s], s[1])'
  BY DEF ScoreInv, StatsSettled
<1> QED  BY <1>1, <1>2 DEF ScoreInv, ScoreConfigValid

LEMMA ScoreConfigKeeps ==
  ASSUME ScoreInv, NEW c \in ScoreConfigType, InitMinerScoreConfig(c)
  PROVE  ScoreInv'
<1>1. /\ scoreConfig = None /\ scoreConfig' = c /\ ScoreConfigValid(c)
      /\ UNCHANGED <<minerEpochs, epochTotals, claimReceipts, scoreVault, scoreFunded>>
  BY DEF InitMinerScoreConfig
<1>2. DOMAIN minerEpochs = {} /\ DOMAIN claimReceipts = {}
  BY <1>1 DEF ScoreInv
<1>3. RewardsPaidOnce'  BY <1>1, <1>2 DEF ScoreInv, RewardsPaidOnce
<1>4. scoreConfig' \in ScoreConfigType /\ ScoreConfigValid(scoreConfig')
  BY <1>1 DEF ScoreConfigValid
<1>5. scoreConfig' # None  BY <1>4, ScoreAssumption
<1> QED  BY <1>1, <1>2, <1>3, <1>4, <1>5 DEF ScoreInv, ScoreConfigValid

LEMMA ReportKeeps ==
  ASSUME ScoreInv, NEW k, NEW e \in ScoreEpochs, NEW m \in Keys, NEW r \in ScoreReports,
         ReportMinerEpochStats(k, e, m, r)
  PROVE  ScoreInv'
<1> DEFINE x == <<e, m>>
           n == MinerEpochStats(e, r)
<1>1. /\ scoreConfig # None /\ x \notin DOMAIN minerEpochs
      /\ r.uptime <= BpsDenom /\ r.correctness <= BpsDenom
      /\ minerEpochs' = Created(minerEpochs, x, n)
      /\ UNCHANGED <<scoreConfig, epochTotals, claimReceipts, scoreVault, scoreFunded>>
  BY DEF ReportMinerEpochStats, SubmitterSigns, Vacant
<1>2. x \in ScoreEpochs \X Keys /\ x[1] = e  OBVIOUS
<1>3. r \in ScoreReport /\ e \in Nat  BY ScoreAssumption DEF ScoreReport
<1>4. RawScore(e, r) \in 0..(r.stakeWeight * BpsDenom)
  BY <1>1, <1>3, RawScoreBounded DEF ScoreInv
<1>5. StatsSettled(n, e)
  <2> DEFINE raw == RawScore(e, r)
             weight == r.stakeWeight
             bound == weight * BpsDenom
  <2>1. n = [stakeWeight |-> weight, correctness |-> r.correctness, raw |-> raw,
             normalized |-> 0, reward |-> 0, claimed |-> FALSE]
    BY DEF MinerEpochStats
  <2>2. weight \in Nat /\ r.correctness \in Nat  BY <1>3 DEF ScoreReport
  <2>3. scoreConfig.cap \in Nat  BY <1>1 DEF ScoreInv, ScoreConfigType
  <2>4. raw \in 0..bound  BY <1>4
  <2> HIDE DEF raw, weight
  <2>5. bound \in Nat  BY <2>2 DEF BpsDenom
  <2> HIDE DEF bound
  <2>6. raw \in Nat /\ raw <= bound  BY <2>4, <2>5
  <2>7. n \in MinerStats  BY <2>1, <2>2, <2>6 DEF MinerStats
  <2>8. n.raw <= n.stakeWeight * BpsDenom  BY <2>1, <2>6 DEF bound
  <2>9. n.reward = 0  BY <2>1
  <2> HIDE DEF n
  <2> QED  BY <2>3, <2>7, <2>8, <2>9 DEF StatsSettled
<1> HIDE DEF x, n
<1>6. /\ DOMAIN minerEpochs' = DOMAIN minerEpochs \cup {x} /\ minerEpochs'[x] = n
      /\ \A s \in DOMAIN minerEpochs \ {x} : minerEpochs'[s] = minerEpochs[s]
  BY <1>1 DEF Created
<1>7. x \notin DOMAIN claimReceipts  BY <1>1 DEF ScoreInv
<1> QED  BY <1>1, <1>2, <1>5, <1>6, <1>7, ScoreWrites

LEMMA FinalizeKeeps ==
  ASSUME ScoreInv, NEW k, NEW e, FinalizeMinerEpoch(k, e)
  PROVE  ScoreInv'
<1>1. /\ UNCHANGED <<scoreConfig, minerEpochs, claimReceipts, scoreVault, scoreFunded>>
      /\ epochTotals' = epochTotals \cup {e}
  BY DEF FinalizeMinerEpoch
<1>2. scoreVault' = scoreVault + 0 /\ scoreFunded' = scoreFunded + 0
  BY <1>1, ReceiptsAre
<1> QED  BY <1>1, <1>2, ScoreFrame

LEMMA ScoreFundKeeps ==
  ASSUME ScoreInv, NEW a \in ScoreFunding, FundScoreVault(a)
  PROVE  ScoreInv'
<1>1. /\ UNCHANGED <<scoreConfig, minerEpochs, claimReceipts, epochTotals>>
      /\ scoreVault' = scoreVault + a /\ scoreFunded' = scoreFunded + a
  BY DEF FundScoreVault
<1>2. a \in Nat  BY ScoreAssumption
<1> QED  BY <1>1, <1>2, ScoreFrame

\* What the statistics are that an instruction may write to.
LEMMA OpenStatsAre ==
  ASSUME ScoreInv, NEW k, NEW e, NEW m, OpenStats(k, e, m)
  PROVE  /\ scoreConfig # None /\ <<e, m>> \in DOMAIN minerEpochs
         /\ <<e, m>> \in ScoreEpochs \X Keys /\ <<e, m>> \notin DOMAIN claimReceipts
         /\ StatsSettled(minerEpochs[<<e, m>>], e)
<1> DEFINE x == <<e, m>>
<1>1. x \in DOMAIN minerEpochs /\ ~minerEpochs[x].claimed /\ scoreConfig # None
  BY DEF OpenStats, SubmitterSigns, Exists
<1>2. x[1] = e  OBVIOUS
<1> HIDE DEF x
<1>3. x \in ScoreEpochs \X Keys /\ StatsSettled(minerEpochs[x], e)
  BY <1>1, <1>2 DEF ScoreInv
<1>4. x \notin DOMAIN claimReceipts  BY <1>1, ReceiptsAre
<1> QED  BY <1>1, <1>3, <1>4 DEF x

Rewarded(p, n) == [p EXCEPT !.normalized = n, !.reward = n]
PenaltyOf(p, a, b, c, d) ==
  [p EXCEPT !.correctness = a, !.raw = b, !.normalized = c, !.reward = d]

LEMMA RewardedIs ==
  ASSUME NEW p \in MinerStats, NEW n \in Nat
  PROVE  /\ Rewarded(p, n) \in MinerStats
         /\ Rewarded(p, n).raw = p.raw /\ Rewarded(p, n).stakeWeight = p.stakeWeight
         /\ Rewarded(p, n).reward = n
<1>1. Rewarded(p, n) \in MinerStats  BY DEF Rewarded, MinerStats
<1>2. Rewarded(p, n).raw = p.raw  BY DEF Rewarded, MinerStats
<1>3. Rewarded(p, n).stakeWeight = p.stakeWeight  BY DEF Rewarded, MinerStats
<1>4. Rewarded(p, n).reward = n  BY DEF Rewarded, MinerStats
<1> QED  BY <1>1, <1>2, <1>3, <1>4

LEMMA PenaltyIs ==
  ASSUME NEW p \in MinerStats, NEW a \in Nat, NEW b \in Nat, NEW c \in Nat, NEW d \in Nat
  PROVE  /\ PenaltyOf(p, a, b, c, d) \in MinerStats
         /\ PenaltyOf(p, a, b, c, d).raw = b
         /\ PenaltyOf(p, a, b, c, d).stakeWeight = p.stakeWeight
         /\ PenaltyOf(p, a, b, c, d).reward = d
<1>1. PenaltyOf(p, a, b, c, d) \in MinerStats  BY DEF PenaltyOf, MinerStats
<1>2. PenaltyOf(p, a, b, c, d).raw = b  BY DEF PenaltyOf, MinerStats
<1>3. PenaltyOf(p, a, b, c, d).stakeWeight = p.stakeWeight  BY DEF PenaltyOf, MinerStats
<1>4. PenaltyOf(p, a, b, c, d).reward = d  BY DEF PenaltyOf, MinerStats
<1> QED  BY <1>1, <1>2, <1>3, <1>4, Zenon

\* One account written with statistics that are settled.
LEMMA ScoreUpdates ==
  ASSUME ScoreInv, NEW k, NEW e, NEW m, OpenStats(k, e, m), NEW n, StatsSettled(n, e),
         minerEpochs' = [minerEpochs EXCEPT ![<<e, m>>] = n],
         UNCHANGED <<scoreConfig, epochTotals, claimReceipts, scoreVault, scoreFunded>>
  PROVE  ScoreInv'
<1> DEFINE x == <<e, m>>
<1>1. /\ scoreConfig # None /\ x \in DOMAIN minerEpochs /\ x \in ScoreEpochs \X Keys
      /\ x \notin DOMAIN claimReceipts
  BY OpenStatsAre
<1>2. x[1] = e  OBVIOUS
<1>3. /\ DOMAIN minerEpochs' = DOMAIN minerEpochs \cup {x} /\ minerEpochs'[x] = n
      /\ \A s \in DOMAIN minerEpochs \ {x} : minerEpochs'[s] = minerEpochs[s]
  BY <1>1
<1> HIDE DEF x
<1> QED  BY <1>1, <1>2, <1>3, ScoreWrites

LEMMA SetRewardKeeps ==
  ASSUME ScoreInv, NEW k, NEW e, NEW m, NEW a \in ScoreRewards, SetMinerReward(k, e, m, a)
  PROVE  ScoreInv'
<1> DEFINE p == minerEpochs[<<e, m>>]
<1>1. /\ OpenStats(k, e, m) /\ e \in epochTotals /\ a <= scoreConfig.cap
      /\ UNCHANGED <<scoreConfig, epochTotals, claimReceipts, scoreVault, scoreFunded>>
  BY DEF SetMinerReward
<1>2. minerEpochs' = [minerEpochs EXCEPT ![<<e, m>>] = Rewarded(p, a)]
  BY DEF SetMinerReward, Rewarded
<1>3. StatsSettled(p, e)  BY <1>1, OpenStatsAre
<1>4. a \in Nat  BY ScoreAssumption
<1> HIDE DEF p
<1>5. StatsSettled(Rewarded(p, a), e)
  <2>1. p \in MinerStats /\ p.raw <= p.stakeWeight * BpsDenom  BY <1>3 DEF StatsSettled
  <2>2. /\ Rewarded(p, a) \in MinerStats /\ Rewarded(p, a).raw = p.raw
        /\ Rewarded(p, a).stakeWeight = p.stakeWeight /\ Rewarded(p, a).reward = a
    BY <1>4, <2>1, RewardedIs
  <2> QED  BY <1>1, <2>1, <2>2 DEF StatsSettled
<1> QED  BY <1>1, <1>2, <1>5, ScoreUpdates

LEMMA PenalizeKeeps ==
  ASSUME ScoreInv, NEW k, NEW e, NEW m, NEW bps \in ScorePenalties,
         PenalizeMiner(k, e, m, bps)
  PROVE  ScoreInv'
<1> DEFINE p == minerEpochs[<<e, m>>]
           left == BpsDenom - bps
           a == MulBps(p.correctness, left)
           b == MulBps(p.raw, left)
           c == MulBps(p.normalized, left)
           d == MulBps(p.reward, left)
<1>1. /\ OpenStats(k, e, m) /\ bps <= BpsDenom
      /\ UNCHANGED <<scoreConfig, epochTotals, claimReceipts, scoreVault, scoreFunded>>
  BY DEF PenalizeMiner
<1>2. minerEpochs' = [minerEpochs EXCEPT ![<<e, m>>] = PenaltyOf(p, a, b, c, d)]
  BY Zenon DEF PenalizeMiner, Penalized, PenaltyOf
<1>3. StatsSettled(p, e)  BY <1>1, OpenStatsAre
<1>4. left \in 0..BpsDenom  BY <1>1, ScoreAssumption DEF BpsDenom
<1> HIDE DEF p, left
<1>5. /\ p \in MinerStats /\ p.correctness \in Nat /\ p.raw \in Nat /\ p.normalized \in Nat
      /\ p.reward \in Nat /\ p.stakeWeight \in Nat
  BY <1>3 DEF StatsSettled, MinerStats
<1>6. a \in Nat  BY <1>4, <1>5, ScaledBounded
<1>7. b \in Nat /\ b <= p.raw  BY <1>4, <1>5, ScaledBounded
<1>8. c \in Nat  BY <1>4, <1>5, ScaledBounded
<1>9. d \in Nat /\ d <= p.reward  BY <1>4, <1>5, ScaledBounded
<1> HIDE DEF a, b, c, d
<1>10. StatsSettled(PenaltyOf(p, a, b, c, d), e)
  <2> DEFINE q == PenaltyOf(p, a, b, c, d)
  <2>1. p \in MinerStats  BY <1>5
  <2>3. q \in MinerStats /\ q.raw = b /\ q.stakeWeight = p.stakeWeight /\ q.reward = d
    <3>1. a \in Nat /\ b \in Nat /\ c \in Nat /\ d \in Nat  BY <1>6, <1>7, <1>8, <1>9
    <3>2. q \in MinerStats  BY <2>1, <3>1, PenaltyIs
    <3>3. q.raw = b  BY <2>1, <3>1, PenaltyIs
    <3>4. q.stakeWeight = p.stakeWeight  BY <2>1, <3>1, PenaltyIs
    <3>5. q.reward = d  BY <2>1, <3>1, PenaltyIs
    <3> QED  BY <3>2, <3>3, <3>4, <3>5
  <2> HIDE DEF q
  <2> DEFINE bound == p.stakeWeight * BpsDenom
  <2>4. p.raw <= bound /\ p.reward <= scoreConfig.cap /\ (p.reward > 0 => e \in epochTotals)
    BY <1>3 DEF StatsSettled
  <2>5. bound \in Nat  BY <1>5 DEF BpsDenom
  <2> HIDE DEF bound
  <2>6. b <= bound  BY <1>5, <1>7, <2>4, <2>5
  <2>7. scoreConfig.cap \in Nat
    BY <1>1, OpenStatsAre DEF ScoreInv, ScoreConfigType
  <2>8. d <= scoreConfig.cap /\ (d > 0 => e \in epochTotals)
    BY <1>5, <1>9, <2>4, <2>7
  <2>9. q.raw <= q.stakeWeight * BpsDenom  BY <2>3, <2>6 DEF bound
  <2>10. StatsSettled(q, e)  BY <2>3, <2>8, <2>9 DEF StatsSettled
  <2> QED  BY <2>10 DEF q
<1> QED  BY <1>1, <1>2, <1>10, ScoreUpdates

\* A claim empties nobody's statistics but marks them, and the receipt says
\* what was paid.
LEMMA ScoreClaimKeeps ==
  ASSUME ScoreInv, NEW e, NEW m, ClaimMinerReward(e, m)
  PROVE  ScoreInv'
<1> DEFINE x == <<e, m>>
           p == minerEpochs[x]
           n == p.reward
<1>1. /\ scoreConfig # None /\ x \in DOMAIN minerEpochs /\ x \notin DOMAIN claimReceipts
      /\ n > 0 /\ scoreVault >= n /\ scoreVault' = scoreVault - n
      /\ minerEpochs' = [minerEpochs EXCEPT ![x].claimed = TRUE]
      /\ claimReceipts' = Created(claimReceipts, x, n)
      /\ UNCHANGED <<scoreConfig, epochTotals, scoreFunded>>
  BY DEF ClaimMinerReward, ClaimMinerAccounts, Exists, Vacant
<1> HIDE DEF x
<1>2. StatsSettled(p, x[1]) /\ p \in MinerStats  BY <1>1 DEF ScoreInv, StatsSettled
<1>3. n \in Nat /\ n <= scoreConfig.cap /\ scoreConfig.cap \in Nat /\ x[1] \in epochTotals
  BY <1>1, <1>2 DEF StatsSettled, MinerStats, ScoreInv, ScoreConfigType
<1>4. PICK q : q = [p EXCEPT !.claimed = TRUE]  OBVIOUS
<1>5. /\ minerEpochs'[x] = q /\ DOMAIN minerEpochs' = DOMAIN minerEpochs
      /\ \A s \in DOMAIN minerEpochs \ {x} : minerEpochs'[s] = minerEpochs[s]
  BY <1>1, <1>4
<1>6. q \in MinerStats /\ q.claimed = TRUE /\ q.reward = n /\ q.raw = p.raw
      /\ q.stakeWeight = p.stakeWeight
  BY <1>2, <1>4 DEF MinerStats
<1>7. StatsSettled(q, x[1])  BY <1>2, <1>6 DEF StatsSettled
<1> HIDE DEF p, n
<1>8. \A s \in DOMAIN minerEpochs' : StatsSettled(minerEpochs[s], s[1])'
  BY <1>1, <1>5, <1>7 DEF ScoreInv, StatsSettled
<1>9. /\ DOMAIN claimReceipts' = DOMAIN claimReceipts \cup {x} /\ claimReceipts'[x] = n
      /\ \A s \in DOMAIN claimReceipts : claimReceipts'[s] = claimReceipts[s]
  BY <1>1 DEF Created
<1>10. SumFunction(claimReceipts') = SumFunction(claimReceipts) + n
  <2>1. IsFiniteSet(DOMAIN claimReceipts) /\ \A s \in DOMAIN claimReceipts : claimReceipts[s] \in Int
    BY DEF ScoreInv
  <2>2. \A s \in DOMAIN claimReceipts \ {x} : claimReceipts'[s] = claimReceipts[s]
    BY <1>9
  <2>3. claimReceipts'[x] \in Int  BY <1>3, <1>9
  <2>4. SumFunction(claimReceipts') = SumFunction(claimReceipts) + claimReceipts'[x]
          - (IF x \in DOMAIN claimReceipts THEN claimReceipts[x] ELSE 0)
    BY <1>9, <2>1, <2>2, <2>3, SumWrites
  <2> QED  BY <1>1, <1>3, <1>9, <2>4, ReceiptsAre
<1>11. \A s \in DOMAIN claimReceipts' :
         /\ s[1] \in epochTotals /\ minerEpochs'[s].claimed
         /\ claimReceipts'[s] = minerEpochs'[s].reward
         /\ claimReceipts'[s] \in 1..scoreConfig.cap
  <2>1. ASSUME NEW s \in DOMAIN claimReceipts
        PROVE  /\ s[1] \in epochTotals /\ minerEpochs'[s].claimed
               /\ claimReceipts'[s] = minerEpochs'[s].reward
               /\ claimReceipts'[s] \in 1..scoreConfig.cap
    <3>1. s # x /\ s \in DOMAIN minerEpochs  BY <1>1, ReceiptsAre
    <3>2. minerEpochs'[s] = minerEpochs[s] /\ claimReceipts'[s] = claimReceipts[s]
      BY <1>5, <1>9, <3>1
    <3> QED  BY <3>2, ReceiptsAre
  <2>2. /\ x[1] \in epochTotals /\ minerEpochs'[x].claimed
        /\ claimReceipts'[x] = minerEpochs'[x].reward
        /\ claimReceipts'[x] \in 1..scoreConfig.cap
    <3>1. minerEpochs'[x].claimed  BY <1>5, <1>6, Zenon
    <3>2. claimReceipts'[x] = minerEpochs'[x].reward  BY <1>5, <1>6, <1>9
    <3>3. claimReceipts'[x] \in 1..scoreConfig.cap  BY <1>1, <1>3, <1>9
    <3> QED  BY <1>3, <3>1, <3>2, <3>3
  <2> QED  BY <1>9, <2>1, <2>2
<1>12. RewardsPaidOnce'
  <2>1. scoreVault' + SumFunction(claimReceipts') = scoreFunded'
    BY <1>1, <1>3, <1>10, ReceiptsAre
  <2> QED  BY <1>1, <1>11, <2>1 DEF RewardsPaidOnce
<1>13. /\ IsFiniteSet(DOMAIN claimReceipts') /\ DOMAIN claimReceipts' \subseteq DOMAIN minerEpochs'
       /\ \A s \in DOMAIN claimReceipts' : claimReceipts'[s] \in Nat
  <2>1. IsFiniteSet(DOMAIN claimReceipts')  BY <1>9, FS_AddElement DEF ScoreInv
  <2> QED  BY <1>1, <1>3, <1>5, <1>9, <2>1 DEF ScoreInv
<1>14. scoreVault' \in Nat /\ scoreFunded' \in Nat  BY <1>1, <1>3, ReceiptsAre
<1>15. /\ scoreConfig' # None => scoreConfig' \in ScoreConfigType /\ ScoreConfigValid(scoreConfig')
       /\ scoreConfig' = None => DOMAIN minerEpochs' = {}
       /\ DOMAIN minerEpochs' \subseteq ScoreEpochs \X Keys
  BY <1>1, <1>5 DEF ScoreInv, ScoreConfigValid
<1> QED  BY <1>8, <1>12, <1>13, <1>14, <1>15 DEF ScoreInv

ScoreInstruction ==
  \/ \E c \in ScoreConfigType : InitMinerScoreConfig(c)
  \/ \E a \in ScoreFunding : FundScoreVault(a)
  \/ \E k, e : FinalizeMinerEpoch(k, e)
  \/ \E k \in Keys, m \in Keys, e \in ScoreEpochs, r \in ScoreReports :
       ReportMinerEpochStats(k, e, m, r)
  \/ \E k \in Keys, m \in Keys, e \in ScoreEpochs, a \in ScoreRewards :
       SetMinerReward(k, e, m, a)
  \/ \E k \in Keys, m \in Keys, e \in ScoreEpochs, b \in ScorePenalties :
       PenalizeMiner(k, e, m, b)
  \/ \E m, e : ClaimMinerReward(e, m)

LEMMA ScoreCommands ==
  ASSUME ScoreNext PROVE ScoreInstruction
<1>1. ASSUME NEW k \in Keys, NEW c \in ScoreConfigs, CliScoreInitConfig(k, c)
      PROVE  ScoreInstruction
  <2> DEFINE f == [c EXCEPT !.submitters = IF c.submitters = {} THEN {k} ELSE c.submitters,
                            !.miners = IF c.miners = {} THEN {k} ELSE c.miners]
  <2>1. c \in ScoreConfigType  BY ScoreAssumption
  <2>2. c.submitters \in SUBSET Keys /\ c.miners \in SUBSET Keys
    BY <2>1 DEF ScoreConfigType
  <2>3. f \in ScoreConfigType
    <3> DEFINE s == IF c.submitters = {} THEN {k} ELSE c.submitters
               m == IF c.miners = {} THEN {k} ELSE c.miners
    <3>1. s \in SUBSET Keys /\ m \in SUBSET Keys  BY <2>2
    <3> HIDE DEF s, m
    <3>2. [c EXCEPT !.submitters = s, !.miners = m] \in ScoreConfigType
      BY <2>1, <3>1 DEF ScoreConfigType
    <3> QED  BY <3>2 DEF s, m
  <2>4. InitMinerScoreConfig(f)  BY <1>1 DEF CliScoreInitConfig
  <2> HIDE DEF f
  <2> QED  BY <2>3, <2>4, Zenon DEF ScoreInstruction
<1>2. (\E c \in ScoreConfigs : InitMinerScoreConfig(c)) => ScoreInstruction
  <2>1. ScoreConfigs \subseteq ScoreConfigType  BY ScoreAssumption
  <2> QED  BY <2>1, Zenon DEF ScoreInstruction
<1>3. ScoreCli => ScoreInstruction
  BY <1>1, Zenon DEF ScoreCli, CliScoreReport, CliScoreFinalizeEpoch, CliScoreSetReward,
     CliScoreClaim, CliScorePenalize, ScoreInstruction
<1> QED  BY <1>2, <1>3, Zenon DEF ScoreNext, ScoreInstruction

LEMMA ScoreStep ==
  ASSUME ScoreInv, [ScoreNext]_scoreVars PROVE ScoreInv'
<1>1. CASE UNCHANGED scoreVars
  BY <1>1 DEF scoreVars, ScoreInv, StatsSettled, RewardsPaidOnce, ScoreConfigValid
<1>2. CASE ScoreNext
  <2>1. ScoreInstruction  BY <1>2, ScoreCommands
  <2> QED  BY <2>1, Zenon, ScoreConfigKeeps, ScoreFundKeeps, FinalizeKeeps, ReportKeeps,
              SetRewardKeeps, PenalizeKeeps, ScoreClaimKeeps DEF ScoreInstruction
<1> QED  BY <1>1, <1>2

LEMMA ScoreStart ==
  ASSUME ScoreInit PROVE ScoreInv
<1>1. /\ scoreConfig = None /\ DOMAIN minerEpochs = {} /\ DOMAIN claimReceipts = {}
      /\ scoreVault = 0 /\ scoreFunded = 0
  BY DEF ScoreInit, NoAccounts
<1>2. IsFiniteSet(DOMAIN claimReceipts)  BY <1>1, FS_EmptySet
<1>3. SumFunction(claimReceipts) = 0  BY <1>1, <1>2, SumZero
<1> QED  BY <1>1, <1>2, <1>3 DEF ScoreInv, RewardsPaidOnce

-----------------------------------------------------------------------------
(***************************************************************************)
(* The operators program.                                                  *)
(***************************************************************************)

OperatorRecord ==
  [status: OperatorStatus, stake: Nat, endpoints: OpEndpoints, lastClaimed: Nat]

MetricsRecord == [metrics: OpMetrics, by: Keys, rewarded: Nat]

OpRewarded == [m \in DOMAIN opMetrics |-> opMetrics[m].rewarded]

OpInv ==
  /\ OpTypeOK /\ opFunded \in Nat
  /\ \A w \in DOMAIN operators : operators[w] \in OperatorRecord
  /\ IsFiniteSet(DOMAIN opMetrics)
  /\ \A m \in DOMAIN opMetrics : opMetrics[m] \in MetricsRecord
  /\ DOMAIN opClaims \subseteq DOMAIN opMetrics
  /\ \A c \in DOMAIN opClaims : opClaims[c] = 1
  /\ OperatorPaidOnce

\* What ActivatedWithStake asks of a step.
OpActivates ==
  \A w \in DOMAIN operators' :
    (operators'[w].status = "active"
      /\ (w \in DOMAIN operators => operators[w].status # "active"))
    => operators'[w].stake >= opConfig.minStake

LEMMA OpBooks ==
  ASSUME OpInv
  PROVE  /\ opTreasury \in Nat /\ opFunded \in Nat
         /\ DOMAIN OpRewarded = DOMAIN opMetrics /\ IsFiniteSet(DOMAIN OpRewarded)
         /\ \A m \in DOMAIN OpRewarded : OpRewarded[m] \in Int
         /\ \A m \in DOMAIN opMetrics : OpRewarded[m] = opMetrics[m].rewarded
         /\ SumFunction(OpRewarded) \in Int
         /\ opTreasury + SumFunction(OpRewarded) = opFunded
<1>1. /\ DOMAIN OpRewarded = DOMAIN opMetrics /\ IsFiniteSet(DOMAIN OpRewarded)
      /\ \A m \in DOMAIN OpRewarded : OpRewarded[m] \in Int
      /\ \A m \in DOMAIN opMetrics : OpRewarded[m] = opMetrics[m].rewarded
  BY DEF OpInv, OpRewarded, MetricsRecord
<1>2. SumFunction(OpRewarded) \in Int  BY <1>1, SumInt, SumAll
<1>3. opTreasury + SumFunction(OpRewarded) = opFunded
  BY DEF OpInv, OperatorPaidOnce, OpRewarded
<1> QED  BY <1>1, <1>2, <1>3 DEF OpInv, OpTypeOK

\* A step in which no token moves: the accounts of the operators.
LEMMA OpAccounts ==
  ASSUME OpInv, UNCHANGED opMoney, DOMAIN opVaults' = DOMAIN operators',
         DOMAIN operators' \subseteq Keys,
         \A w \in DOMAIN operators' :
           /\ operators'[w] \in OperatorRecord /\ operators'[w].stake = opVaults'[w]
  PROVE  OpInv'
<1>1. OpTypeOK'  BY DEF OpInv, OpTypeOK, OperatorRecord, opMoney
<1>2. OperatorPaidOnce'  BY DEF OpInv, OperatorPaidOnce, opMoney
<1> QED  BY <1>1, <1>2 DEF OpInv, opMoney

\* One operator is written, and what its vault holds with it.
LEMMA OpRewrites ==
  ASSUME OpInv, UNCHANGED opMoney, NEW w \in DOMAIN operators, NEW n \in OperatorRecord,
         operators' = [operators EXCEPT ![w] = n],
         DOMAIN opVaults' = DOMAIN opVaults, opVaults'[w] = n.stake,
         \A x \in DOMAIN opVaults \ {w} : opVaults'[x] = opVaults[x],
         n.status = "active" =>
           operators[w].status = "active" \/ n.stake >= opConfig.minStake
  PROVE  OpInv' /\ OpActivates
<1>1. /\ DOMAIN operators' = DOMAIN operators /\ operators'[w] = n
      /\ \A x \in DOMAIN operators \ {w} : operators'[x] = operators[x]
  OBVIOUS
<1>2. /\ DOMAIN opVaults = DOMAIN operators /\ DOMAIN operators \subseteq Keys
      /\ \A x \in DOMAIN operators :
           operators[x] \in OperatorRecord /\ operators[x].stake = opVaults[x]
  BY DEF OpInv, OpTypeOK
<1>3. \A x \in DOMAIN operators' :
        operators'[x] \in OperatorRecord /\ operators'[x].stake = opVaults'[x]
  BY <1>1, <1>2
<1>4. OpInv'  BY <1>1, <1>2, <1>3, OpAccounts
<1>5. OpActivates  BY <1>1 DEF OpActivates
<1> QED  BY <1>4, <1>5

LEMMA OpOperatorIs ==
  ASSUME OpInv, NEW w \in DOMAIN operators
  PROVE  /\ w \in Keys /\ w \in DOMAIN opVaults /\ DOMAIN opVaults = DOMAIN operators
         /\ operators[w] \in OperatorRecord /\ operators[w].stake \in Nat
         /\ operators[w].status \in OperatorStatus /\ opVaults[w] = operators[w].stake
BY DEF OpInv, OpTypeOK, OperatorRecord

LEMMA OpConfigKeeps ==
  ASSUME OpInv, UNCHANGED <<operators, opVaults, opMoney>>
  PROVE  OpInv' /\ OpActivates
<1>1. OpInv'  BY OpAccounts, OpOperatorIs DEF OpInv, OpTypeOK
<1>2. OpActivates  BY DEF OpActivates
<1> QED  BY <1>1, <1>2

LEMMA OpRegisterKeeps ==
  ASSUME OpInv, NEW w \in Keys, NEW n \in OpEndpoints, RegisterOperator(w, n)
  PROVE  OpInv' /\ OpActivates
<1> DEFINE r == Operator("paused", 0, n)
<1>1. /\ w \notin DOMAIN operators /\ operators' = Created(operators, w, r)
      /\ opVaults' = Created(opVaults, w, 0) /\ UNCHANGED opMoney
  BY DEF RegisterOperator, RegisterAccounts, Vacant
<1>2. r \in OperatorRecord /\ r.stake = 0 /\ r.status = "paused"
  BY DEF Operator, OperatorRecord, OperatorStatus
<1> HIDE DEF r
<1>3. /\ DOMAIN operators' = DOMAIN operators \cup {w} /\ operators'[w] = r
      /\ \A x \in DOMAIN operators : operators'[x] = operators[x]
      /\ DOMAIN opVaults' = DOMAIN opVaults \cup {w} /\ opVaults'[w] = 0
  BY <1>1 DEF Created
<1>4. \A x \in DOMAIN operators : opVaults'[x] = opVaults[x]
  BY <1>1, OpOperatorIs DEF Created
<1>5. \A x \in DOMAIN operators' :
        operators'[x] \in OperatorRecord /\ operators'[x].stake = opVaults'[x]
  BY <1>2, <1>3, <1>4, OpOperatorIs
<1>6. DOMAIN opVaults' = DOMAIN operators' /\ DOMAIN operators' \subseteq Keys
  BY <1>3 DEF OpInv, OpTypeOK
<1>7. OpInv'  BY <1>1, <1>5, <1>6, OpAccounts
<1>8. OpActivates  BY <1>2, <1>3 DEF OpActivates
<1> QED  BY <1>7, <1>8

LEMMA OpEndpointsKeeps ==
  ASSUME OpInv, NEW w, NEW n \in OpEndpoints, UpdateEndpoints(w, n)
  PROVE  OpInv' /\ OpActivates
<1>1. /\ w \in DOMAIN operators /\ UNCHANGED <<opVaults, opMoney>>
      /\ operators' = [operators EXCEPT ![w].endpoints = n]
  BY DEF UpdateEndpoints, OperatorSigns, Exists
<1>2. PICK q : q = [operators[w] EXCEPT !.endpoints = n]  OBVIOUS
<1>3. operators' = [operators EXCEPT ![w] = q]  BY <1>1, <1>2
<1>4. /\ q \in OperatorRecord /\ q.stake = operators[w].stake
      /\ q.status = operators[w].status
  BY <1>1, <1>2, OpOperatorIs DEF OperatorRecord
<1> QED  BY <1>1, <1>3, <1>4, OpOperatorIs, OpRewrites

LEMMA OpPauseKeeps ==
  ASSUME OpInv, NEW w, PauseOperator(w)
  PROVE  OpInv' /\ OpActivates
<1>1. /\ w \in DOMAIN operators /\ UNCHANGED <<opVaults, opMoney>>
      /\ operators' = [operators EXCEPT ![w].status = "paused"]
  BY DEF PauseOperator, OperatorSigns, Exists
<1>2. PICK q : q = [operators[w] EXCEPT !.status = "paused"]  OBVIOUS
<1>3. operators' = [operators EXCEPT ![w] = q]  BY <1>1, <1>2
<1>4. q \in OperatorRecord /\ q.stake = operators[w].stake /\ q.status = "paused"
  BY <1>1, <1>2, OpOperatorIs DEF OperatorRecord, OperatorStatus
<1> QED  BY <1>1, <1>3, <1>4, OpOperatorIs, OpRewrites

LEMMA OpResumeKeeps ==
  ASSUME OpInv, NEW w, ResumeOperator(w)
  PROVE  OpInv' /\ OpActivates
<1>1. /\ w \in DOMAIN operators /\ UNCHANGED <<opVaults, opMoney>>
      /\ operators[w].stake >= opConfig.minStake
      /\ operators' = [operators EXCEPT ![w].status = "active"]
  BY DEF ResumeOperator, OperatorSigns, Exists
<1>2. PICK q : q = [operators[w] EXCEPT !.status = "active"]  OBVIOUS
<1>3. operators' = [operators EXCEPT ![w] = q]  BY <1>1, <1>2
<1>4. q \in OperatorRecord /\ q.stake = operators[w].stake
  BY <1>1, <1>2, OpOperatorIs DEF OperatorRecord, OperatorStatus
<1> QED  BY <1>1, <1>3, <1>4, OpOperatorIs, OpRewrites

\* A stake that changes with the lamports in the vault.
LEMMA OpRestaked ==
  ASSUME OpInv, UNCHANGED opMoney, NEW w \in DOMAIN operators, NEW stake \in Nat,
         NEW status \in OperatorStatus, Restaked(w, stake, status),
         status = "active" => operators[w].status = "active" \/ stake >= opConfig.minStake
  PROVE  OpInv' /\ OpActivates
<1>1. PICK q : q = [operators[w] EXCEPT !.stake = stake, !.status = status]  OBVIOUS
<1>2. operators' = [operators EXCEPT ![w] = q]  BY <1>1 DEF Restaked
<1>3. q \in OperatorRecord /\ q.stake = stake /\ q.status = status
  BY <1>1, OpOperatorIs DEF OperatorRecord
<1>4. opVaults' = [opVaults EXCEPT ![w] = opVaults[w] + stake - operators[w].stake]
  BY DEF Restaked
<1>5. /\ w \in DOMAIN opVaults /\ opVaults[w] = operators[w].stake
      /\ operators[w].stake \in Nat
  BY OpOperatorIs
<1>6. DOMAIN opVaults' = DOMAIN opVaults  BY <1>4
<1>7. opVaults'[w] = q.stake  BY <1>3, <1>4, <1>5
<1>8. \A x \in DOMAIN opVaults \ {w} : opVaults'[x] = opVaults[x]  BY <1>4
<1>9. q.status = "active" =>
        operators[w].status = "active" \/ q.stake >= opConfig.minStake
  BY <1>3
<1>10. q \in OperatorRecord  BY <1>3
<1> QED  BY <1>2, <1>6, <1>7, <1>8, <1>9, <1>10, OpRewrites

LEMMA OpStakeKeeps ==
  ASSUME OpInv, NEW w, NEW a \in OpStakes, StakeOperator(w, a)
  PROVE  OpInv' /\ OpActivates
<1> DEFINE stake == operators[w].stake + a
           status == IF stake >= opConfig.minStake /\ Status(w) = "paused" THEN "active"
                     ELSE Status(w)
<1>1. w \in DOMAIN operators /\ Restaked(w, stake, status) /\ UNCHANGED opMoney
  BY DEF StakeOperator, StakeAccounts, OperatorSigns, Exists
<1>2. stake \in Nat  BY <1>1, OpOperatorIs, OpAssumption
<1>3. status \in OperatorStatus
  BY <1>1, OpOperatorIs DEF Status, OperatorStatus
<1>4. status = "active" => operators[w].status = "active" \/ stake >= opConfig.minStake
  BY DEF Status
<1> HIDE DEF stake, status
<1> QED  BY <1>1, <1>2, <1>3, <1>4, OpRestaked

LEMMA OpUnstakeKeeps ==
  ASSUME OpInv, NEW w, NEW a \in OpStakes, UnstakeOperator(w, a)
  PROVE  OpInv' /\ OpActivates
<1> DEFINE stake == operators[w].stake - a
           status == IF stake < opConfig.minStake THEN "paused" ELSE Status(w)
<1>1. /\ w \in DOMAIN operators /\ Restaked(w, stake, status) /\ UNCHANGED opMoney
      /\ stake >= 0
  BY DEF UnstakeOperator, UnstakeAccounts, OperatorSigns, Exists
<1>2. stake \in Nat  BY <1>1, OpOperatorIs, OpAssumption
<1>3. status \in OperatorStatus
  BY <1>1, OpOperatorIs DEF Status, OperatorStatus
<1>4. status = "active" => operators[w].status = "active" \/ stake >= opConfig.minStake
  BY DEF Status
<1> HIDE DEF stake, status
<1> QED  BY <1>1, <1>2, <1>3, <1>4, OpRestaked

LEMMA OpSlashKeeps ==
  ASSUME OpInv, NEW k, NEW w, NEW s \in OpSlashes, SlashOperator(k, w, s[1], s[2])
  PROVE  OpInv' /\ OpActivates
<1> DEFINE slashed == MulBps(operators[w].stake, s[1])
           stake == operators[w].stake - slashed
           status == IF s[1] >= 5000 \/ s[2] # 0 THEN "slashed" ELSE "paused"
<1>1. /\ w \in DOMAIN operators /\ Restaked(w, stake, status) /\ UNCHANGED opMoney
      /\ s[1] <= BpsDenom
  BY DEF SlashOperator, SlashAccounts, Exists
<1>2. stake \in Nat
  <2>1. operators[w].stake \in Nat /\ s[1] \in Nat  BY <1>1, OpOperatorIs, OpAssumption
  <2> DEFINE b == s[1]
             a == operators[w].stake
  <2>2. MulBps(a, b) \in Nat /\ MulBps(a, b) <= a
    <3>1. a \in Nat /\ b \in Nat /\ b <= BpsDenom  BY <1>1, <2>1
    <3> HIDE DEF a, b
    <3> QED  BY <3>1, ShareOfAmount
  <2>3. slashed \in Nat /\ slashed <= operators[w].stake  BY <2>2
  <2> HIDE DEF slashed, a, b
  <2> QED  BY <2>1, <2>3
<1>3. status \in OperatorStatus /\ status # "active"  BY DEF OperatorStatus
<1> HIDE DEF slashed, stake, status
<1> QED  BY <1>1, <1>2, <1>3, OpRestaked

\* A step that moves tokens and leaves what was claimed.
LEMMA OpFundKeeps ==
  ASSUME OpInv, NEW k, NEW a \in OpFunding, FundTreasury(k, a)
  PROVE  OpInv' /\ OpActivates
<1>1. /\ opTreasury' = opTreasury + a /\ opFunded' = opFunded + a
      /\ UNCHANGED <<opConfig, operators, opVaults, opMetrics, opClaims, opDelegations>>
  BY DEF FundTreasury
<1>2. a \in Nat  BY OpAssumption
<1>3. OpRewarded' = OpRewarded  BY <1>1 DEF OpRewarded
<1>4. OperatorPaidOnce'
  <2>1. opTreasury' + SumFunction(OpRewarded') = opFunded'
    BY <1>1, <1>2, <1>3, OpBooks
  <2> QED  BY <1>1, <2>1 DEF OpInv, OperatorPaidOnce, OpRewarded
<1>5. opTreasury' \in Nat /\ opFunded' \in Nat  BY <1>1, <1>2, OpBooks
<1>6. OpTypeOK'  BY <1>1, <1>5 DEF OpInv, OpTypeOK
<1>7. OpActivates  BY <1>1 DEF OpActivates
<1> QED  BY <1>1, <1>4, <1>5, <1>6, <1>7 DEF OpInv

\* Metrics that are written again keep what was rewarded.
LEMMA OpMetricsKeeps ==
  ASSUME OpInv, NEW k \in Keys, NEW w, NEW m \in OpMetrics, SubmitEpochMetrics(k, w, m)
  PROVE  OpInv' /\ OpActivates
<1> DEFINE x == <<EpochOf(opConfig.epochLen), w>>
           n == IF Vacant(opMetrics, x) THEN EpochMetrics(m, k)
                ELSE [opMetrics[x] EXCEPT !.metrics = m]
<1>1. /\ opMetrics' = Created(opMetrics, x, n)
      /\ UNCHANGED <<opConfig, operators, opVaults, opTreasury, opFunded, opClaims,
                     opDelegations>>
  BY DEF SubmitEpochMetrics
<1>2. /\ n \in MetricsRecord
      /\ n.rewarded = IF x \in DOMAIN opMetrics THEN opMetrics[x].rewarded ELSE 0
  <2>1. CASE x \notin DOMAIN opMetrics
    <3>1. n = EpochMetrics(m, k)  BY <2>1 DEF Vacant
    <3>2. n \in MetricsRecord /\ n.rewarded = 0  BY <3>1 DEF EpochMetrics, MetricsRecord
    <3> HIDE DEF n, x
    <3> QED  BY <2>1, <3>2
  <2>2. CASE x \in DOMAIN opMetrics
    <3>1. n = [opMetrics[x] EXCEPT !.metrics = m]  BY <2>2 DEF Vacant
    <3>2. opMetrics[x] \in MetricsRecord  BY <2>2 DEF OpInv
    <3> DEFINE p == opMetrics[x]
    <3>3. n = [p EXCEPT !.metrics = m] /\ p \in MetricsRecord  BY <3>1, <3>2
    <3> HIDE DEF n, x, p
    <3>4. n \in MetricsRecord /\ n.rewarded = p.rewarded  BY <3>3 DEF MetricsRecord
    <3> QED  BY <2>2, <3>4 DEF p
  <2> QED  BY <2>1, <2>2
<1> HIDE DEF n, x
<1>3. /\ DOMAIN opMetrics' = DOMAIN opMetrics \cup {x} /\ opMetrics'[x] = n
      /\ \A y \in DOMAIN opMetrics \ {x} : opMetrics'[y] = opMetrics[y]
  BY <1>1 DEF Created
<1>4. /\ DOMAIN OpRewarded' = DOMAIN OpRewarded \cup {x} /\ OpRewarded'[x] = n.rewarded
      /\ \A y \in DOMAIN OpRewarded \ {x} : OpRewarded'[y] = OpRewarded[y]
  BY <1>3 DEF OpRewarded
<1>5. SumFunction(OpRewarded') = SumFunction(OpRewarded)
  <2>1. OpRewarded'[x] \in Int  BY <1>2, <1>4 DEF MetricsRecord
  <2> DEFINE f == OpRewarded
             g == OpRewarded'
  <2>2. SumFunction(g) = SumFunction(f) + g[x] - (IF x \in DOMAIN f THEN f[x] ELSE 0)
    <3>1. IsFiniteSet(DOMAIN f) /\ \A y \in DOMAIN f : f[y] \in Int  BY OpBooks
    <3>2. /\ DOMAIN g = DOMAIN f \cup {x} /\ g[x] \in Int
          /\ \A y \in DOMAIN f \ {x} : g[y] = f[y]
      BY <1>4, <2>1
    <3> HIDE DEF f, g
    <3> QED  BY <3>1, <3>2, SumWrites
  <2>3. OpRewarded'[x] = IF x \in DOMAIN OpRewarded THEN OpRewarded[x] ELSE 0
    BY <1>2, <1>4, OpBooks
  <2> QED  BY <2>1, <2>2, <2>3, OpBooks
<1>6. IsFiniteSet(DOMAIN opMetrics')  BY <1>3, FS_AddElement DEF OpInv
<1>7. \A y \in DOMAIN opMetrics' : opMetrics'[y] \in MetricsRecord
  BY <1>2, <1>3 DEF OpInv
<1>8. \A c \in DOMAIN opClaims : opClaims[c] <= 1 /\ opMetrics'[c].rewarded > 0
  <2> SUFFICES ASSUME NEW c \in DOMAIN opClaims
               PROVE  opClaims[c] <= 1 /\ opMetrics'[c].rewarded > 0
    OBVIOUS
  <2>1. opClaims[c] <= 1 /\ opMetrics[c].rewarded > 0 /\ c \in DOMAIN opMetrics
    BY DEF OpInv, OperatorPaidOnce
  <2>2. opMetrics'[c].rewarded = opMetrics[c].rewarded  BY <1>2, <1>3, <2>1
  <2> QED  BY <2>1, <2>2
<1>9. OperatorPaidOnce'
  <2>1. opTreasury' + SumFunction(OpRewarded') = opFunded'  BY <1>1, <1>5, OpBooks
  <2> QED  BY <1>1, <1>8, <2>1 DEF OperatorPaidOnce, OpRewarded
<1>10. OpTypeOK'  BY <1>1 DEF OpInv, OpTypeOK
<1>11. OpActivates  BY <1>1 DEF OpActivates
<1> QED  BY <1>1, <1>3, <1>6, <1>7, <1>9, <1>10, <1>11 DEF OpInv

\* Only metrics that rewarded nothing yet are claimed, and there is no claim of
\* those.
LEMMA OpClaimKeeps ==
  ASSUME OpInv, NEW w, NEW e \in 0..MaxSlot, ClaimOperatorRewards(w, e)
  PROVE  OpInv' /\ OpActivates
<1> DEFINE x == <<e, w>>
           n == OperatorReward(opMetrics[x].metrics)
<1>1. /\ w \in DOMAIN operators /\ x \in DOMAIN opMetrics
      /\ opMetrics[x].rewarded = 0 /\ n \in 1..opTreasury /\ opTreasury' = opTreasury - n
      /\ opMetrics' = [opMetrics EXCEPT ![x].rewarded = n]
      /\ operators' = [operators EXCEPT ![w].lastClaimed = e]
      /\ UNCHANGED <<opConfig, opVaults, opFunded, opDelegations>>
  BY DEF ClaimOperatorRewards, ClaimOperatorAccounts, OperatorSigns, Exists
<1>2. x \notin DOMAIN opClaims  BY <1>1 DEF OpInv, OperatorPaidOnce
<1>3. opClaims' = Created(opClaims, x, 1)
  <2>1. opClaims' = Created(opClaims, x, 1 + (IF Exists(opClaims, x) THEN opClaims[x] ELSE 0))
    BY Zenon DEF ClaimOperatorRewards
  <2>2. 1 + (IF Exists(opClaims, x) THEN opClaims[x] ELSE 0) = 1
    BY <1>2 DEF Exists
  <2> HIDE DEF x
  <2> QED  BY <2>1, <2>2
<1> HIDE DEF x, n
<1>4. n \in Nat /\ n > 0 /\ n <= opTreasury  BY <1>1, OpBooks
<1>5. PICK p : p = [opMetrics[x] EXCEPT !.rewarded = n]  OBVIOUS
<1>6. /\ DOMAIN opMetrics' = DOMAIN opMetrics /\ opMetrics'[x] = p
      /\ \A y \in DOMAIN opMetrics \ {x} : opMetrics'[y] = opMetrics[y]
  BY <1>1, <1>5
<1>7. p \in MetricsRecord /\ p.rewarded = n
  <2>1. opMetrics[x] \in MetricsRecord  BY <1>1 DEF OpInv
  <2> QED  BY <1>4, <1>5, <2>1 DEF MetricsRecord
<1>8. /\ DOMAIN OpRewarded' = DOMAIN OpRewarded \cup {x} /\ OpRewarded'[x] = n
      /\ \A y \in DOMAIN OpRewarded \ {x} : OpRewarded'[y] = OpRewarded[y]
  BY <1>1, <1>6, <1>7 DEF OpRewarded
<1>9. SumFunction(OpRewarded') = SumFunction(OpRewarded) + n
  <2>1. OpRewarded'[x] \in Int  BY <1>4, <1>8
  <2> DEFINE f == OpRewarded
             g == OpRewarded'
  <2>2. SumFunction(g) = SumFunction(f) + g[x] - (IF x \in DOMAIN f THEN f[x] ELSE 0)
    <3>1. IsFiniteSet(DOMAIN f) /\ \A y \in DOMAIN f : f[y] \in Int  BY OpBooks
    <3>2. /\ DOMAIN g = DOMAIN f \cup {x} /\ g[x] \in Int
          /\ \A y \in DOMAIN f \ {x} : g[y] = f[y]
      BY <1>8, <2>1
    <3> HIDE DEF f, g
    <3> QED  BY <3>1, <3>2, SumWrites
  <2>3. x \in DOMAIN OpRewarded /\ OpRewarded[x] = 0  BY <1>1, OpBooks
  <2> QED  BY <1>4, <1>8, <2>2, <2>3, OpBooks
<1>10. \A y \in DOMAIN opMetrics' : opMetrics'[y] \in MetricsRecord
  BY <1>6, <1>7 DEF OpInv
<1>11. /\ DOMAIN opClaims' = DOMAIN opClaims \cup {x} /\ opClaims'[x] = 1
       /\ \A c \in DOMAIN opClaims : opClaims'[c] = opClaims[c]
  BY <1>2, <1>3 DEF Created
<1>12. \A c \in DOMAIN opClaims' :
         c \in DOMAIN opMetrics' /\ opClaims'[c] = 1 /\ opMetrics'[c].rewarded > 0
  <2>1. ASSUME NEW c \in DOMAIN opClaims
        PROVE  c \in DOMAIN opMetrics' /\ opClaims'[c] = 1 /\ opMetrics'[c].rewarded > 0
    <3>1. /\ c \in DOMAIN opMetrics /\ opClaims[c] = 1 /\ opMetrics[c].rewarded > 0
          /\ c # x
      BY <1>2 DEF OpInv, OperatorPaidOnce
    <3> QED  BY <1>6, <1>11, <3>1
  <2>2. x \in DOMAIN opMetrics' /\ opClaims'[x] = 1 /\ opMetrics'[x].rewarded > 0
    BY <1>1, <1>4, <1>6, <1>7, <1>11
  <2> QED  BY <1>11, <2>1, <2>2
<1>13. OperatorPaidOnce'
  <2>1. opTreasury' + SumFunction(OpRewarded') = opFunded'
    BY <1>1, <1>4, <1>9, OpBooks
  <2>2. \A c \in DOMAIN opClaims' : opClaims'[c] <= 1 /\ opMetrics'[c].rewarded > 0
    BY <1>12
  <2> QED  BY <2>1, <2>2 DEF OperatorPaidOnce, OpRewarded
<1>14. PICK q : q = [operators[w] EXCEPT !.lastClaimed = e]  OBVIOUS
<1>15. /\ DOMAIN operators' = DOMAIN operators /\ operators'[w] = q
       /\ \A y \in DOMAIN operators \ {w} : operators'[y] = operators[y]
  BY <1>1, <1>14
<1>16. e \in Nat  BY ChainAssumption
<1>17. /\ q \in OperatorRecord /\ q.stake = operators[w].stake
       /\ q.status = operators[w].status
  BY <1>1, <1>14, <1>16, OpOperatorIs DEF OperatorRecord
<1>18. \A y \in DOMAIN operators :
         /\ operators'[y] \in OperatorRecord /\ operators'[y].stake = operators[y].stake
         /\ operators'[y].status = operators[y].status
  BY <1>15, <1>17, OpOperatorIs
<1>19. OpTypeOK'
  <2>1. opTreasury' \in Nat  BY <1>1, <1>4, OpBooks
  <2>2. \A y \in DOMAIN operators' :
          /\ operators'[y].status \in OperatorStatus
          /\ operators'[y].stake = opVaults'[y] /\ opVaults'[y] \in Nat
    BY <1>1, <1>15, <1>18, OpOperatorIs
  <2> QED  BY <1>1, <1>15, <2>1, <2>2 DEF OpInv, OpTypeOK
<1>20. OpActivates  BY <1>15, <1>18 DEF OpActivates
<1>21. /\ opFunded' \in Nat /\ IsFiniteSet(DOMAIN opMetrics')
       /\ \A y \in DOMAIN operators' : operators'[y] \in OperatorRecord
  BY <1>1, <1>6, <1>15, <1>18 DEF OpInv
<1> QED  BY <1>10, <1>12, <1>13, <1>19, <1>20, <1>21 DEF OpInv

OpInstruction ==
  \/ UNCHANGED <<operators, opVaults, opMoney>>
  \/ \E w \in Keys, n \in OpEndpoints : RegisterOperator(w, n) \/ UpdateEndpoints(w, n)
  \/ \E w \in Keys : PauseOperator(w) \/ ResumeOperator(w)
  \/ \E w \in Keys, a \in OpStakes : StakeOperator(w, a) \/ UnstakeOperator(w, a)
  \/ \E k \in Keys, a \in OpFunding : FundTreasury(k, a)
  \/ \E k, w \in Keys, m \in OpMetrics : SubmitEpochMetrics(k, w, m)
  \/ \E w \in Keys, e \in 0..MaxSlot : ClaimOperatorRewards(w, e)
  \/ \E k, w \in Keys, s \in OpSlashes : SlashOperator(k, w, s[1], s[2])

LEMMA OpCommands ==
  ASSUME OpNext PROVE OpInstruction
<1>1. ASSUME NEW k, NEW c, InitOperatorsConfig(k, c) \/ UpdateOperatorsConfig(k, c)
      PROVE  UNCHANGED <<operators, opVaults, opMoney>>
  BY <1>1 DEF InitOperatorsConfig, UpdateOperatorsConfig
<1>2. ASSUME NEW k, NEW n, NEW w, NEW b, SetDomainNsOperator(k, n, w, b)
      PROVE  UNCHANGED <<operators, opVaults, opMoney>>
  BY <1>2 DEF SetDomainNsOperator
<1>3. OpCli => OpInstruction
  BY <1>1, <1>2, Zenon DEF OpCli, CliOpInit, CliOpRegister, CliOpStake, CliOpUnstake,
     CliOpPause, CliOpResume, CliOpDomainSet, CliOpMetricsSubmit, CliOpClaim, CliOpSlash,
     OpInstruction
<1> QED  BY <1>1, <1>2, <1>3, Zenon DEF OpNext, OpInstruction

LEMMA OpStep ==
  ASSUME OpInv, OpNext PROVE OpInv' /\ OpActivates
<1>1. OpInstruction  BY OpCommands
<1> QED  BY <1>1, Zenon, OpConfigKeeps, OpRegisterKeeps, OpEndpointsKeeps, OpPauseKeeps,
            OpResumeKeeps, OpStakeKeeps, OpUnstakeKeeps, OpFundKeeps, OpMetricsKeeps,
            OpClaimKeeps, OpSlashKeeps DEF OpInstruction

LEMMA OpWaits ==
  ASSUME OpInv, UNCHANGED opVars PROVE OpInv'
BY DEF OpInv, opVars, OpTypeOK, OperatorPaidOnce

LEMMA OpStart ==
  ASSUME OpInit PROVE OpInv
<1>1. /\ DOMAIN operators = {} /\ DOMAIN opVaults = {} /\ DOMAIN opMetrics = {}
      /\ DOMAIN opClaims = {} /\ opTreasury = 0 /\ opFunded = 0
  BY DEF OpInit, NoAccounts
<1>2. IsFiniteSet(DOMAIN opMetrics)  BY <1>1, FS_EmptySet
<1>3. DOMAIN OpRewarded = {} /\ IsFiniteSet(DOMAIN OpRewarded)
  BY <1>1, <1>2 DEF OpRewarded
<1>4. SumFunction(OpRewarded) = 0  BY <1>3, SumZero
<1>5. OperatorPaidOnce  BY <1>1, <1>4 DEF OperatorPaidOnce, OpRewarded
<1> QED  BY <1>1, <1>2, <1>5 DEF OpInv, OpTypeOK

-----------------------------------------------------------------------------
(***************************************************************************)
(* The name server incentives program.                                     *)
(***************************************************************************)

NsRecord == [owner: Keys, active: BOOLEAN, lastClaimed: 0..MaxSlot]

NsAmounts == [p \in nsPaid |-> p.amount]

NsPayments ==
  /\ IsFiniteSet(nsPaid)
  /\ \A p \in nsPaid : p.epoch \in Nat /\ p.amount \in Nat /\ p.domain \in DOMAIN nsClaims
  /\ \A p, q \in nsPaid : (p.domain = q.domain /\ p.epoch = q.epoch) => p = q
  /\ \A p \in nsPaid : p.epoch <= nsClaims[p.domain].lastClaimed
  /\ nsVault + SumFunction(NsAmounts) = nsFunded

NsAccounts ==
  /\ nsVault \in Nat /\ nsFunded \in 0..NsMaxFunds
  /\ nsConfig = None \/ (nsConfig \in NsConfigType /\ nsConfig.epochLen > 0)
  /\ \A d \in DOMAIN nsClaims : nsClaims[d] \in NsRecord
  /\ DOMAIN nsUsage \subseteq NsDomains \X (0..MaxSlot)
  /\ \A u \in DOMAIN nsUsage : nsUsage[u] \in Nat

NsInv == NsPayments /\ NsAccounts

LEMMA NsInvTypes == ASSUME NsInv PROVE NsTypeOK /\ NsEpochPaidOnce
BY DEF NsInv, NsPayments, NsAccounts, NsRecord, NsTypeOK, NsEpochPaidOnce, NsAmounts

LEMMA NsBooks ==
  ASSUME NsInv
  PROVE  /\ nsVault \in Nat /\ nsFunded \in Nat
         /\ \A p \in nsPaid : NsAmounts[p] \in Int
         /\ SumFunctionOnSet(NsAmounts, nsPaid) \in Int
         /\ nsVault + SumFunctionOnSet(NsAmounts, nsPaid) = nsFunded
<1>1. \A p \in nsPaid : NsAmounts[p] \in Int  BY DEF NsInv, NsPayments, NsAmounts
<1>2. DOMAIN NsAmounts = nsPaid  BY DEF NsAmounts
<1>3. SumFunction(NsAmounts) = SumFunctionOnSet(NsAmounts, nsPaid)  BY <1>2, SumAll
<1>4. SumFunctionOnSet(NsAmounts, nsPaid) \in Int
  BY <1>1, SumInt DEF NsInv, NsPayments
<1> QED  BY <1>1, <1>3, <1>4, NsAssumption DEF NsInv, NsPayments, NsAccounts

\* An epoch of the clock.
LEMMA EpochInRange ==
  ASSUME SlotType, NEW len \in Nat, len > 0
  PROVE  EpochOf(len) \in 0..MaxSlot
<1>1. slot \in Nat /\ MaxSlot \in Nat /\ slot <= MaxSlot
  BY ChainAssumption DEF SlotType
<1>2. 1 * MaxSlot <= len * MaxSlot /\ len * MaxSlot \in Nat
  BY <1>1, ProductBounded
<1>3. slot <= MaxSlot * len  BY <1>1, <1>2
<1> QED  BY <1>1, <1>3, QuotientBounded DEF EpochOf

\* What the payments say, when no payment is made and no claim is forgotten.
LEMMA NsPaymentsKept ==
  ASSUME NsInv, UNCHANGED nsPaid, nsVault' - nsVault = nsFunded' - nsFunded,
         nsVault' \in Nat, nsFunded' \in Nat,
         \A d \in DOMAIN nsClaims :
           /\ d \in DOMAIN nsClaims'
           /\ nsClaims'[d].lastClaimed = nsClaims[d].lastClaimed
  PROVE  NsPayments'
<1>1. NsAmounts' = NsAmounts  BY DEF NsAmounts
<1>2. SumFunction(NsAmounts) \in Int
  <2>1. DOMAIN NsAmounts = nsPaid  BY DEF NsAmounts
  <2> QED  BY <2>1, NsBooks, SumAll
<1>3. nsVault + SumFunction(NsAmounts) = nsFunded  BY DEF NsInv, NsPayments
<1>4. nsVault' + SumFunction(NsAmounts') = nsFunded'  BY <1>1, <1>2, <1>3, NsBooks
<1>5. \A p \in nsPaid :
        /\ p.epoch \in Nat /\ p.amount \in Nat /\ p.domain \in DOMAIN nsClaims'
        /\ p.epoch <= nsClaims'[p.domain].lastClaimed
  BY DEF NsInv, NsPayments
<1> QED  BY <1>4, <1>5 DEF NsInv, NsPayments

LEMMA NsConfigKeeps ==
  ASSUME NsInv, NEW k, NEW c \in NsConfigType,
         InitializeNsConfig(k, c) \/ UpdateNsConfig(k, c)
  PROVE  NsInv'
<1>1. /\ nsConfig' = c /\ c.epochLen > 0
      /\ UNCHANGED <<nsClaims, nsAttestations, nsUsage, nsVault, nsFunded, nsPaid>>
  BY DEF InitializeNsConfig, UpdateNsConfig, NsConfigValid
<1>2. NsPayments'  BY <1>1 DEF NsInv, NsPayments, NsAmounts
<1>3. NsAccounts'  BY <1>1 DEF NsInv, NsAccounts
<1> QED  BY <1>2, <1>3 DEF NsInv

LEMMA NsFundKeeps ==
  ASSUME NsInv, NEW k, NEW a \in NsFunding, FundNsRewards(k, a)
  PROVE  NsInv'
<1>1. /\ nsVault' = nsVault + a /\ nsFunded' = nsFunded + a /\ nsFunded + a <= NsMaxFunds
      /\ UNCHANGED <<nsConfig, nsClaims, nsUsage, nsPaid>>
  BY DEF FundNsRewards
<1>2. a \in Nat /\ NsMaxFunds \in Nat  BY NsAssumption
<1>3. nsVault' \in Nat /\ nsFunded' \in 0..NsMaxFunds  BY <1>1, <1>2, NsBooks
<1>4. nsVault' - nsVault = nsFunded' - nsFunded  BY <1>1, <1>2, NsBooks
<1>5. NsPayments'  BY <1>1, <1>2, <1>3, <1>4, NsPaymentsKept
<1>6. NsAccounts'  BY <1>1, <1>3 DEF NsInv, NsAccounts
<1> QED  BY <1>5, <1>6 DEF NsInv

LEMMA NsCreateKeeps ==
  ASSUME NsInv, NEW k \in Keys, NEW d, CreateNsClaim(k, d)
  PROVE  NsInv'
<1>1. /\ nsClaims' = Created(nsClaims, d, NsClaim(k)) /\ d \notin DOMAIN nsClaims
      /\ UNCHANGED <<nsConfig, nsUsage, nsVault, nsFunded, nsPaid>>
  BY DEF CreateNsClaim, Vacant
<1>2. /\ DOMAIN nsClaims' = DOMAIN nsClaims \cup {d} /\ nsClaims'[d] = NsClaim(k)
      /\ \A c \in DOMAIN nsClaims : nsClaims'[c] = nsClaims[c]
  BY <1>1 DEF Created
<1>3. NsClaim(k) \in NsRecord  BY ChainAssumption DEF NsClaim, NsRecord
<1>4. \A c \in DOMAIN nsClaims' : nsClaims'[c] \in NsRecord
  BY <1>2, <1>3 DEF NsInv, NsAccounts
<1>5. NsPayments'  BY <1>1, <1>2, NsBooks, NsPaymentsKept
<1>6. NsAccounts'  BY <1>1, <1>4 DEF NsInv, NsAccounts
<1> QED  BY <1>5, <1>6 DEF NsInv

LEMMA NsRevokeKeeps ==
  ASSUME NsInv, NEW k, NEW d, RevokeNsClaim(k, d)
  PROVE  NsInv'
<1>1. PICK r : r = [nsClaims[d] EXCEPT !.active = FALSE]  OBVIOUS
<1>2. /\ d \in DOMAIN nsClaims
      /\ nsClaims' = [nsClaims EXCEPT ![d].active = FALSE]
      /\ UNCHANGED <<nsConfig, nsUsage, nsVault, nsFunded, nsPaid>>
  BY DEF RevokeNsClaim, NsOwnerSigns, Exists
<1>3. /\ DOMAIN nsClaims' = DOMAIN nsClaims /\ nsClaims'[d] = r
      /\ \A c \in DOMAIN nsClaims \ {d} : nsClaims'[c] = nsClaims[c]
  BY <1>1, <1>2
<1>4. r \in NsRecord /\ r.lastClaimed = nsClaims[d].lastClaimed
  <2>1. nsClaims[d] \in NsRecord  BY <1>2 DEF NsInv, NsAccounts
  <2> QED  BY <1>1, <2>1 DEF NsRecord
<1>5. \A c \in DOMAIN nsClaims' : nsClaims'[c] \in NsRecord
  BY <1>3, <1>4 DEF NsInv, NsAccounts
<1>6. \A c \in DOMAIN nsClaims : nsClaims'[c].lastClaimed = nsClaims[c].lastClaimed
  BY <1>3, <1>4
<1>7. NsPayments'  BY <1>2, <1>3, <1>6, NsBooks, NsPaymentsKept
<1>8. NsAccounts'  BY <1>2, <1>5 DEF NsInv, NsAccounts
<1> QED  BY <1>7, <1>8 DEF NsInv

LEMMA NsAttestKeeps ==
  ASSUME NsInv, NEW k, NEW d, SubmitDelegationAttestation(k, d)
  PROVE  NsInv'
<1>1. UNCHANGED <<nsConfig, nsClaims, nsUsage, nsVault, nsFunded, nsPaid>>
  BY DEF SubmitDelegationAttestation
<1> QED  BY <1>1 DEF NsInv, NsPayments, NsAccounts, NsAmounts

LEMMA NsUsageKeeps ==
  ASSUME NsInv, SlotType, NEW k, NEW d \in NsDomains, NEW q \in NsQueries,
         SubmitUsageAggregate(k, d, q)
  PROVE  NsInv'
<1> DEFINE x == <<d, NsEpoch>>
<1>1. /\ nsConfig # None /\ nsUsage' = Created(nsUsage, x, q)
      /\ UNCHANGED <<nsConfig, nsClaims, nsVault, nsFunded, nsPaid>>
  BY DEF SubmitUsageAggregate, VerifierReports
<1>2. NsEpoch \in 0..MaxSlot
  <2>1. nsConfig.epochLen \in Nat /\ nsConfig.epochLen > 0
    BY <1>1 DEF NsInv, NsAccounts, NsConfigType
  <2> QED  BY <2>1, EpochInRange DEF NsEpoch
<1>3. x \in NsDomains \X (0..MaxSlot)  BY <1>2
<1> HIDE DEF x
<1>4. q \in Nat  BY NsAssumption
<1>5. /\ DOMAIN nsUsage' \subseteq NsDomains \X (0..MaxSlot)
      /\ \A u \in DOMAIN nsUsage' : nsUsage'[u] \in Nat
  BY <1>1, <1>3, <1>4 DEF NsInv, NsAccounts, Created
<1>6. NsPayments'  BY <1>1 DEF NsInv, NsPayments, NsAmounts
<1>7. NsAccounts'  BY <1>1, <1>5 DEF NsInv, NsAccounts
<1> QED  BY <1>6, <1>7 DEF NsInv

\* A claim pays for epochs after all that were paid for the domain, each once.
LEMMA NsClaimKeeps ==
  ASSUME NsInv, NEW k, NEW d, NEW from \in 1..MaxSlot, NEW to \in 1..MaxSlot,
         ClaimNsRewards(k, d, from, to)
  PROVE  NsInv'
<1> DEFINE S == from..to
           pay(e) == [domain |-> d, epoch |-> e, from |-> from, at |-> slot,
                      amount |-> EpochReward(d, e)]
           f == [e \in S |-> EpochReward(d, e)]
           h == [e \in S |-> pay(e)]
           T == {h[e] : e \in S}
           total == SumFunction(f)
<1>1. /\ nsConfig # None /\ d \in DOMAIN nsClaims
      /\ from <= to /\ from > nsClaims[d].lastClaimed
      /\ \A e \in S : EpochClaimable(d, e)
      /\ total \in 1..nsVault /\ nsVault' = nsVault - total
      /\ nsClaims' = [nsClaims EXCEPT ![d].lastClaimed = to]
      /\ nsPaid' = nsPaid \cup {pay(e) : e \in S}
      /\ UNCHANGED <<nsConfig, nsUsage, nsFunded>>
  BY DEF ClaimNsRewards, ClaimNsAccounts, NsOwnerSigns, Exists
<1>2. from \in Nat /\ to \in Nat /\ IsFiniteSet(S)  BY ChainAssumption, FS_Interval
<1>3. \A e \in S : e \in Nat /\ e >= from /\ e <= to  BY <1>2
<1>4. \A e \in S : EpochReward(d, e) \in Nat
  <2> SUFFICES ASSUME NEW e \in S PROVE EpochReward(d, e) \in Nat  OBVIOUS
  <2> DEFINE q == nsUsage[<<d, e>>]
  <2>1. q \in Nat  BY <1>1 DEF EpochClaimable, Exists, NsInv, NsAccounts
  <2>2. nsConfig.perQuery \in Nat /\ nsConfig.maxReward \in Nat
    BY <1>1 DEF NsInv, NsAccounts, NsConfigType
  <2> HIDE DEF q
  <2>3. q * nsConfig.perQuery \in Nat  BY <2>1, <2>2
  <2>4. EpochReward(d, e) = Lesser(q * nsConfig.perQuery, nsConfig.maxReward)
    BY DEF EpochReward, q
  <2> QED  BY <2>2, <2>3, <2>4 DEF Lesser
<1>5. \A e \in S : /\ h[e] = pay(e) /\ h[e].epoch = e /\ h[e].domain = d
                   /\ h[e].amount = f[e] /\ f[e] \in Nat
  BY <1>4
<1>6. nsPaid' = nsPaid \cup T  BY <1>1
<1>7. DOMAIN f = S  OBVIOUS
<1> HIDE DEF h, f, S
<1>8. \A p \in T : p.epoch \in Nat /\ p.amount \in Nat /\ p.domain = d
                   /\ p.epoch >= from /\ p.epoch <= to
  <2> TAKE p \in T
  <2>1. PICK e \in S : p = h[e]  OBVIOUS
  <2>2. h[e].epoch = e /\ h[e].domain = d /\ h[e].amount \in Nat  BY <1>5
  <2> QED  BY <1>3, <2>1, <2>2
<1>9. nsClaims[d].lastClaimed \in Nat
  BY <1>1, ChainAssumption DEF NsInv, NsAccounts, NsRecord
<1>10. \A p \in nsPaid : p.domain = d => p.epoch < from
  BY <1>1, <1>2, <1>9 DEF NsInv, NsPayments
<1>11. \A p \in nsPaid, q \in T : ~(p.domain = q.domain /\ p.epoch = q.epoch)
  BY <1>2, <1>8, <1>10 DEF NsInv, NsPayments
<1>12. nsPaid \cap T = {}  BY <1>11
<1>13. \A p, q \in T : p.epoch = q.epoch => p = q
  <2> TAKE p, q \in T
  <2>1. PICK e \in S : p = h[e]  OBVIOUS
  <2>2. PICK y \in S : q = h[y]  OBVIOUS
  <2>3. p.epoch = e /\ q.epoch = y  BY <1>5, <2>1, <2>2
  <2> QED  BY <2>1, <2>2, <2>3
<1>14. \A p, q \in nsPaid' : (p.domain = q.domain /\ p.epoch = q.epoch) => p = q
  BY <1>6, <1>11, <1>13 DEF NsInv, NsPayments
<1>15. IsFiniteSet(T) /\ SumFunctionOnSet(NsAmounts', T) = SumFunctionOnSet(f, S)
  <2> DEFINE g == NsAmounts'
  <2>0. \A p \in nsPaid' : g[p] = p.amount  BY DEF NsAmounts
  <2> HIDE DEF g
  <2>1. \A e \in S : f[e] \in Int /\ g[h[e]] = f[e]
    <3> TAKE e \in S
    <3>1. h[e] \in nsPaid' /\ h[e].amount = f[e] /\ f[e] \in Nat  BY <1>5, <1>6
    <3> QED  BY <2>0, <3>1
  <2>2. \A e, y \in S : h[e] = h[y] => e = y
    <3> TAKE e, y \in S
    <3>1. h[e].epoch = e /\ h[y].epoch = y  BY <1>5
    <3> QED  BY <3>1
  <2>3. IsFiniteSet(T) /\ SumFunctionOnSet(g, T) = SumFunctionOnSet(f, S)
    <3>1. \A e \in S : f[e] \in Int  BY <2>1
    <3>2. \A e \in S : g[h[e]] = f[e]  BY <2>1
    <3> QED  BY <1>2, <2>2, <3>1, <3>2, SumImage
  <2> QED  BY <2>3 DEF g
<1> HIDE DEF T
<1>16. IsFiniteSet(nsPaid')
  BY <1>6, <1>15, FS_Union DEF NsInv, NsPayments
<1>17. total = SumFunctionOnSet(f, S) /\ total \in Nat /\ total <= nsVault
  BY <1>1, <1>7, NsBooks, SumAll
<1>18. SumFunction(NsAmounts') = SumFunctionOnSet(NsAmounts, nsPaid) + total
  <2> DEFINE g == NsAmounts'
  <2>1. DOMAIN g = nsPaid \cup T /\ \A p \in nsPaid \cup T : g[p] = p.amount
    BY <1>6 DEF NsAmounts
  <2>2. \A p \in nsPaid \cup T : p.amount \in Nat
    BY <1>8 DEF NsInv, NsPayments
  <2>3. \A p \in nsPaid : NsAmounts[p] \in Int /\ NsAmounts[p] = p.amount
    BY NsBooks DEF NsAmounts
  <2>4. SumFunctionOnSet(g, T) = total  BY <1>15, <1>17
  <2> HIDE DEF g, total
  <2>5. IsFiniteSet(nsPaid)  BY DEF NsInv, NsPayments
  <2>6. \A p \in nsPaid \cup T : g[p] \in Int  BY <2>1, <2>2
  <2>7. SumFunction(g) = SumFunctionOnSet(g, nsPaid) + SumFunctionOnSet(g, T)
    <3>1. SumFunction(g) = SumFunctionOnSet(g, nsPaid \cup T)  BY <2>1, SumAll
    <3> QED  BY <1>12, <1>15, <2>5, <2>6, <3>1, SumUnion
  <2>8. SumFunctionOnSet(g, nsPaid) = SumFunctionOnSet(NsAmounts, nsPaid)
    <3>1. \A p \in nsPaid : NsAmounts[p] \in Int /\ g[p] = NsAmounts[p]  BY <2>1, <2>3
    <3> QED  BY <2>5, <3>1, SumSame
  <2> QED  BY <2>4, <2>7, <2>8 DEF g
<1> HIDE DEF total
<1>19. nsVault' \in Nat /\ nsVault' + SumFunction(NsAmounts') = nsFunded'
  BY <1>1, <1>17, <1>18, NsBooks
<1>20. PICK r : r = [nsClaims[d] EXCEPT !.lastClaimed = to]  OBVIOUS
<1>21. /\ DOMAIN nsClaims' = DOMAIN nsClaims /\ nsClaims'[d] = r
       /\ \A c \in DOMAIN nsClaims \ {d} : nsClaims'[c] = nsClaims[c]
  BY <1>1, <1>20
<1>22. r \in NsRecord /\ r.lastClaimed = to
  <2>1. nsClaims[d] \in NsRecord /\ to \in 0..MaxSlot
    BY <1>1, ChainAssumption DEF NsInv, NsAccounts
  <2> QED  BY <1>20, <2>1 DEF NsRecord
<1>23. \A p \in nsPaid' : /\ p.epoch \in Nat /\ p.amount \in Nat
                          /\ p.domain \in DOMAIN nsClaims'
                          /\ p.epoch <= nsClaims'[p.domain].lastClaimed
  <2>1. ASSUME NEW p \in T
        PROVE  /\ p.epoch \in Nat /\ p.amount \in Nat /\ p.domain \in DOMAIN nsClaims'
               /\ p.epoch <= nsClaims'[p.domain].lastClaimed
    BY <1>1, <1>8, <1>21, <1>22, <2>1
  <2>2. ASSUME NEW p \in nsPaid
        PROVE  /\ p.epoch \in Nat /\ p.amount \in Nat /\ p.domain \in DOMAIN nsClaims'
               /\ p.epoch <= nsClaims'[p.domain].lastClaimed
    <3>1. /\ p.epoch \in Nat /\ p.amount \in Nat /\ p.domain \in DOMAIN nsClaims
          /\ p.epoch <= nsClaims[p.domain].lastClaimed
      BY DEF NsInv, NsPayments
    <3>2. CASE p.domain = d
      BY <1>1, <1>2, <1>10, <1>21, <1>22, <3>1, <3>2
    <3>3. CASE p.domain # d  BY <1>21, <3>1, <3>3
    <3> QED  BY <3>2, <3>3
  <2> QED  BY <1>6, <2>1, <2>2
<1>24. \A c \in DOMAIN nsClaims' : nsClaims'[c] \in NsRecord
  BY <1>21, <1>22 DEF NsInv, NsAccounts
<1>25. NsPayments'  BY <1>14, <1>16, <1>19, <1>23 DEF NsPayments
<1>26. NsAccounts'  BY <1>1, <1>19, <1>24 DEF NsInv, NsAccounts
<1> QED  BY <1>25, <1>26 DEF NsInv

NsInstruction ==
  \E k \in Keys :
    \/ \E c \in NsConfigType : InitializeNsConfig(k, c) \/ UpdateNsConfig(k, c)
    \/ \E a \in NsFunding : FundNsRewards(k, a)
    \/ \E d \in NsDomains :
         \/ CreateNsClaim(k, d) \/ RevokeNsClaim(k, d) \/ SubmitDelegationAttestation(k, d)
         \/ \E q \in NsQueries : SubmitUsageAggregate(k, d, q)
         \/ \E from, to \in 1..MaxSlot : ClaimNsRewards(k, d, from, to)

LEMMA NsCommands == ASSUME NsNext PROVE NsInstruction
<1>1. ASSUME NEW k \in Keys, NEW c \in NsConfigs, CliNsInitConfig(k, c)
      PROVE  \E z \in NsConfigType : InitializeNsConfig(k, z)
  <2> DEFINE z == IF c.verifiers = {} THEN [c EXCEPT !.verifiers = {k}] ELSE c
  <2>1. InitializeNsConfig(k, z)  BY <1>1 DEF CliNsInitConfig
  <2>2. z \in NsConfigType  BY NsAssumption DEF NsConfigType
  <2> QED  BY <2>1, <2>2
<1>2. NsCli => NsInstruction
  BY <1>1, Zenon DEF NsCli, CliNsFund, CliNsCreate, CliNsRevoke, CliNsUsage, CliNsAttest,
     CliNsClaimRewards, NsInstruction
<1>3. \A c \in NsConfigs : c \in NsConfigType  BY NsAssumption
<1> QED  BY <1>2, <1>3, Zenon DEF NsNext, NsInstruction

LEMMA NsStep == ASSUME NsInv, SlotType, NsNext PROVE NsInv'
<1>1. NsInstruction  BY NsCommands
<1> QED  BY <1>1, Zenon, NsConfigKeeps, NsFundKeeps, NsCreateKeeps, NsRevokeKeeps,
            NsAttestKeeps, NsUsageKeeps, NsClaimKeeps DEF NsInstruction

LEMMA NsWaits == ASSUME NsInv, UNCHANGED nsVars PROVE NsInv'
BY DEF NsInv, nsVars, NsPayments, NsAccounts, NsAmounts

LEMMA NsStart == ASSUME NsInit PROVE NsInv
<1>1. /\ nsPaid = {} /\ nsVault = 0 /\ nsFunded = 0 /\ nsConfig = None
      /\ DOMAIN nsClaims = {} /\ DOMAIN nsUsage = {}
  BY DEF NsInit, NoAccounts
<1>2. IsFiniteSet(nsPaid)  BY <1>1, FS_EmptySet
<1>3. DOMAIN NsAmounts = {}  BY <1>1 DEF NsAmounts
<1>4. SumFunction(NsAmounts) = 0  BY <1>3, SumNone
<1> QED  BY <1>1, <1>2, <1>4, NsAssumption DEF NsInv, NsPayments, NsAccounts

-----------------------------------------------------------------------------
(***************************************************************************)
(* The witness rewards program.                                            *)
(***************************************************************************)

WrRecord ==
  [submitted: Nat, rewardable: Nat, earned: Nat, lastRoot: WrRoots, claimed: BOOLEAN]

StatsOf(e) == {s \in DOMAIN wrStats : s[1] = e}
ClaimedStats == {s \in DOMAIN wrStats : wrStats[s].claimed}

WrConfigured ==
  \/ wrConfig = None /\ DOMAIN wrStats = {} /\ DOMAIN wrEpochs = {}
  \/ wrConfig # None /\ wrConfig \in WrConfigType /\ wrConfig.epochLen > 0

WrBonded ==
  /\ DOMAIN wrLamports = DOMAIN wrBonds
  /\ \A m \in DOMAIN wrBonds : wrBonds[m].lamports \in 0..WrMaxBond

WrStatsKept ==
  /\ IsFiniteSet(DOMAIN wrStats)
  /\ \A s \in DOMAIN wrStats : /\ wrStats[s] \in WrRecord /\ s[1] \in DOMAIN wrEpochs
                               /\ wrStats[s].rewardable <= wrConfig.maxReceipts

WrEpochsKept ==
  \A e \in DOMAIN wrEpochs : /\ wrEpochs[e] \in Nat /\ wrEpochs[e] <= wrConfig.maxReward
                             /\ wrEpochs[e] = SumFunctionOnSet(WrEarned, StatsOf(e))

WrVaultKept ==
  /\ wrVault \in Nat /\ wrFunded \in Nat
  /\ wrFunded - wrVault = SumFunctionOnSet(WrEarned, ClaimedStats)

WrInv == WrConfigured /\ WrBonded /\ WrStatsKept /\ WrEpochsKept /\ WrVaultKept

LEMMA WrInvTypes == ASSUME WrInv PROVE WrTypeOK /\ WitnessBudgetKept
<1>1. WrTypeOK
  BY DEF WrInv, WrBonded, WrStatsKept, WrVaultKept, WrRecord, WrTypeOK
<1>2. WitnessBudgetKept
  BY DEF WrInv, WrStatsKept, WrEpochsKept, WrVaultKept, StatsOf, ClaimedStats,
     WitnessBudgetKept
<1> QED  BY <1>1, <1>2

LEMMA WrBooks ==
  ASSUME WrInv
  PROVE  /\ \A s \in DOMAIN wrStats : WrEarned[s] \in Nat /\ WrEarned[s] = wrStats[s].earned
         /\ IsFiniteSet(ClaimedStats) /\ \A e : IsFiniteSet(StatsOf(e))
         /\ wrVault \in Nat /\ wrFunded \in Nat
<1>1. \A s \in DOMAIN wrStats : WrEarned[s] \in Nat /\ WrEarned[s] = wrStats[s].earned
  BY DEF WrInv, WrStatsKept, WrRecord, WrEarned
<1>2. IsFiniteSet(DOMAIN wrStats)  BY DEF WrInv, WrStatsKept
<1>3. IsFiniteSet(ClaimedStats)
  <2>1. ClaimedStats \subseteq DOMAIN wrStats  BY DEF ClaimedStats
  <2> QED  BY <1>2, <2>1, FS_Subset
<1>4. \A e : IsFiniteSet(StatsOf(e))
  <2> TAKE e
  <2>1. StatsOf(e) \subseteq DOMAIN wrStats  BY DEF StatsOf
  <2> QED  BY <1>2, <2>1, FS_Subset
<1> QED  BY <1>1, <1>3, <1>4 DEF WrInv, WrVaultKept

LEMMA WrInitKeeps ==
  ASSUME WrInv, NEW k, NEW c \in WrConfigs, WrInitConfig(k, c)
  PROVE  WrInv'
<1>1. /\ wrConfig = None /\ wrConfig' = c /\ c.epochLen > 0
      /\ UNCHANGED <<wrBonds, wrLamports, wrStats, wrEpochs, wrVault, wrFunded>>
  BY DEF WrInitConfig
<1>2. c \in WrConfigType /\ c # None  BY WrAssumption
<1>3. DOMAIN wrStats = {} /\ DOMAIN wrEpochs = {}  BY <1>1 DEF WrInv, WrConfigured
<1>4. WrConfigured'  BY <1>1, <1>2 DEF WrConfigured
<1>5. WrBonded' /\ WrVaultKept'
  BY <1>1 DEF WrInv, WrBonded, WrVaultKept, ClaimedStats, WrEarned
<1>6. WrStatsKept' /\ WrEpochsKept'
  BY <1>1, <1>3 DEF WrInv, WrStatsKept, WrEpochsKept
<1> QED  BY <1>4, <1>5, <1>6 DEF WrInv

LEMMA WrEnableKeeps ==
  ASSUME WrInv, NEW k, NEW b \in BOOLEAN, WrSetEnabled(k, b)
  PROVE  WrInv'
<1>1. PICK c : c = [wrConfig EXCEPT !.enabled = b]  OBVIOUS
<1>2. /\ wrConfig # None /\ wrConfig' = c
      /\ UNCHANGED <<wrBonds, wrLamports, wrStats, wrEpochs, wrVault, wrFunded>>
  BY <1>1 DEF WrSetEnabled
<1>3. /\ c \in WrConfigType /\ c.epochLen = wrConfig.epochLen
      /\ c.maxReward = wrConfig.maxReward /\ c.maxReceipts = wrConfig.maxReceipts
  <2>1. wrConfig \in WrConfigType  BY <1>2 DEF WrInv, WrConfigured
  <2> QED  BY <1>1, <2>1 DEF WrConfigType
<1>4. WrConfigured'  BY <1>2, <1>3, WrAssumption DEF WrInv, WrConfigured
<1>5. WrBonded' /\ WrVaultKept'
  BY <1>2 DEF WrInv, WrBonded, WrVaultKept, ClaimedStats, WrEarned
<1>6. WrStatsKept' /\ WrEpochsKept'
  BY <1>2, <1>3 DEF WrInv, WrStatsKept, WrEpochsKept, StatsOf, WrEarned
<1> QED  BY <1>4, <1>5, <1>6 DEF WrInv

LEMMA WrFundKeeps ==
  ASSUME WrInv, NEW a \in WrFunding, FundRewardVault(a)
  PROVE  WrInv'
<1>1. /\ wrVault' = wrVault + a /\ wrFunded' = wrFunded + a
      /\ UNCHANGED <<wrConfig, wrBonds, wrLamports, wrStats, wrEpochs>>
  BY DEF FundRewardVault
<1>2. a \in Nat  BY WrAssumption
<1>3. ClaimedStats' = ClaimedStats /\ WrEarned' = WrEarned
  BY <1>1 DEF ClaimedStats, WrEarned
<1>4. WrVaultKept'
  <2>1. /\ wrVault' \in Nat /\ wrFunded' \in Nat
        /\ wrFunded' - wrVault' = wrFunded - wrVault
    BY <1>1, <1>2, WrBooks
  <2> QED  BY <1>3, <2>1 DEF WrInv, WrVaultKept
<1>5. WrConfigured' /\ WrBonded' /\ WrStatsKept' /\ WrEpochsKept'
  BY <1>1 DEF WrInv, WrConfigured, WrBonded, WrStatsKept, WrEpochsKept, StatsOf, WrEarned
<1> QED  BY <1>4, <1>5 DEF WrInv

\* A bond that is written leaves what was earned alone.
LEMMA WrBondWritten ==
  ASSUME WrInv, WrBonded', UNCHANGED <<wrConfig, wrStats, wrEpochs, wrVault, wrFunded>>
  PROVE  WrInv'
BY DEF WrInv, WrConfigured, WrStatsKept, WrEpochsKept, WrVaultKept, StatsOf,
   ClaimedStats, WrEarned

LEMMA WrBondOf ==
  ASSUME WrInv, NEW m PROVE BondLamports(m) \in 0..WrMaxBond
BY WrAssumption DEF WrInv, WrBonded, BondLamports, Exists

LEMMA WrDepositKeeps ==
  ASSUME WrInv, NEW m, NEW b \in WrBonds, WrDepositBond(m, b)
  PROVE  WrInv'
<1> DEFINE n == BondLamports(m) + b
<1>1. /\ n <= WrMaxBond
      /\ wrBonds' = Created(wrBonds, m, MinerBond(n))
      /\ wrLamports' = Created(wrLamports, m, Held(m) + b)
      /\ UNCHANGED <<wrConfig, wrStats, wrEpochs, wrVault, wrFunded>>
  BY DEF WrDepositBond
<1>2. n \in 0..WrMaxBond  BY <1>1, WrBondOf, WrAssumption
<1> HIDE DEF n
<1>3. MinerBond(n).lamports = n  BY DEF MinerBond
<1>4. WrBonded'  BY <1>1, <1>2, <1>3 DEF WrInv, WrBonded, Created
<1> QED  BY <1>1, <1>4, WrBondWritten

LEMMA WrWithdrawKeeps ==
  ASSUME WrInv, NEW m, NEW b \in WrBonds, WrWithdrawBond(m, b)
  PROVE  WrInv'
<1> DEFINE n == wrBonds[m].lamports - b
<1>1. /\ m \in DOMAIN wrBonds /\ wrBonds[m].lamports >= b
      /\ wrBonds' = [wrBonds EXCEPT ![m] = MinerBond(n)]
      /\ DOMAIN wrLamports' = DOMAIN wrLamports
      /\ UNCHANGED <<wrConfig, wrStats, wrEpochs, wrVault, wrFunded>>
  BY DEF WrWithdrawBond, WrBondAccounts, Exists
<1>2. n \in 0..WrMaxBond  BY <1>1, WrAssumption DEF WrInv, WrBonded
<1> HIDE DEF n
<1>3. MinerBond(n).lamports = n  BY DEF MinerBond
<1>4. WrBonded'  BY <1>1, <1>2, <1>3 DEF WrInv, WrBonded
<1> QED  BY <1>1, <1>4, WrBondWritten

LEMMA RewardIsNat ==
  ASSUME NEW r \in Nat, NEW n \in Nat, NEW c \in Nat, wrConfig \in WrConfigType
  PROVE  BatchReward(r, n, c) \in Nat
<1> DEFINE s == n * 10 + c * 100
           bonus == DiversityBonus(n, c)
           a == r * wrConfig.perReceipt
           bps == BpsDenom + bonus
<1>1. s \in Nat  OBVIOUS
<1>2. bonus \in Nat
  <2>1. bonus = Lesser(s % 65536, 2000)  BY DEF DiversityBonus, MaxDiversityBonusBps
  <2> HIDE DEF s, bonus
  <2>2. s % 65536 \in Nat  BY <1>1
  <2> QED  BY <2>1, <2>2 DEF Lesser
<1>3. a \in Nat  BY DEF WrConfigType
<1>4. bps \in Nat
  <2> HIDE DEF bonus
  <2> QED  BY <1>2 DEF BpsDenom
<1>5. BatchReward(r, n, c) = MulBps(a, bps)  BY DEF BatchReward
<1> HIDE DEF a, bps, bonus, s
<1> QED  BY <1>3, <1>4, <1>5, ShareOfAmount

\* A part that is cut to what is left below a cap stays below it.
LEMMA CutToCap ==
  ASSUME NEW a \in Nat, NEW n \in Nat, NEW cap \in Nat, a <= cap
  PROVE  /\ Lesser(n, SaturatingSub(cap, a)) \in Nat
         /\ a + Lesser(n, SaturatingSub(cap, a)) <= cap
BY DEF Lesser, SaturatingSub

\* What an epoch accrued is what its miners earned, and within the budget.
LEMMA AccruedIs ==
  ASSUME WrInv, wrConfig # None, NEW e
  PROVE  /\ Accrued(e) \in Nat /\ Accrued(e) <= wrConfig.maxReward
         /\ Accrued(e) = SumFunctionOnSet(WrEarned, StatsOf(e))
<1>1. wrConfig.maxReward \in Nat  BY DEF WrInv, WrConfigured, WrConfigType
<1>2. CASE e \in DOMAIN wrEpochs
  BY <1>2 DEF Accrued, Exists, WrInv, WrEpochsKept
<1>3. CASE e \notin DOMAIN wrEpochs
  <2>1. StatsOf(e) = {}  BY <1>3 DEF StatsOf, WrInv, WrStatsKept
  <2>2. Accrued(e) = 0  BY <1>3 DEF Accrued, Exists
  <2> QED  BY <1>1, <2>1, <2>2, SumEmpty
<1> QED  BY <1>2, <1>3

LEMMA StatsAre ==
  ASSUME WrInv, wrConfig # None, NEW e, NEW m
  PROVE  /\ Stats(e, m).submitted \in Nat /\ Stats(e, m).rewardable \in Nat
         /\ Stats(e, m).earned \in Nat
         /\ Stats(e, m).rewardable <= wrConfig.maxReceipts
         /\ Stats(e, m).earned = IF <<e, m>> \in DOMAIN wrStats THEN WrEarned[<<e, m>>] ELSE 0
         /\ <<e, m>> \in DOMAIN wrStats => Stats(e, m) = wrStats[<<e, m>>]
<1> DEFINE x == <<e, m>>
<1>1. wrConfig.maxReceipts \in Nat  BY DEF WrInv, WrConfigured, WrConfigType
<1>2. CASE x \in DOMAIN wrStats
  <2>1. Stats(e, m) = wrStats[x]  BY <1>2 DEF Stats, Exists
  <2>2. /\ wrStats[x] \in WrRecord /\ wrStats[x].rewardable <= wrConfig.maxReceipts
        /\ WrEarned[x] = wrStats[x].earned
    BY <1>2, WrBooks DEF WrInv, WrStatsKept
  <2> HIDE DEF x
  <2> QED  BY <1>2, <2>1, <2>2 DEF WrRecord, x
<1>3. CASE x \notin DOMAIN wrStats
  <2>1. Stats(e, m) = EpochMinerStats  BY <1>3 DEF Stats, Exists
  <2> QED  BY <1>1, <1>3, <2>1 DEF EpochMinerStats
<1> QED  BY <1>2, <1>3

\* The sums, when one miner's earnings of one epoch grow.
LEMMA EarningsGrow ==
  ASSUME WrInv, NEW x, NEW n, NEW gain \in Nat, NEW earned \in Nat,
         wrStats' = Created(wrStats, x, n), n.earned = earned + gain,
         earned = IF x \in DOMAIN wrStats THEN WrEarned[x] ELSE 0,
         ~n.claimed, x \in DOMAIN wrStats => ~wrStats[x].claimed
  PROVE  /\ SumFunctionOnSet(WrEarned', StatsOf(x[1])')
              = SumFunctionOnSet(WrEarned, StatsOf(x[1])) + gain
         /\ \A e : e # x[1] =>
              SumFunctionOnSet(WrEarned', StatsOf(e)')
                = SumFunctionOnSet(WrEarned, StatsOf(e))
         /\ SumFunctionOnSet(WrEarned', ClaimedStats')
              = SumFunctionOnSet(WrEarned, ClaimedStats)
<1> DEFINE f == WrEarned
           g == WrEarned'
<1>1. /\ DOMAIN wrStats' = DOMAIN wrStats \cup {x} /\ wrStats'[x] = n
      /\ \A y \in DOMAIN wrStats \ {x} : wrStats'[y] = wrStats[y]
  BY DEF Created
<1>2. \A y \in DOMAIN wrStats : f[y] \in Int  BY WrBooks
<1>3. g[x] = earned + gain /\ \A y \in DOMAIN wrStats \ {x} : g[y] = f[y]
  BY <1>1 DEF WrEarned
<1>4. g[x] \in Int  BY <1>3
<1>5. \A e : e # x[1] => StatsOf(e)' = StatsOf(e)  BY <1>1 DEF StatsOf
<1>6. StatsOf(x[1])' = StatsOf(x[1]) \cup {x}  BY <1>1 DEF StatsOf
<1>7. ClaimedStats' = ClaimedStats /\ x \notin ClaimedStats
  BY <1>1 DEF ClaimedStats
<1>8. earned = IF x \in DOMAIN wrStats THEN f[x] ELSE 0  OBVIOUS
<1> HIDE DEF f, g
<1>9. SumFunctionOnSet(g, StatsOf(x[1])') = SumFunctionOnSet(f, StatsOf(x[1])) + gain
  <2> DEFINE S == StatsOf(x[1])
             T == StatsOf(x[1])'
  <2>1. IsFiniteSet(S) /\ T = S \cup {x}  BY <1>6, WrBooks
  <2>2. S \subseteq DOMAIN wrStats /\ (x \in S <=> x \in DOMAIN wrStats)  BY DEF StatsOf
  <2> HIDE DEF S, T
  <2>3. \A y \in S : f[y] \in Int  BY <1>2, <2>2
  <2>4. \A y \in S \ {x} : g[y] = f[y]  BY <1>3, <2>2
  <2>5. /\ SumFunctionOnSet(f, S) \in Int
        /\ SumFunctionOnSet(g, T)
             = SumFunctionOnSet(f, S) + g[x] - (IF x \in S THEN f[x] ELSE 0)
    BY <1>4, <2>1, <2>3, <2>4, SumOnSetWrites
  <2>6. g[x] - (IF x \in S THEN f[x] ELSE 0) = gain  BY <1>3, <1>8, <2>2
  <2>7. SumFunctionOnSet(g, T) = SumFunctionOnSet(f, S) + gain
    BY <1>3, <1>8, <2>2, <2>5
  <2> QED  BY <2>7 DEF S, T
<1>10. ASSUME NEW e, e # x[1]
       PROVE  SumFunctionOnSet(g, StatsOf(e)') = SumFunctionOnSet(f, StatsOf(e))
  <2>1. /\ StatsOf(e)' = StatsOf(e) /\ IsFiniteSet(StatsOf(e))
        /\ StatsOf(e) \subseteq DOMAIN wrStats /\ x \notin StatsOf(e)
    BY <1>5, <1>10, WrBooks DEF StatsOf
  <2>2. \A y \in StatsOf(e) : f[y] \in Int /\ g[y] = f[y]  BY <1>2, <1>3, <2>1
  <2> QED  BY <2>1, <2>2, SumSame
<1>11. SumFunctionOnSet(g, ClaimedStats') = SumFunctionOnSet(f, ClaimedStats)
  <2>1. ClaimedStats \subseteq DOMAIN wrStats /\ IsFiniteSet(ClaimedStats)
    BY WrBooks DEF ClaimedStats
  <2>2. \A y \in ClaimedStats : f[y] \in Int /\ g[y] = f[y]  BY <1>2, <1>3, <1>7, <2>1
  <2> QED  BY <1>7, <2>1, <2>2, SumSame
<1> QED  BY <1>9, <1>10, <1>11 DEF f, g

LEMMA WrSubmitKeeps ==
  ASSUME WrInv, NEW m, NEW r \in WrRoots, NEW count \in WrCounts, NEW d \in WrDiversities,
         SubmitReceiptBatch(m, r, count, d[1], d[2])
  PROVE  WrInv'
<1>0. PICK e : e = EpochOf(wrConfig.epochLen)  OBVIOUS
<1> DEFINE st    == Stats(e, m)
           fresh == Lesser(count, SaturatingSub(wrConfig.maxReceipts, st.rewardable))
           gain  == Lesser(BatchReward(fresh, d[1], d[2]),
                           SaturatingSub(wrConfig.maxReward, Accrued(e)))
           x     == <<e, m>>
           n     == [submitted |-> st.submitted + count,
                     rewardable |-> st.rewardable + fresh,
                     earned |-> st.earned + gain, lastRoot |-> r, claimed |-> FALSE]
<1>1. /\ wrConfig # None /\ ~st.claimed
      /\ wrStats' = Created(wrStats, x, n)
      /\ wrEpochs' = Created(wrEpochs, e, Accrued(e) + gain)
      /\ UNCHANGED <<wrConfig, wrBonds, wrLamports, wrVault, wrFunded>>
  BY <1>0 DEF SubmitReceiptBatch, SubmitBatchAccounts
<1>2. wrConfig \in WrConfigType /\ wrConfig.maxReward \in Nat /\ wrConfig.maxReceipts \in Nat
  BY <1>1 DEF WrInv, WrConfigured, WrConfigType
<1>3. count \in Nat /\ d[1] \in Nat /\ d[2] \in Nat  BY WrAssumption
<1>4. x[1] = e  OBVIOUS
<1>5. /\ st.submitted \in Nat /\ st.rewardable \in Nat /\ st.earned \in Nat
      /\ st.rewardable <= wrConfig.maxReceipts
      /\ st.earned = IF x \in DOMAIN wrStats THEN WrEarned[x] ELSE 0
      /\ x \in DOMAIN wrStats => st = wrStats[x]
  BY <1>1, StatsAre
<1>6. /\ Accrued(e) \in Nat /\ Accrued(e) <= wrConfig.maxReward
      /\ Accrued(e) = SumFunctionOnSet(WrEarned, StatsOf(e))
  BY <1>1, AccruedIs
<1>7. fresh \in Nat /\ st.rewardable + fresh <= wrConfig.maxReceipts
  <2> DEFINE a == st.rewardable
             cap == wrConfig.maxReceipts
  <2>1. a \in Nat /\ cap \in Nat /\ a <= cap  BY <1>2, <1>5
  <2>2. fresh = Lesser(count, SaturatingSub(cap, a))  OBVIOUS
  <2> HIDE DEF a, cap, fresh
  <2>3. fresh \in Nat /\ a + fresh <= cap  BY <1>3, <2>1, <2>2, CutToCap
  <2> QED  BY <2>3 DEF a, cap
<1>8. gain \in Nat /\ Accrued(e) + gain <= wrConfig.maxReward
  <2> DEFINE a == Accrued(e)
             cap == wrConfig.maxReward
             reward == BatchReward(fresh, d[1], d[2])
  <2>1. a \in Nat /\ cap \in Nat /\ a <= cap  BY <1>2, <1>6
  <2>2. reward \in Nat
    <3> HIDE DEF fresh
    <3> QED  BY <1>2, <1>3, <1>7, RewardIsNat
  <2>3. gain = Lesser(reward, SaturatingSub(cap, a))  OBVIOUS
  <2> HIDE DEF a, cap, reward, gain
  <2>4. gain \in Nat /\ a + gain <= cap  BY <2>1, <2>2, <2>3, CutToCap
  <2> QED  BY <2>4 DEF a, cap
<1> DEFINE earned == st.earned
           accrued == Accrued(e)
<1>9. /\ n.earned = earned + gain /\ ~n.claimed /\ n.lastRoot = r
      /\ n.rewardable <= wrConfig.maxReceipts /\ n \in WrRecord
  <2> HIDE DEF fresh, gain, st
  <2>1. st.submitted + count \in Nat /\ st.rewardable + fresh \in Nat /\ st.earned + gain \in Nat
    BY <1>3, <1>5, <1>7, <1>8
  <2> QED  BY <1>7, <2>1 DEF WrRecord
<1>10. x \in DOMAIN wrStats => ~wrStats[x].claimed  BY <1>1, <1>5
<1>11. earned \in Nat /\ earned = IF x \in DOMAIN wrStats THEN WrEarned[x] ELSE 0
  BY <1>5
<1>12. /\ accrued \in Nat /\ accrued + gain <= wrConfig.maxReward
       /\ accrued = SumFunctionOnSet(WrEarned, StatsOf(e))
       /\ wrEpochs' = Created(wrEpochs, e, accrued + gain)
  BY <1>1, <1>6, <1>8
<1> HIDE DEF n, x, gain, fresh, st, earned, accrued
<1>13. /\ SumFunctionOnSet(WrEarned', StatsOf(x[1])')
            = SumFunctionOnSet(WrEarned, StatsOf(x[1])) + gain
       /\ \A y : y # x[1] => SumFunctionOnSet(WrEarned', StatsOf(y)')
                               = SumFunctionOnSet(WrEarned, StatsOf(y))
       /\ SumFunctionOnSet(WrEarned', ClaimedStats')
            = SumFunctionOnSet(WrEarned, ClaimedStats)
  <2>1. wrStats' = Created(wrStats, x, n)  BY <1>1
  <2>2. n.earned = earned + gain /\ ~n.claimed  BY <1>9
  <2>3. gain \in Nat /\ earned \in Nat  BY <1>8, <1>11
  <2>4. earned = IF x \in DOMAIN wrStats THEN WrEarned[x] ELSE 0  BY <1>11
  <2> QED  BY <1>10, <2>1, <2>2, <2>3, <2>4, EarningsGrow, Zenon
<1>14. /\ DOMAIN wrStats' = DOMAIN wrStats \cup {x} /\ wrStats'[x] = n
       /\ \A y \in DOMAIN wrStats \ {x} : wrStats'[y] = wrStats[y]
  BY <1>1 DEF Created
<1>15. /\ DOMAIN wrEpochs' = DOMAIN wrEpochs \cup {e} /\ wrEpochs'[e] = accrued + gain
       /\ \A y \in DOMAIN wrEpochs \ {e} : wrEpochs'[y] = wrEpochs[y]
  BY <1>12 DEF Created
<1>16. WrConfigured'  BY <1>1 DEF WrInv, WrConfigured
<1>17. WrBonded'  BY <1>1 DEF WrInv, WrBonded
<1>18. WrVaultKept'  BY <1>1, <1>13 DEF WrInv, WrVaultKept
<1>19. WrStatsKept'
  <2>1. IsFiniteSet(DOMAIN wrStats')  BY <1>14, FS_AddElement DEF WrInv, WrStatsKept
  <2>2. ASSUME NEW s \in DOMAIN wrStats'
        PROVE  /\ wrStats'[s] \in WrRecord /\ s[1] \in DOMAIN wrEpochs'
               /\ wrStats'[s].rewardable <= wrConfig'.maxReceipts
    <3>1. CASE s = x  BY <1>1, <1>4, <1>9, <1>14, <1>15, <3>1
    <3>2. CASE s # x  BY <1>1, <1>14, <1>15, <3>2 DEF WrInv, WrStatsKept
    <3> QED  BY <3>1, <3>2
  <2> QED  BY <2>1, <2>2 DEF WrStatsKept
<1>20. WrEpochsKept'
  <2> SUFFICES ASSUME NEW y \in DOMAIN wrEpochs'
               PROVE  /\ wrEpochs'[y] \in Nat /\ wrEpochs'[y] <= wrConfig'.maxReward
                      /\ wrEpochs'[y] = SumFunctionOnSet(WrEarned', StatsOf(y)')
    BY DEF WrEpochsKept
  <2>1. CASE y = e
    <3>1. wrEpochs'[y] = accrued + gain /\ accrued + gain \in Nat
      BY <1>8, <1>12, <1>15, <2>1
    <3>2. SumFunctionOnSet(WrEarned', StatsOf(y)') = accrued + gain
      BY <1>4, <1>12, <1>13, <2>1
    <3> QED  BY <1>1, <1>12, <3>1, <3>2
  <2>2. CASE y # e
    <3>1. y \in DOMAIN wrEpochs /\ wrEpochs'[y] = wrEpochs[y]  BY <1>15, <2>2
    <3>2. SumFunctionOnSet(WrEarned', StatsOf(y)') = SumFunctionOnSet(WrEarned, StatsOf(y))
      BY <1>4, <1>13, <2>2
    <3> QED  BY <1>1, <3>1, <3>2 DEF WrInv, WrEpochsKept
  <2> QED  BY <2>1, <2>2
<1> QED  BY <1>16, <1>17, <1>18, <1>19, <1>20 DEF WrInv

LEMMA WrClaimKeeps ==
  ASSUME WrInv, NEW m, NEW e, WrClaimRewards(m, e)
  PROVE  WrInv'
<1> DEFINE x == <<e, m>>
           n == wrStats[x].earned
<1>1. /\ wrConfig # None /\ x \in DOMAIN wrStats /\ ~wrStats[x].claimed
      /\ n \in 1..wrVault /\ wrVault' = wrVault - n
      /\ wrStats' = [wrStats EXCEPT ![x].claimed = TRUE]
      /\ UNCHANGED <<wrConfig, wrBonds, wrLamports, wrEpochs, wrFunded>>
  BY DEF WrClaimRewards, WrClaimAccounts, Exists
<1> HIDE DEF x
<1>2. PICK p : p = [wrStats[x] EXCEPT !.claimed = TRUE]  OBVIOUS
<1>3. /\ DOMAIN wrStats' = DOMAIN wrStats /\ wrStats'[x] = p
      /\ \A y \in DOMAIN wrStats \ {x} : wrStats'[y] = wrStats[y]
  BY <1>1, <1>2
<1>4. /\ p \in WrRecord /\ p.earned = n /\ p.claimed /\ p.rewardable = wrStats[x].rewardable
  <2>1. wrStats[x] \in WrRecord  BY <1>1 DEF WrInv, WrStatsKept
  <2> QED  BY <1>2, <2>1 DEF WrRecord
<1>5. n = WrEarned[x] /\ n \in Nat /\ n <= wrVault  BY <1>1, WrBooks
<1> HIDE DEF n
<1>6. WrEarned' = WrEarned  BY <1>3, <1>4, <1>5 DEF WrEarned
<1>7. \A y : StatsOf(y)' = StatsOf(y)  BY <1>3 DEF StatsOf
<1>8. ClaimedStats' = ClaimedStats \cup {x} /\ x \notin ClaimedStats
  BY <1>1, <1>3, <1>4 DEF ClaimedStats
<1>9. SumFunctionOnSet(WrEarned', ClaimedStats')
        = SumFunctionOnSet(WrEarned, ClaimedStats) + n
      /\ SumFunctionOnSet(WrEarned, ClaimedStats) \in Int
  <2> DEFINE f == WrEarned
             S == ClaimedStats
             T == ClaimedStats'
  <2>1. IsFiniteSet(S) /\ T = S \cup {x} /\ x \notin S /\ f[x] = n  BY <1>5, <1>8, WrBooks
  <2>2. \A y \in S : f[y] \in Int  BY WrBooks DEF ClaimedStats
  <2>3. WrEarned' = f  BY <1>6
  <2> HIDE DEF f, S, T
  <2>4. /\ SumFunctionOnSet(f, S) \in Int
        /\ SumFunctionOnSet(f, T) = SumFunctionOnSet(f, S) + f[x] - 0
    <3>1. f[x] \in Int  BY <1>5, <2>1
    <3>2. \A y \in S \ {x} : f[y] = f[y]  OBVIOUS
    <3>3. /\ SumFunctionOnSet(f, S) \in Int
          /\ SumFunctionOnSet(f, T)
               = SumFunctionOnSet(f, S) + f[x] - (IF x \in S THEN f[x] ELSE 0)
      BY <2>1, <2>2, <3>1, <3>2, SumOnSetWrites
    <3> QED  BY <2>1, <3>3
  <2>5. SumFunctionOnSet(f, T) = SumFunctionOnSet(f, S) + n  BY <1>5, <2>1, <2>4
  <2> QED  BY <2>3, <2>4, <2>5 DEF f, S, T
<1>10. WrVaultKept'
  <2>1. wrFunded - wrVault = SumFunctionOnSet(WrEarned, ClaimedStats)
    BY DEF WrInv, WrVaultKept
  <2>2. wrFunded' - wrVault' = SumFunctionOnSet(WrEarned', ClaimedStats')
    BY <1>1, <1>5, <1>9, <2>1, WrBooks
  <2>3. wrVault' \in Nat /\ wrFunded' \in Nat  BY <1>1, <1>5, WrBooks
  <2> QED  BY <2>2, <2>3 DEF WrVaultKept
<1>11. WrStatsKept'
  <2>1. ASSUME NEW s \in DOMAIN wrStats'
        PROVE  /\ wrStats'[s] \in WrRecord /\ s[1] \in DOMAIN wrEpochs'
               /\ wrStats'[s].rewardable <= wrConfig'.maxReceipts
    <3>1. CASE s = x  BY <1>1, <1>3, <1>4, <3>1 DEF WrInv, WrStatsKept
    <3>2. CASE s # x  BY <1>1, <1>3, <3>2 DEF WrInv, WrStatsKept
    <3> QED  BY <3>1, <3>2
  <2>2. IsFiniteSet(DOMAIN wrStats')  BY <1>3 DEF WrInv, WrStatsKept
  <2> QED  BY <2>1, <2>2 DEF WrStatsKept
<1>12. WrEpochsKept'  BY <1>1, <1>6, <1>7 DEF WrInv, WrEpochsKept
<1>13. WrConfigured' /\ WrBonded'  BY <1>1 DEF WrInv, WrConfigured, WrBonded
<1> QED  BY <1>10, <1>11, <1>12, <1>13 DEF WrInv

WrInstruction ==
  \/ \E k \in Keys : \/ \E c \in WrConfigs : WrInitConfig(k, c)
                     \/ \E b \in BOOLEAN : WrSetEnabled(k, b)
  \/ \E a \in WrFunding : FundRewardVault(a)
  \/ \E m \in Keys :
       \/ \E b \in WrBonds : WrDepositBond(m, b) \/ WrWithdrawBond(m, b)
       \/ \E r \in WrRoots, n \in WrCounts, d \in WrDiversities :
            SubmitReceiptBatch(m, r, n, d[1], d[2])
       \/ \E e \in 0..MaxSlot : WrClaimRewards(m, e)

LEMMA WrCommands == ASSUME WrNext PROVE WrInstruction
<1>1. WrCli => WrInstruction
  BY Zenon DEF WrCli, CliWrInit, CliWrDepositBond, CliWrFund, CliWrSubmitBatch, CliWrClaim,
     WrInstruction
<1> QED  BY <1>1, Zenon DEF WrNext, WrInstruction

LEMMA WrStep == ASSUME WrInv, WrNext PROVE WrInv'
<1>1. WrInstruction  BY WrCommands
<1> QED  BY <1>1, Zenon, WrInitKeeps, WrEnableKeeps, WrFundKeeps, WrDepositKeeps,
            WrWithdrawKeeps, WrSubmitKeeps, WrClaimKeeps DEF WrInstruction

LEMMA WrWaits == ASSUME WrInv, UNCHANGED wrVars PROVE WrInv'
BY DEF WrInv, wrVars, WrConfigured, WrBonded, WrStatsKept, WrEpochsKept, WrVaultKept,
   StatsOf, ClaimedStats, WrEarned

LEMMA WrStart == ASSUME WrInit PROVE WrInv
<1>1. /\ wrConfig = None /\ DOMAIN wrBonds = {} /\ DOMAIN wrLamports = {}
      /\ DOMAIN wrStats = {} /\ DOMAIN wrEpochs = {} /\ wrVault = 0 /\ wrFunded = 0
  BY DEF WrInit, NoAccounts
<1>2. WrConfigured /\ WrBonded /\ WrEpochsKept
  BY <1>1 DEF WrConfigured, WrBonded, WrEpochsKept
<1>3. WrStatsKept  BY <1>1, FS_EmptySet DEF WrStatsKept
<1>4. WrVaultKept
  <2>1. ClaimedStats = {}  BY <1>1 DEF ClaimedStats
  <2> QED  BY <1>1, <2>1, SumEmpty DEF WrVaultKept
<1> QED  BY <1>2, <1>3, <1>4 DEF WrInv

-----------------------------------------------------------------------------
(***************************************************************************)
(* Watchdogs: a status changes only with a quorum.                         *)
(***************************************************************************)

\* What StatusNeedsQuorum asks of a step.
StatusByQuorum ==
  \A n \in DOMAIN wdPolicy :
    wdPolicy'[n].status # wdPolicy[n].status =>
      wdPolicy'[n].distinct >= wdConfig.minWatchdogs

LEMMA StatusCarried ==
  ASSUME NEW p, IsPolicy(p), NEW verdict, NEW new \in BOOLEAN
  PROVE  Counted(p, verdict, new).status = p.status /\ WithOutputs(p).status = p.status
<1>1. Counted(p, verdict, new).status = p.status
  BY DEF Counted, IsPolicy, PolicyFields
<1>2. WithOutputs(p).status = p.status
  <2>1. CASE p.status = "ok"
    <3>1. WithOutputs(p) = [p EXCEPT !.penalty = 0, !.ttlCap = 0]  BY <2>1 DEF WithOutputs
    <3> QED  BY <3>1 DEF IsPolicy, PolicyFields
  <2>2. CASE p.status = "warn"
    <3> DEFINE cap == IF p.ttlCap = 0 THEN 300 ELSE Lesser(p.ttlCap, 300)
    <3>1. WithOutputs(p) = [p EXCEPT !.penalty = 500, !.ttlCap = cap]
      BY <2>2 DEF WithOutputs
    <3> HIDE DEF cap
    <3> QED  BY <3>1 DEF IsPolicy, PolicyFields
  <2>3. CASE p.status = "quarantine"
    <3>1. WithOutputs(p) = [p EXCEPT !.penalty = 2500, !.ttlCap = 60]
      BY <2>3 DEF WithOutputs
    <3> QED  BY <3>1 DEF IsPolicy, PolicyFields
  <2> QED  BY <2>1, <2>2, <2>3 DEF IsPolicy
<1> QED  BY <1>1, <1>2

LEMMA ReportByQuorum ==
  ASSUME WdInv, NEW k, NEW w, NEW e, NEW n, NEW verdict, NEW fresh,
         SubmitAttestationDigest(k, w, e, n, verdict, fresh)
  PROVE  StatusByQuorum
<1> DEFINE found == PolicyAt(n, e)
           new == MarkNew(e, n, w)
           p == Counted(found, verdict, new)
           s == PolicyStatus(p)
           q == [p EXCEPT !.status = s]
<1>1. /\ wdConfig # None /\ e = WdEpoch
      /\ WithAccount(wdPolicy', wdPolicy, n, WithOutputs(q))
  BY CreatedWrites DEF SubmitAttestationDigest
<1>2. IsPolicy(found)  BY <1>1, PolicyFound
<1>3. new \in BOOLEAN  BY DEF MarkNew
<1>4. n \in DOMAIN wdPolicy => found.status = wdPolicy[n].status
  <2>1. ASSUME n \in DOMAIN wdPolicy, wdPolicy[n].epoch # e
        PROVE  found.status = wdPolicy[n].status
    <3>1. found = [wdPolicy[n] EXCEPT !.epoch = e, !.ok = 0, !.fail = 0, !.mismatch = 0,
                                      !.distinct = 0]
      BY <2>1 DEF PolicyAt, Vacant
    <3>2. IsPolicy(wdPolicy[n])  BY <2>1 DEF WdInv
    <3> HIDE DEF found
    <3> QED  BY <3>1, <3>2 DEF IsPolicy, PolicyFields
  <2>2. ASSUME n \in DOMAIN wdPolicy, wdPolicy[n].epoch = e
        PROVE  found.status = wdPolicy[n].status
    BY <2>2 DEF PolicyAt, Vacant
  <2> QED  BY <2>1, <2>2
<1> HIDE DEF found, new
<1>5. IsPolicy(p) /\ p.status = found.status
  BY <1>2, <1>3, CountedCounts, StatusCarried
<1>6. s \in {"ok", "warn", "quarantine"} /\ (s # p.status => p.distinct >= wdConfig.minWatchdogs)
  <2>1. wdConfig.minWatchdogs \in Nat /\ p.distinct \in Nat
    BY <1>1, <1>5 DEF WdInv, WdConfigType, IsPolicy
  <2> HIDE DEF p
  <2> QED  BY <1>5, <2>1 DEF PolicyStatus, IsPolicy
<1> HIDE DEF p, s
<1>7. IsPolicy(q) /\ q.status = s /\ q.distinct = p.distinct
  BY <1>5, <1>6 DEF IsPolicy, PolicyFields
<1> HIDE DEF q
<1>8. wdPolicy'[n].status = s /\ wdPolicy'[n].distinct = p.distinct
  BY <1>1, <1>7, OutputsWritten, StatusCarried DEF WithAccount
<1>9. \A x \in DOMAIN wdPolicy \ {n} : wdPolicy'[x] = wdPolicy[x]
  BY <1>1 DEF WithAccount
<1> QED  BY <1>4, <1>5, <1>6, <1>8, <1>9 DEF StatusByQuorum

LEMMA WdStep ==
  ASSUME WdInv, WdNext PROVE StatusByQuorum
<1>1. ASSUME UNCHANGED wdPolicy PROVE StatusByQuorum  BY <1>1 DEF StatusByQuorum
<1>2. ASSUME NEW k, NEW c, WdInitConfig(k, c) \/ CliWdInitConfig(k, c)
      PROVE  UNCHANGED wdPolicy
  BY <1>2 DEF WdInitConfig, CliWdInitConfig
<1>3. ASSUME NEW k, NEW w, NEW arg, NEW b,
             SetWatchdogEnabled(k, w, arg, b) \/ CliWdEnable(k, w, b)
      PROVE  UNCHANGED wdPolicy
  BY <1>3 DEF SetWatchdogEnabled, CliWdEnable
<1>4. ASSUME NEW k, NEW t, UpdateThresholds(k, t) \/ SetAllowlists(k, t)
      PROVE  UNCHANGED wdPolicy
  BY <1>4 DEF UpdateThresholds, SetAllowlists
<1>5. ASSUME NEW k, NEW w, NEW n, NEW v, NEW f, CliWdSubmitDigest(k, w, n, v, f)
      PROVE  \E e : SubmitAttestationDigest(k, w, e, n, v, f)
  BY <1>5 DEF CliWdSubmitDigest
<1> QED  BY <1>1, <1>2, <1>3, <1>4, <1>5, ReportByQuorum, Zenon DEF WdNext, WdCli

LEMMA WdWaits ==
  ASSUME WdInv, slot' \in Nat, slot <= slot', UNCHANGED wdVars PROVE WdInv'
BY EpochsKeepCounts DEF wdVars

-----------------------------------------------------------------------------
(***************************************************************************)
(* All programs together.  The run looks at them one at a time and within  *)
(* bounds; here each takes a step of its own or none, all in the same slot *)
(* and without the bounds, and the run's specification is a case of it.    *)
(***************************************************************************)

MoneyVars ==
  <<slot, govVars, stakeVars, rentVars, escrowVars, scoreVars, opVars, rwVars, nsVars,
    wrVars, wdVars, drVars>>

ProgramsInit ==
  /\ ChainInit /\ GovInit /\ StakeInit /\ RentInit /\ EscrowInit /\ ScoreInit /\ OpInit
  /\ RwInit /\ NsInit /\ WrInit /\ WdInit /\ DrInit

ProgramsNext ==
  /\ UNCHANGED slot
  /\ [GovNext]_govVars /\ [StakeNext]_stakeVars /\ [RentNext]_rentVars
  /\ [EscrowNext]_escrowVars /\ [ScoreNext]_scoreVars /\ [OpNext]_opVars
  /\ [RwNext]_rwVars /\ [NsNext]_nsVars /\ [WrNext]_wrVars /\ [WdNext]_wdVars
  /\ [DrNext]_drVars

ProgramsWait ==
  /\ NewSlot
  /\ UNCHANGED <<govVars, stakeVars, rentVars, escrowVars, scoreVars, opVars, rwVars,
                 nsVars, wrVars, wdVars, drVars>>

ProgramsSpec == ProgramsInit /\ [][ProgramsNext \/ ProgramsWait]_MoneyVars

ProgramsInv ==
  /\ SlotType /\ GovAccounts /\ StakeInv /\ RentInv /\ EscrowMoneyInv /\ ScoreInv /\ OpInv
  /\ RwInv /\ NsInv /\ WrInv /\ WdInv /\ DrInv

LEMMA SlotIs == ASSUME SlotType PROVE slot \in Nat /\ slot <= MaxSlot
BY ChainAssumption DEF SlotType

LEMMA ProgramsStart == ProgramsInit => ProgramsInv
<1> SUFFICES ASSUME ProgramsInit PROVE ProgramsInv  OBVIOUS
<1>1. slot = 0 /\ SlotType  BY ChainAssumption DEF ProgramsInit, ChainInit, SlotType
<1>2. WdInv  BY FS_EmptySet DEF ProgramsInit, ChainInit, WdInit, NoAccounts, WdInv
<1> QED  BY <1>1, <1>2, GovStart, StakeStart, RentStart, EscrowStart, ScoreStart, OpStart,
            RwStart, NsStart, WrStart, DrStart DEF ProgramsInit, ProgramsInv

LEMMA ProgramsStepKeeps ==
  ASSUME ProgramsInv, ProgramsNext PROVE ProgramsInv'
<1>1. UNCHANGED slot /\ SlotType /\ SlotType' /\ slot \in Nat /\ slot <= slot'
  <2>1. UNCHANGED slot /\ SlotType  BY DEF ProgramsNext, ProgramsInv
  <2>2. slot \in Nat  BY <2>1, SlotIs
  <2> QED  BY <2>1, <2>2 DEF SlotType
<1>2. GovAccounts'  BY <1>1, GovStep DEF ProgramsNext, ProgramsInv, GovInv
<1>3. StakeInv'  BY <1>1, StakeStep DEF ProgramsNext, ProgramsInv
<1>4. RentInv'  BY <1>1, RentStep DEF ProgramsNext, ProgramsInv
<1>5. EscrowMoneyInv'  BY EscrowStep DEF ProgramsNext, ProgramsInv
<1>6. ScoreInv'  BY ScoreStep DEF ProgramsNext, ProgramsInv
<1>7. OpInv'  BY OpStep, OpWaits DEF ProgramsNext, ProgramsInv
<1>8. RwInv'  BY <1>1, RwStep, RwWaits DEF ProgramsNext, ProgramsInv
<1>9. NsInv'  BY <1>1, NsStep, NsWaits DEF ProgramsNext, ProgramsInv
<1>10. WrInv'  BY WrStep, WrWaits DEF ProgramsNext, ProgramsInv
<1>11. WdInv'  BY <1>1, WdNext_Inv, WdWaits DEF ProgramsNext, ProgramsInv
<1>12. DrInv'  BY DrStep DEF ProgramsNext, ProgramsInv
<1> QED  BY <1>1, <1>2, <1>3, <1>4, <1>5, <1>6, <1>7, <1>8, <1>9, <1>10, <1>11, <1>12
         DEF ProgramsInv

LEMMA ProgramsWaitKeeps ==
  ASSUME ProgramsInv, UNCHANGED slot \/ NewSlot,
         UNCHANGED <<govVars, stakeVars, rentVars, escrowVars, scoreVars, opVars, rwVars,
                     nsVars, wrVars, wdVars, drVars>>
  PROVE  ProgramsInv'
<1>1. /\ SlotType /\ SlotType' /\ slot \in Nat /\ slot' \in Nat /\ slot <= slot'
  <2>1. SlotType /\ slot \in Nat  BY SlotIs DEF ProgramsInv
  <2> QED  BY <2>1, ChainAssumption DEF NewSlot, SlotType
<1>2. GovAccounts'  BY <1>1, GovStep DEF ProgramsInv, GovInv
<1>3. StakeInv'  BY <1>1, StakeWaits DEF ProgramsInv
<1>4. RentInv'  BY <1>1, RentWaits DEF ProgramsInv
<1>5. EscrowMoneyInv'  BY EscrowStep DEF ProgramsInv
<1>6. ScoreInv'  BY ScoreStep DEF ProgramsInv
<1>7. OpInv'  BY OpWaits DEF ProgramsInv
<1>8. RwInv'  BY <1>1, RwWaits DEF ProgramsInv
<1>9. NsInv'  BY NsWaits DEF ProgramsInv
<1>10. WrInv'  BY WrWaits DEF ProgramsInv
<1>11. WdInv'  BY <1>1, WdWaits DEF ProgramsInv
<1>12. DrInv'  BY DrStep DEF ProgramsInv
<1> QED  BY <1>1, <1>2, <1>3, <1>4, <1>5, <1>6, <1>7, <1>8, <1>9, <1>10, <1>11, <1>12
         DEF ProgramsInv

LEMMA ProgramsKeep == ProgramsInv /\ [ProgramsNext \/ ProgramsWait]_MoneyVars => ProgramsInv'
<1> SUFFICES ASSUME ProgramsInv, [ProgramsNext \/ ProgramsWait]_MoneyVars PROVE ProgramsInv'
  OBVIOUS
<1>1. CASE ProgramsNext  BY <1>1, ProgramsStepKeeps
<1>2. CASE ProgramsWait  BY <1>2, ProgramsWaitKeeps DEF ProgramsWait
<1>3. CASE UNCHANGED MoneyVars
  <2>1. /\ UNCHANGED slot
        /\ UNCHANGED <<govVars, stakeVars, rentVars, escrowVars, scoreVars, opVars, rwVars,
                       nsVars, wrVars, wdVars, drVars>>
    BY <1>3 DEF MoneyVars
  <2> QED  BY <2>1, ProgramsWaitKeeps
<1> QED  BY <1>1, <1>2, <1>3

LEMMA MoneyFollows == ProgramsInv /\ BidsBacked => MoneyConserved
BY RentInvCovers DEF ProgramsInv, GovAccounts, StakeInv, StakeBooks, EscrowMoneyInv, RwInv,
   DrInv, MoneyConserved

LEMMA PaidFollows == ProgramsInv => PaidOnce
BY NsInvTypes, WrInvTypes DEF ProgramsInv, ScoreInv, OpInv, PaidOnce

LEMMA EmissionFollows == ProgramsInv => StakeEmissionBounded
BY DEF ProgramsInv, StakeInv, StakeEmission, StakeEmissionBounded

\* What StandingEarned asks of a step of a program.
LEMMA StandingStep ==
  ASSUME ProgramsInv, [ProgramsNext \/ ProgramsWait]_MoneyVars
  PROVE  [RwStepProven]_rwVars /\ [StatusByQuorum]_wdVars /\ [OpActivates]_opVars
<1>1. CASE ProgramsNext
  <2>1. UNCHANGED slot /\ RwInv /\ OpInv /\ WdInv  BY <1>1 DEF ProgramsNext, ProgramsInv
  <2>2. [RwStepProven]_rwVars  BY <1>1, <2>1, RwStep DEF ProgramsNext
  <2>3. [StatusByQuorum]_wdVars  BY <1>1, <2>1, WdStep DEF ProgramsNext
  <2>4. [OpActivates]_opVars  BY <1>1, <2>1, OpStep DEF ProgramsNext
  <2> QED  BY <2>2, <2>3, <2>4
<1>2. CASE ProgramsWait  BY <1>2 DEF ProgramsWait
<1>3. CASE UNCHANGED MoneyVars  BY <1>3 DEF MoneyVars
<1> QED  BY <1>1, <1>2, <1>3

\* Every behaviour of the run is one of the programs together: what its steps
\* leave alone is unchanged, and its bounds only leave steps out.
THEOREM RunOfPrograms == Spec => ProgramsSpec
<1>1. Init => ProgramsInit  BY DEF Init, ProgramsInit
<1>2. [Next]_Vars => [ProgramsNext \/ ProgramsWait]_MoneyVars
  <2> SUFFICES ASSUME [Next]_Vars PROVE [ProgramsNext \/ ProgramsWait]_MoneyVars  OBVIOUS
  <2>1. CASE UNCHANGED Vars  BY <2>1 DEF Vars, MoneyVars
  <2>2. CASE UNCHANGED slot /\ GovNext /\ Alone({"gov"})
    BY <2>2 DEF Alone, ProgramsNext
  <2>3. CASE UNCHANGED slot /\ StakeNext /\ Alone({"stake"})
    BY <2>3 DEF Alone, ProgramsNext
  <2>4. CASE UNCHANGED slot /\ RentNext /\ Alone({"rent"})
    BY <2>4 DEF Alone, ProgramsNext
  <2>5. CASE UNCHANGED slot /\ \E S \in SUBSET {"route", "names", "registration"} : Alone(S)
    BY <2>5 DEF Alone, ProgramsNext
  <2>6. CASE UNCHANGED slot /\ EscrowNext /\ Alone({"escrow"})
    BY <2>6 DEF Alone, ProgramsNext
  <2>7. CASE UNCHANGED slot /\ ScoreNext /\ Alone({"score"})
    BY <2>7 DEF Alone, ProgramsNext
  <2>8. CASE UNCHANGED slot /\ OpNext /\ Alone({"operators"})
    BY <2>8 DEF Alone, ProgramsNext
  <2>9. CASE UNCHANGED slot /\ RwNext /\ Alone({"rewards"})
    BY <2>9 DEF Alone, ProgramsNext
  <2>10. CASE UNCHANGED slot /\ NsNext /\ Alone({"ns"})
    BY <2>10 DEF Alone, ProgramsNext
  <2>11. CASE UNCHANGED slot /\ WrNext /\ Alone({"witness"})
    BY <2>11 DEF Alone, ProgramsNext
  <2>12. CASE UNCHANGED slot /\ WdNext /\ Alone({"watchdog"})
    BY <2>12 DEF Alone, ProgramsNext
  <2>13. CASE UNCHANGED slot /\ DrNext /\ Alone({"domain"})
    BY <2>13 DEF Alone, ProgramsNext
  <2>14. CASE NewSlot /\ Alone({})
    BY <2>14 DEF Alone, ProgramsWait
  <2> QED  BY <2>1, <2>2, <2>3, <2>4, <2>5, <2>6, <2>7, <2>8, <2>9, <2>10, <2>11, <2>12,
              <2>13, <2>14 DEF Next
<1> QED  BY <1>1, <1>2, PTL DEF Spec, ProgramsSpec

\* No program makes or loses money, for any wallets, amounts, configurations and
\* clocks, and with all programs, that of the names among them, at work at once.
THEOREM MoneyIsConserved == ProgramsSpec /\ NamesSpec => []MoneyConserved
BY ProgramsStart, ProgramsKeep, MoneyFollows, BidsAreBacked, PTL DEF ProgramsSpec

\* Miners, operators, name servers and witnesses are paid once for an epoch and
\* within its budget.
THEOREM RewardsArePaidOnce == ProgramsSpec => []PaidOnce
BY ProgramsStart, ProgramsKeep, PaidFollows, PTL DEF ProgramsSpec

\* The stake program mints no more than its rate, as long as no stake moves while
\* rewards are owed.
THEOREM EmissionIsBounded == ProgramsSpec => []StakeEmissionBounded
BY ProgramsStart, ProgramsKeep, EmissionFollows, PTL DEF ProgramsSpec

\* Claims are of those who were challenged and stay revoked, statuses change with
\* a quorum, operators become active with a stake.
THEOREM StandingIsEarned == ProgramsSpec => StandingEarned
<1>1. ProgramsInv /\ [ProgramsNext \/ ProgramsWait]_MoneyVars
        => [RwStepProven]_rwVars /\ [StatusByQuorum]_wdVars /\ [OpActivates]_opVars
  BY StandingStep
<1>2. ProgramsSpec => [][RwStepProven]_rwVars /\ [][StatusByQuorum]_wdVars
                      /\ [][OpActivates]_opVars
  BY <1>1, ProgramsStart, ProgramsKeep, PTL DEF ProgramsSpec
<1> QED  BY <1>2 DEF RwStepProven, StatusByQuorum, OpActivates, StandingEarned, ClaimProven,
            StatusNeedsQuorum, ActivatedWithStake

-----------------------------------------------------------------------------
(***************************************************************************)
(* The other programs in the run: routes, escrow, names with their clients *)
(* and watchdogs.                                                          *)
(***************************************************************************)

LEMMA FewerNames ==
  ASSUME NEW N \in SUBSET PremiumNames, NEW L \in SUBSET Labels, NamesSteps(N, L)
  PROVE  NamesNext
<1>1. CASE \/ \E s, p \in BOOLEAN : InitNamesConfig(s, p)
           \/ \E k \in Keys : InitPremiumConfig(k)
           \/ \E m \in DOMAIN tokens, k, to \in Keys : TransferToken(m, k, to)
           \/ \E k \in Keys, l \in L : ClaimSubdomain(k, l)
  BY <1>1 DEF NamesNext, NamesSteps
<1>2. ASSUME NEW n \in N, NEW k \in Keys,
             \/ PurchasePremium(n, k) \/ IssuePremiumNft(n, k) \/ SyncPremiumOwnerFromNft(n, k)
             \/ WithdrawLosingBid(n, k) \/ SettleAuction(n, k)
             \/ \E to \in Keys : TransferPremium(n, k, to)
             \/ \E m \in DOMAIN tokens : BindPremiumNft(n, k, m)
             \/ \E d \in AuctionSlots : CreateAuction(k, n, d)
             \/ \E b \in Bids : PlaceBid(n, k, b)
             \/ \E l \in L, to \in Keys : ClaimDelegatedSubdomain(n, l, k, to)
             \/ \E e \in BOOLEAN : SetParentSubdomainPolicy(n, k, e)
      PROVE  NamesNext
  BY <1>2 DEF NamesNext, NamesSteps
<1>3. (N \cup {Zone}) \X L \subseteq (PremiumNames \cup {Zone}) \X Labels
  OBVIOUS
<1>4. ASSUME NEW s \in (N \cup {Zone}) \X L, NEW k \in Keys, NEW c \in Keys, NEW to \in Keys,
             TransferSubdomain(s, k, c, to) \/ IssueSubdomainNft(s, k)
      PROVE  NamesNext
  BY <1>3, <1>4 DEF NamesNext, NamesSteps
<1>5. ASSUME NEW k \in Keys, NEW name \in N \cup ((N \cup {Zone}) \X L), SetPrimaryName(k, name)
      PROVE  NamesNext
  BY <1>3, <1>5 DEF NamesNext, NamesSteps
<1> QED  BY <1>1, <1>2, <1>4, <1>5 DEF NamesSteps

LEMMA OthersNames ==
  ASSUME NamesSteps({na}, {"l"}) \/ Interference \/ MinersNames
  PROVE  NamesNext
<1>1. CASE NamesSteps({na}, {"l"})
  BY <1>1, FewerNames, MCChainAssumption
<1>2. CASE Interference
  BY <1>2, MCChainAssumption DEF Interference, NamesNext, NamesSteps
<1>3. CASE MinersNames
  BY <1>3, MCChainAssumption DEF MinersNames, NamesNext, NamesSteps
<1> QED  BY <1>1, <1>2, <1>3

ClientsNext ==
  /\ UNCHANGED slot
  /\ [RouteNext]_routeVars /\ [EscrowNext]_escrowVars /\ [WdNext]_wdVars
  /\ [NrNext \/ (NamesNext /\ UNCHANGED nrVars)]_<<namesVars, nrVars>>

ClientsWait == NewSlot /\ UNCHANGED <<routeVars, escrowVars, wdVars, namesVars, nrVars>>

LEMMA RunOfClients ==
  ASSUME [Next]_Vars
  PROVE  ClientsNext \/ ClientsWait
<1>1. CASE UNCHANGED Vars
  BY <1>1 DEF Vars, ClientsNext
<1>2. CASE UNCHANGED slot
           /\ \E p \in {"gov", "stake", "rent", "score", "operators", "rewards", "ns",
                        "witness", "domain"} : Alone({p})
  BY <1>2 DEF Alone, ClientsNext
<1>3. CASE RouteNext /\ UNCHANGED slot /\ Alone({"route"})
  BY <1>3 DEF Alone, ClientsNext
<1>4. CASE EscrowNext /\ UNCHANGED slot /\ Alone({"escrow"})
  BY <1>4 DEF Alone, ClientsNext
<1>5. CASE WdNext /\ UNCHANGED slot /\ Alone({"watchdog"})
  BY <1>5 DEF Alone, ClientsNext
<1>6. CASE NrNext /\ UNCHANGED slot /\ Alone({"names", "registration"})
  BY <1>6 DEF Alone, ClientsNext
<1>7. CASE /\ NamesSteps({na}, {"l"}) \/ Interference \/ MinersNames
           /\ UNCHANGED slot /\ Alone({"names"})
  <2>1. NamesNext
    BY <1>7, OthersNames
  <2> QED  BY <1>7, <2>1 DEF Alone, ClientsNext
<1>8. CASE NewSlot /\ Alone({})
  BY <1>8 DEF Alone, ClientsWait
<1> QED  BY <1>1, <1>2, <1>3, <1>4, <1>5, <1>6, <1>7, <1>8 DEF Next

\* The run is one of the quorum and registry programs, of the escrow, of the
\* names program with its clients, and of the watchdog policy, so that what
\* ChainProofs says of each holds in it.
THEOREM RunOfNamesAndRoutes == Spec => RouteSpec /\ EscrowSpec /\ NrSpec /\ WdSpec
<1>1. Init => /\ ChainInit /\ RouteInit /\ EscrowInit /\ WdInit /\ NamesInit /\ NrInit
  BY DEF Init
<1>2. [Next]_Vars
      => /\ [(RouteNext /\ UNCHANGED slot) \/ (NewSlot /\ UNCHANGED routeVars)]_<<slot, routeVars>>
         /\ [(EscrowNext /\ UNCHANGED slot) \/ (NewSlot /\ UNCHANGED escrowVars)]_<<slot, escrowVars>>
         /\ [\/ (NrNext \/ (NamesNext /\ UNCHANGED nrVars)) /\ UNCHANGED slot
             \/ NewSlot /\ UNCHANGED <<namesVars, nrVars>>]_<<slot, namesVars, nrVars>>
         /\ [\/ WdNext /\ UNCHANGED slot
             \/ NewSlot /\ UNCHANGED wdVars]_<<slot, wdVars>>
  BY RunOfClients DEF ClientsNext, ClientsWait
<1> QED  BY <1>1, <1>2, PTL DEF Spec, RouteSpec, EscrowSpec, NrSpec, WdSpec

\* Every account of every program has the form its structs give it.
THEOREM ChainIsTyped == Spec => []ChainTypeOK
<1>1. ProgramsInv => /\ GovTypeOK /\ StakeTypeOK /\ RentTypeOK /\ EscrowTypeOK /\ ScoreTypeOK
                     /\ OpTypeOK /\ RwTypeOK /\ NsTypeOK /\ WrTypeOK
  BY ScoreInvTypes, NsInvTypes, WrInvTypes
  DEF ProgramsInv, GovAccounts, StakeInv, StakeBooks, RentInv, EscrowMoneyInv, OpInv, RwInv
<1>2. ProgramsSpec => []ProgramsInv
  BY ProgramsStart, ProgramsKeep, PTL DEF ProgramsSpec
<1>3. RouteTypeOK /\ NamesTypeOK /\ WdTypeOK /\ ProgramsInv => ChainTypeOK
  BY <1>1 DEF ChainTypeOK
<1> QED
  BY <1>2, <1>3, RunOfPrograms, RunOfNamesAndRoutes, ClientsOfNames, RouteTypes, NamesTypes,
     WdTypes, PTL

=============================================================================
