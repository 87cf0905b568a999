----------------------------- MODULE AttackMode -----------------------------
(* packages/attack-mode: how signals are scored, how a score moves the mode, *)
(* and what each mode allows.  The memory is the time of the last stable     *)
(* evaluation.  The services that keep a mode extend this module.            *)
EXTENDS Integers, FiniteSets

CONSTANTS
  AmStableSecs, \* recoveryStableSecs
  AmMinSample,  \* invalidReceiptMinSample
  AmNever       \* stands for the memory before the first stable evaluation

AttackModes == {"NORMAL", "SUSPICIOUS", "UNDER_ATTACK", "ISOLATED", "RECOVERY"}
Severe == {"UNDER_ATTACK", "ISOLATED"}

\* policyForMode
PolicyForMode(mode) ==
  [minRpcQuorum  |-> CASE mode = "NORMAL" -> 1
                       [] mode = "UNDER_ATTACK" -> 3
                       [] OTHER -> 2,
   requireStake  |-> mode \in Severe,
   maxPerWallet  |-> CASE mode = "NORMAL" -> 120
                       [] mode = "UNDER_ATTACK" -> 20
                       [] mode = "ISOLATED" -> 10
                       [] OTHER -> 60,
   freezeWrites  |-> mode \in Severe,
   ttlClamp      |-> CASE mode = "NORMAL" -> 0
                       [] mode \in Severe -> 60
                       [] OTHER -> 300]

\* A percentage is kept as the share it is computed from: the code compares it
\* as a number with a fraction, and a share of nothing is 0 percent.
Share(part, whole) == [part |-> part, whole |-> whole]
AbovePct(share, pct) == share.whole > 0 /\ share.part * 100 > pct * share.whole

QuietSignals == [rpcFail |-> Share(0, 0), disagreement |-> FALSE, invalid |-> Share(0, 0),
                 sample |-> 0, flips |-> 0, ipfsFail |-> Share(0, 0),
                 gatewayErr |-> Share(0, 0)]

\* The score of the signals, with the default thresholds.
AttackScore(signals) ==
  LET points == (IF AbovePct(signals.rpcFail, 30) THEN 30 ELSE 0)
              + (IF signals.sample >= AmMinSample /\ AbovePct(signals.invalid, 5)
                 THEN 70 ELSE 0)
              + (IF signals.flips > 2 THEN 40 ELSE 0)
              + (IF AbovePct(signals.ipfsFail, 50) THEN 10 ELSE 0)
              + (IF AbovePct(signals.gatewayErr, 20) THEN 10 ELSE 0)
  IN IF points > 100 THEN 100 ELSE points

\* Where a score alone would put the mode.
ModeOfScore(score) == CASE score >= 60 -> "UNDER_ATTACK"
                        [] score \in 20 .. 59 -> "SUSPICIOUS"
                        [] OTHER -> "NORMAL"

\* evaluateAttackMode: the next mode and the next memory.  A memory of 0 is
\* taken for none.
StableLongEnough(now, memory) ==
  memory \notin {AmNever, 0} /\ now - memory >= AmStableSecs

NextMode(prev, score, now, memory) ==
  CASE prev \in Severe /\ score = 0 ->
         IF StableLongEnough(now, memory) THEN "NORMAL" ELSE "RECOVERY"
    [] prev \in Severe /\ score # 0 -> prev
    [] prev = "RECOVERY" ->
         CASE score = 0 /\ StableLongEnough(now, memory) -> "NORMAL"
           [] score >= 20 -> ModeOfScore(score)
           [] OTHER -> "RECOVERY"
    [] OTHER -> ModeOfScore(score)

EvaluateAttackMode(prev, signals, now, memory) ==
  LET score == AttackScore(signals)
  IN IF signals.disagreement THEN [mode |-> "ISOLATED", memory |-> AmNever]
     ELSE [mode   |-> NextMode(prev, score, now, memory),
           memory |-> IF score = 0 THEN now ELSE memory]

\* fetchAccountMultiRpc: answers maps each endpoint to the account data it
\* returned, AmNever when it failed.  The largest group of agreeing endpoints
\* wins when it is large enough, whatever the others say.
RpcGroups(answers) ==
  {{u \in DOMAIN answers : answers[u] = data} :
     data \in {answers[u] : u \in DOMAIN answers} \ {AmNever}}
MultiRpcOk(answers, minAgree) ==
  \E group \in RpcGroups(answers) : Cardinality(group) >= minAgree
MultiRpcDisagreement(answers) == Cardinality(RpcGroups(answers)) > 1

\* guardWriteWithMultiRpc of the command line tools: a write goes ahead when
\* the guard is off, when there is one endpoint only, or when two agree.
WriteGuardPasses(enabled, answers) ==
  \/ ~enabled
  \/ Cardinality(DOMAIN answers) < 2
  \/ MultiRpcOk(answers, PolicyForMode("SUSPICIOUS").minRpcQuorum)
=============================================================================
