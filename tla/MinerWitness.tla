---------------------------- MODULE MinerWitness ----------------------------
(* The miner witness service: batches of receipts are admitted under the     *)
(* policy of the current attack mode, the share of invalid receipts of the   *)
(* window moves the mode, and the mode is computed again after each batch.   *)
EXTENDS AttackMode, Sequences, SequencesExt

CONSTANTS
  MwWallets,    \* the wallets of receipts
  MwWindow,     \* ATTACK_WINDOW_SECS
  MwMinute,     \* the length of a wallet's window
  MwBatches,    \* the batches: sequences of [wallet, valid, stake]
  MwEnabled,    \* whether ATTACK_MODE_ENABLED is 1: a set of BOOLEANs
  MwMaxNow,     \* bound: the last second
  MwMaxTotal    \* bound: the receipts of a window

\* A batch is a list of receipts.
ASSUME MwAssumption ==
  /\ AmMinSample \in Nat
  /\ MwBatches \subseteq Seq([wallet : STRING, valid : BOOLEAN, stake : BOOLEAN])

VARIABLES mwEnabled, mwNow, mwMode, mwMemory, mwWindow, mwWallets, mwSevereAt
mwVars == <<mwEnabled, mwNow, mwMode, mwMemory, mwWindow, mwWallets, mwSevereAt>>

\* The clock starts at 1: a memory of 0 would read as no memory.
MwInit ==
  /\ mwEnabled \in MwEnabled
  /\ mwNow = 1
  /\ mwMode = "NORMAL"
  /\ mwMemory = AmNever
  /\ mwWindow = [total |-> 0, invalid |-> 0, start |-> 1]
  /\ mwWallets = [w \in MwWallets |-> [count |-> 0, start |-> 0]]
  /\ mwSevereAt = AmNever

\* maybeReset
WindowOver == mwNow - mwWindow.start >= MwWindow
FreshWindow == IF WindowOver
               THEN [total |-> 0, invalid |-> 0, start |-> mwNow] ELSE mwWindow
FreshWallets == IF WindowOver
                THEN [w \in MwWallets |-> [count |-> 0, start |-> 0]]
                ELSE mwWallets

\* updateMode, from a mode, a memory and the counters of a window.
UpdateMode(from, window) ==
  IF ~mwEnabled THEN [mode |-> "NORMAL", memory |-> from.memory]
  ELSE EvaluateAttackMode(from.mode,
         [QuietSignals EXCEPT
            !.invalid = Share(window.invalid, window.total),
            !.sample = window.total],
         mwNow, from.memory)

\* mwSevereAt remembers when an evaluation last found the service under
\* attack; the code keeps no such thing.
Adopt(next, severe) ==
  /\ mwMode' = next.mode
  /\ mwMemory' = next.memory
  /\ mwSevereAt' = IF severe \/ next.mode \in Severe THEN mwNow ELSE mwSevereAt

Here == [mode |-> mwMode, memory |-> mwMemory]

\* GET /v1/health
Health ==
  /\ Adopt(UpdateMode(Here, FreshWindow), FALSE)
  /\ mwWindow' = FreshWindow
  /\ mwWallets' = FreshWallets
  /\ UNCHANGED <<mwEnabled, mwNow>>

\* The counter of a wallet after one more receipt.
CountReceipt(counter) ==
  IF counter.count = 0 \/ mwNow - counter.start >= MwMinute
  THEN [count |-> 1, start |-> mwNow]
  ELSE [counter EXCEPT !.count = @ + 1]

\* Whether a receipt is counted against its wallet's cap: a malformed one, of
\* no wallet, is not, nor one without the stake the policy requires.
Admissible(policy, receipt) ==
  receipt.wallet \in MwWallets /\ (policy.requireStake => receipt.stake)

\* The loop over a batch: the wallets' counters after it.
AfterBatch(wallets, policy, batch) ==
  FoldLeft(LAMBDA counted, r : IF Admissible(policy, r)
                               THEN [counted EXCEPT ![r.wallet] = CountReceipt(@)]
                               ELSE counted,
           wallets, batch)

\* (For the mutation check: the mode of before the batch is kept.)
SubmitReceiptsMut ==
  \E batch \in MwBatches :
    LET before == UpdateMode(Here, FreshWindow)
        invalid == Cardinality({i \in 1 .. Len(batch) : ~batch[i].valid})
        window == [FreshWindow EXCEPT !.total = @ + Len(batch),
                                      !.invalid = @ + invalid]
    IN /\ window.total <= MwMaxTotal
       /\ mwWindow' = window
       /\ mwWallets' = AfterBatch(FreshWallets, PolicyForMode(before.mode), batch)
       /\ Adopt(before, before.mode \in Severe)
       /\ UNCHANGED <<mwEnabled, mwNow>>

\* POST /v1/submit-receipts: the policy is the one before the batch, and the
\* mode is computed again from what the batch added.
SubmitReceipts ==
  \E batch \in MwBatches :
    LET before == UpdateMode(Here, FreshWindow)
        invalid == Cardinality({i \in 1 .. Len(batch) : ~batch[i].valid})
        window == [FreshWindow EXCEPT !.total = @ + Len(batch),
                                      !.invalid = @ + invalid]
    IN /\ window.total <= MwMaxTotal
       /\ mwWindow' = window
       /\ mwWallets' = AfterBatch(FreshWallets, PolicyForMode(before.mode), batch)
       /\ Adopt(UpdateMode(before, window), before.mode \in Severe)
       /\ UNCHANGED <<mwEnabled, mwNow>>

MwTick ==
  /\ mwNow < MwMaxNow
  /\ mwNow' = mwNow + 1
  /\ UNCHANGED <<mwEnabled, mwMode, mwMemory, mwWindow, mwWallets, mwSevereAt>>

MwNext == Health \/ SubmitReceipts \/ MwTick
MwSpec == MwInit /\ [][MwNext]_mwVars

--------------------------------------------------------------------------
(* Properties *)

\* "Invalid flood should flip mode": once more than five in a hundred of enough
\* receipts are invalid (docs/ATTACK_MODE.md:39), the service is under attack
\* when the request ends that brought them, and stays so while the window says
\* so: no batch is taken under a relaxed mode's policy after the flood.
FloodFlipsMode ==
  mwEnabled /\ mwWindow.total >= AmMinSample
            /\ mwWindow.invalid * 100 > 5 * mwWindow.total
    => mwMode = "UNDER_ATTACK"

\* "If previously severe, require stability time before leaving": the mode is
\* not NORMAL again before the service has been out of attack for
\* recoveryStableSecs.
StabilityBeforeRelease ==
  mwEnabled /\ mwMode = "NORMAL" /\ mwSevereAt # AmNever
    => mwNow - mwSevereAt >= AmStableSecs
=============================================================================
