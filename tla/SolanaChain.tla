---------------------------- MODULE SolanaChain ----------------------------
(***************************************************************************)
(* What the on-chain programs of solana/programs have in common: the slot  *)
(* clock, epochs counted from it, accounts at derived addresses, and the   *)
(* arithmetic of u64 amounts and basis points.                             *)
(*                                                                         *)
(* An instruction is a transaction: it checks its accounts and arguments,  *)
(* and either makes all its changes or none.  So each instruction is one   *)
(* action, its guard being every check of the accounts it names and of the *)
(* handler, wherever in the handler the check stands.                      *)
(***************************************************************************)
EXTENDS Integers, FiniteSets

CONSTANTS Keys,     \* wallets; who signs a transaction
          None,     \* an account that has not been created
          MaxSlot   \* bound on the clock

ASSUME ChainAssumption == IsFiniteSet(Keys) /\ MaxSlot \in Nat

VARIABLE slot

ChainInit == slot = 0

NewSlot == slot < MaxSlot /\ slot' = slot + 1

BpsDenom == 10000

EpochOf(len) == slot \div len

MulBps(amount, bps) == (amount * bps) \div BpsDenom

SaturatingSub(a, b) == IF a > b THEN a - b ELSE 0

Lesser(a, b) == IF a < b THEN a ELSE b
Greater(a, b) == IF a > b THEN a ELSE b

\* Accounts of one kind, by their seeds: `init` fails if there is one already.
NoAccounts == [k \in {} |-> {}]

Created(accounts, seeds, data) ==
  [k \in DOMAIN accounts \cup {seeds} |->
     IF k = seeds THEN data ELSE accounts[k]]

Vacant(accounts, seeds) == seeds \notin DOMAIN accounts
Exists(accounts, seeds) == seeds \in DOMAIN accounts

SlotType == slot \in 0..MaxSlot
=============================================================================
