------------------------------ MODULE RentBond ------------------------------
(***************************************************************************)
(* The rent bond program (solana/programs/ddns_rent_bond): an authority    *)
(* keeps lamports in reserve for the rent of the other programs.  The      *)
(* account records the balance it had at the last instruction; anybody can *)
(* send lamports to it in between.                                         *)
(***************************************************************************)
EXTENDS SolanaChain

CONSTANTS RentSizes,    \* largest_program_lamports and extras of recalc_targets
          RentAmounts,  \* lamports of deposits, withdrawals and gifts
          RentMax,      \* bound on the lamports in reserve
          RentExempt,   \* rent.minimum_balance of the reserve account
          RentFloor,    \* MIN_RESERVE_LAMPORTS
          RentBuffer    \* BUFFER_LAMPORTS

ASSUME RentAssumption ==
  /\ RentSizes \subseteq Nat /\ RentAmounts \subseteq Nat
  /\ RentExempt \in Nat \ {0} /\ RentFloor \in Nat /\ RentBuffer \in Nat

VARIABLES rentConfig,   \* RentBondConfig: authority, target, hashes as a tag
          rentReserve,  \* ProgramReserve: recorded balance and slot
          rentLamports  \* what the reserve account really holds

rentVars == <<rentConfig, rentReserve, rentLamports>>

RentInit == rentConfig = None /\ rentReserve = None /\ rentLamports = 0

\* compute_reserve_target
RentTarget(largest, extra) == Greater(2 * largest + RentBuffer + extra, RentFloor)

\* What each instruction records at its end.
RentRecord(lamports) ==
  /\ rentLamports' = lamports
  /\ rentReserve' = [balance |-> lamports, recalcSlot |-> slot]

\* The payer tops the new account up to its rent; gifts may be there already.
RentInitConfig(authority, target, programs) ==
  /\ rentConfig = None
  /\ rentConfig' = [authority |-> authority, target |-> Greater(target, RentFloor),
                    programs |-> programs]
  /\ RentRecord(Greater(rentLamports, RentExempt))

RentAuthoritySigns(k) == rentConfig # None /\ k = rentConfig.authority

RentSetTrackedPrograms(k, programs) ==
  /\ RentAuthoritySigns(k)
  /\ rentConfig' = [rentConfig EXCEPT !.programs = programs]
  /\ UNCHANGED <<rentReserve, rentLamports>>

RentRecalcTargets(k, largest, extra) ==
  /\ RentAuthoritySigns(k)
  /\ rentConfig' = [rentConfig EXCEPT !.target = RentTarget(largest, extra)]
  /\ RentRecord(rentLamports)

RentDepositReserve(k, lamports) ==
  /\ RentAuthoritySigns(k) /\ lamports > 0 /\ rentLamports + lamports <= RentMax
  /\ RentRecord(rentLamports + lamports)
  /\ UNCHANGED rentConfig

RentWithdrawReserve(k, lamports) ==
  /\ RentAuthoritySigns(k) /\ lamports > 0
  /\ SaturatingSub(rentLamports, lamports) >= RentExempt
  /\ RentRecord(rentLamports - lamports)
  /\ UNCHANGED rentConfig

\* A plain transfer to the address, which the program does not see.
RentGift(lamports) ==
  /\ rentLamports + lamports <= RentMax
  /\ rentLamports' = rentLamports + lamports
  /\ UNCHANGED <<rentConfig, rentReserve>>

RentNext ==
  \/ \E k \in Keys, t \in RentSizes, p \in RentSizes : RentInitConfig(k, t, p)
  \/ \E k \in Keys, p \in RentSizes : RentSetTrackedPrograms(k, p)
  \/ \E k \in Keys, l, x \in RentSizes : RentRecalcTargets(k, l, x)
  \/ \E k \in Keys, a \in RentAmounts : RentDepositReserve(k, a)
  \/ \E k \in Keys, a \in RentAmounts : RentWithdrawReserve(k, a)
  \/ \E a \in RentAmounts : RentGift(a)

-----------------------------------------------------------------------------
RentTypeOK ==
  /\ rentLamports \in Nat
  /\ rentReserve = None \/ rentReserve \in [balance: Nat, recalcSlot: 0..MaxSlot]

\* The recorded balance is never more than the account holds, and the account
\* never loses its rent exemption, gifts and withdrawals in any order: a
\* withdrawal that is checked against the record instead of the account, or
\* not recorded, would break it.
RentCovered ==
  rentReserve # None =>
    /\ rentReserve.balance <= rentLamports
    /\ rentReserve.balance >= RentExempt /\ rentConfig.target >= RentFloor
=============================================================================
