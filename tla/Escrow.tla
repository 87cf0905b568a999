------------------------------- MODULE Escrow -------------------------------
(***************************************************************************)
(* The escrow program (solana/programs/ddns_escrow).  Users deposit toll   *)
(* tokens into a vault of their own; nothing but a voucher signed by an    *)
(* allowlisted signer takes them out again, split between the owner of the *)
(* domain, the miners and the treasury.  Anybody may bring a voucher, any  *)
(* number of times, in any order.                                          *)
(***************************************************************************)
EXTENDS SolanaChain, Functions

CONSTANTS EscrowConfigs,    \* arguments of init_config that may be tried
          EscrowNames,      \* hashes of domain names
          EscrowDeposits,   \* amounts of deposit
          EscrowMaxDeposit, \* bound on what one user deposits
          Vouchers          \* the vouchers that were ever signed, with signers

EscrowConfigType ==
  [domainBps: Nat, minersBps: Nat, treasuryBps: Nat, signers: SUBSET Keys]

ASSUME EscrowAssumption ==
  /\ EscrowConfigs \subseteq EscrowConfigType
  /\ IsFiniteSet(EscrowNames) /\ EscrowNames \cap {"miners", "treasury"} = {}
  /\ EscrowDeposits \subseteq Nat
  /\ \A v \in Vouchers : v.payer \in Keys /\ v.name \in EscrowNames /\ v.amount \in Nat

VARIABLES escrowConfig,    \* EscrowConfig, None before init_config
          userEscrows,     \* UserEscrow: tokens in the vault, by owner
          domainOwners,    \* DomainOwner: the wallet paid, by name
          redeemed,        \* RedeemedVoucher: the slot, by <<payer, nonce>>
          received,        \* tokens that left the vaults, by receiver
          deposited,       \* history: tokens ever deposited, by owner
          paidVouchers,    \* history: how often each voucher was paid
          spent            \* history: tokens spent, by <<payer, nonce>>

escrowVars == <<escrowConfig, userEscrows, domainOwners, redeemed, received,
                deposited, paidVouchers, spent>>

Receivers == EscrowNames \cup {"miners", "treasury"}

EscrowInit ==
  /\ escrowConfig = None /\ userEscrows = NoAccounts /\ domainOwners = NoAccounts
  /\ redeemed = NoAccounts
  /\ received = [r \in Receivers |-> 0]
  /\ deposited = [k \in Keys |-> 0]
  /\ paidVouchers = [v \in Vouchers |-> 0]
  /\ spent = NoAccounts

MaxAllowlistedSigners == 16

EscrowInitConfig(c) ==
  /\ escrowConfig = None
  /\ c.domainBps + c.minersBps + c.treasuryBps = BpsDenom
  /\ Cardinality(c.signers) <= MaxAllowlistedSigners
  /\ escrowConfig' = c
  /\ UNCHANGED <<userEscrows, domainOwners, redeemed, received, deposited,
                 paidVouchers, spent>>

InitUserEscrow(u) ==
  /\ escrowConfig # None /\ Vacant(userEscrows, u)
  /\ userEscrows' = Created(userEscrows, u, 0)
  /\ UNCHANGED <<escrowConfig, domainOwners, redeemed, received, deposited,
                 paidVouchers, spent>>

\* The vault that UserEscrow names, derived from the user who signs.
DepositAccounts(u) == escrowConfig # None /\ Exists(userEscrows, u)

Deposit(u, amount) ==
  /\ DepositAccounts(u) /\ amount > 0
  /\ deposited[u] + amount <= EscrowMaxDeposit
  /\ userEscrows' = [userEscrows EXCEPT ![u] = @ + amount]
  /\ deposited' = [deposited EXCEPT ![u] = @ + amount]
  /\ UNCHANGED <<escrowConfig, domainOwners, redeemed, received, paidVouchers, spent>>

\* The first wallet to register a name is its owner for good.
RegisterDomainOwner(name, wallet) ==
  /\ escrowConfig # None /\ Vacant(domainOwners, name)
  /\ domainOwners' = Created(domainOwners, name, wallet)
  /\ UNCHANGED <<escrowConfig, userEscrows, redeemed, received, deposited,
                 paidVouchers, spent>>

\* An ed25519 instruction of the same transaction verifies one signature of
\* the voucher; its signer must be on the list.
VerifiedSigner(v) == \E k \in v.signedBy : k \in escrowConfig.signers

RedeemAccountsMut(v) ==
  escrowConfig # None /\ Exists(userEscrows, v.payer) /\ Exists(domainOwners, v.name)
\* What the accounts of redeem_toll_voucher are derived from and must be:
\* the payer's escrow, the owner of the name, and a new RedeemedVoucher.
RedeemAccounts(v) ==
  /\ escrowConfig # None
  /\ Exists(userEscrows, v.payer) /\ Exists(domainOwners, v.name)
  /\ Vacant(redeemed, <<v.payer, v.nonce>>)

\* The shares of a voucher; rounding goes to the treasury.
DomainShare(v) == MulBps(v.amount, escrowConfig.domainBps)
MinersShare(v) == MulBps(v.amount, escrowConfig.minersBps)
TreasuryShareMut(v) == MulBps(v.amount, escrowConfig.treasuryBps)
TreasuryShare(v) == v.amount - DomainShare(v) - MinersShare(v)

RedeemTollVoucher(v) ==
  /\ RedeemAccounts(v) /\ VerifiedSigner(v)
  /\ slot \in v.validAfter..v.expiresAt /\ v.amount > 0
  /\ TreasuryShare(v) >= 0 /\ userEscrows[v.payer] >= v.amount
  /\ redeemed' = Created(redeemed, <<v.payer, v.nonce>>, slot)
  /\ userEscrows' = [userEscrows EXCEPT ![v.payer] = @ - v.amount]
  /\ received' = [received EXCEPT ![v.name] = @ + DomainShare(v),
                                  !["miners"] = @ + MinersShare(v),
                                  !["treasury"] = @ + TreasuryShare(v)]
  /\ paidVouchers' = [paidVouchers EXCEPT ![v] = @ + 1]
  /\ spent' = Created(spent, <<v.payer, v.nonce>>, v.amount +
                IF Vacant(spent, <<v.payer, v.nonce>>) THEN 0
                ELSE spent[<<v.payer, v.nonce>>])
  /\ UNCHANGED <<escrowConfig, domainOwners, deposited>>

\* The commands of solana/scripts: escrow_init.ts, escrow_deposit.ts,
\* domain_owner_register.ts and voucher_redeem_toll.ts.
CliEscrowInit(k, c) ==
  EscrowInitConfig(IF c.signers = {} THEN [c EXCEPT !.signers = {k}] ELSE c)

\* Two transactions: the escrow of the wallet is made if it is not there, and
\* stays when the deposit then fails.
CliEscrowDeposit(k, amount) ==
  IF Exists(userEscrows, k) THEN Deposit(k, amount) ELSE InitUserEscrow(k)

CliDomainOwnerRegister(k, name) == RegisterDomainOwner(name, k)

\* The signature goes in front, for the signer that the command names; every
\* account that the voucher needs is fetched before.
CliVoucherRedeem(v, signer) ==
  /\ escrowConfig # None /\ Exists(userEscrows, v.payer) /\ Exists(domainOwners, v.name)
  /\ signer \in v.signedBy \cap escrowConfig.signers
  /\ RedeemTollVoucher(v)

EscrowCli ==
  \E k \in Keys :
    \/ \E c \in EscrowConfigs : CliEscrowInit(k, c)
    \/ \E a \in EscrowDeposits : CliEscrowDeposit(k, a)
    \/ \E n \in EscrowNames : CliDomainOwnerRegister(k, n)
    \/ \E v \in Vouchers : CliVoucherRedeem(v, k)

EscrowNext ==
  \/ \E c \in EscrowConfigs : EscrowInitConfig(c)
  \/ \E u \in Keys : InitUserEscrow(u)
  \/ \E u \in Keys, a \in EscrowDeposits : Deposit(u, a)
  \/ \E n \in EscrowNames, k \in Keys : RegisterDomainOwner(n, k)
  \/ \E v \in Vouchers : RedeemTollVoucher(v)
  \/ EscrowCli

EscrowSpec ==
  ChainInit /\ EscrowInit
  /\ [][(EscrowNext /\ UNCHANGED slot) \/ (NewSlot /\ UNCHANGED escrowVars)]_<<slot, escrowVars>>

-----------------------------------------------------------------------------
EscrowTypeOK ==
  /\ DOMAIN userEscrows \subseteq Keys
  /\ \A u \in DOMAIN userEscrows : userEscrows[u] \in Nat
  /\ received \in [Receivers -> Nat] /\ deposited \in [Keys -> Nat]
  /\ paidVouchers \in [Vouchers -> Nat]
  /\ DOMAIN spent = DOMAIN redeemed

\* A voucher is paid once, and of several vouchers signed over one nonce of a
\* payer at most one is, however often and by whomever they are brought.
VoucherPaidOnce ==
  /\ \A v \in Vouchers : paidVouchers[v] <= 1
  /\ \A v, w \in Vouchers :
       (v.payer = w.payer /\ v.nonce = w.nonce /\ paidVouchers[v] > 0
         /\ paidVouchers[w] > 0) => v = w

\* A vault holds what its owner deposited less what the owner's vouchers spent,
\* and what was spent has arrived in full: the rounding of the shares loses
\* nothing, and a payment is never half made.
EscrowConserved ==
  /\ \A u \in DOMAIN userEscrows :
       userEscrows[u] = deposited[u]
         - SumFunctionOnSet(spent, {x \in DOMAIN spent : x[1] = u})
  /\ SumFunction(received) = SumFunction(spent)
=============================================================================
