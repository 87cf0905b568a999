-------------------------------- MODULE Names --------------------------------
(***************************************************************************)
(* The names program (solana/programs/ddns_names): names under the parent  *)
(* zone, premium names sold or auctioned, name NFTs, delegated subdomains  *)
(* and primary names.  A name stands for its hash; a subdomain for the     *)
(* hashes of its parent and label.  Tokens are held outside the program.   *)
(***************************************************************************)
EXTENDS SolanaChain

CONSTANTS Zone,            \* the parent zone of init_names_config
          PremiumNames,    \* names <label>.dns
          LabelLen,        \* the length of the label of each
          Labels,          \* labels of subdomains
          TreasuryKey,     \* treasury_authority: who may buy reserved names
          NamesAuthority,  \* who signs init_premium_config
          AuctionSlots,    \* durations of auctions
          SnipingSlots,    \* anti_sniping_extension_slots
          MaxAuctionEnd,   \* bound on the end of an auction
          MinBid,          \* min_bid_lamports_default
          Bids,            \* lamports of one bid
          MaxBids,         \* bound on what one wallet pays into a vault
          VaultRent,       \* the rent of an escrow vault, paid by its bidder
          ForeignMints     \* mints of others: the wallets that hold one token

ASSUME NamesAssumption ==
  /\ MinBid \in Nat /\ Bids \subseteq Nat /\ VaultRent \in Nat
  /\ \A f \in DOMAIN ForeignMints : ForeignMints[f] \subseteq Keys

VARIABLES namesConfig,    \* enabled features, None before init
          premiumConfig,  \* PremiumConfig has been made
          premium,        \* PremiumName: owner, nft mint, bound
          parentPolicy,   \* ParentPolicy: parent owner, transfers enabled
          subNames,       \* SubName by <<parent, label>>
          primary,        \* PrimaryName: the name, by wallet
          auctions,       \* Auction by name
          bidEscrows,     \* BidEscrow: amount, by <<name, bidder>>
          bidVaults,      \* lamports of the escrow vaults, likewise
          bidsWithdrawn,  \* history: <<name, bidder>> that has withdrawn
          tokens          \* external: wallets whose account holds one token

namesVars == <<namesConfig, premiumConfig, premium, parentPolicy, subNames,
               primary, auctions, bidEscrows, bidVaults, bidsWithdrawn, tokens>>
premiumVars == <<premium, parentPolicy>>
auctionVars == <<auctions, bidEscrows, bidVaults, bidsWithdrawn>>

Foreign(m) == <<"foreign", m>>
NameMint(n) == <<"name", n>>
SubMint(s) == <<"sub", s>>
Subs == (PremiumNames \cup {Zone}) \X Labels

NamesInit ==
  /\ namesConfig = None /\ premiumConfig = FALSE
  /\ premium = NoAccounts /\ parentPolicy = NoAccounts
  /\ subNames = NoAccounts /\ primary = NoAccounts
  /\ auctions = NoAccounts /\ bidEscrows = NoAccounts
  /\ bidVaults = [e \in PremiumNames \X Keys |-> 0] /\ bidsWithdrawn = {}
  /\ tokens = [m \in {Foreign(f) : f \in DOMAIN ForeignMints} |-> ForeignMints[m[2]]]

-----------------------------------------------------------------------------
\* Configuration.

InitNamesConfig(subdomains, premiums) ==
  /\ namesConfig = None
  /\ namesConfig' = [subdomains |-> subdomains, premium |-> premiums]
  /\ UNCHANGED <<premiumConfig, premiumVars, subNames, primary, auctionVars, tokens>>

\* Made once, with the lengths below and enabled.
InitPremiumConfig(k) ==
  /\ k = NamesAuthority /\ ~premiumConfig
  /\ premiumConfig' = TRUE
  /\ UNCHANGED <<namesConfig, premiumVars, subNames, primary, auctionVars, tokens>>

ReservedMaxLen == 2
Auctioned(n) == LabelLen[n] \in 3..4

\* upsert_primary_if_empty
PrimaryIfEmpty(k, name) ==
  primary' = IF Exists(primary, k) THEN primary ELSE Created(primary, k, name)

-----------------------------------------------------------------------------
\* Premium names: the account is made once, by a purchase or an auction, and
\* with it or over an older one the policy for the subdomains.

PremiumName(k, mint, bound) == [owner |-> k, nftMint |-> mint, nftBound |-> bound]

ParentPolicy(k, enabled) == [parentOwner |-> k, transfersEnabled |-> enabled]

NewPremium(n, k) ==
  /\ Vacant(premium, n)
  /\ premium' = Created(premium, n, PremiumName(k, None, FALSE))
  /\ parentPolicy' = Created(parentPolicy, n, ParentPolicy(k, FALSE))
  /\ PrimaryIfEmpty(k, n)

PurchasePremium(n, k) ==
  /\ namesConfig # None /\ namesConfig.premium /\ premiumConfig
  /\ LabelLen[n] <= ReservedMaxLen => k = TreasuryKey
  /\ ~Auctioned(n)
  /\ NewPremium(n, k)
  /\ UNCHANGED <<namesConfig, premiumConfig, subNames, auctionVars, tokens>>

\* What the accounts of transfer_premium and bind_premium_nft ask for.
PremiumOwnerSigns(n, k) ==
  Exists(premium, n) /\ premium[n].owner = k /\ Exists(parentPolicy, n)

TransferPremium(n, k, to) ==
  /\ PremiumOwnerSigns(n, k) /\ ~premium[n].nftBound
  /\ premium' = [premium EXCEPT ![n].owner = to]
  /\ parentPolicy' = [parentPolicy EXCEPT ![n].parentOwner = IF @ = k THEN to ELSE @]
  /\ UNCHANGED <<namesConfig, premiumConfig, subNames, primary, auctionVars, tokens>>

\* Any mint will do of which the owner's account holds one token.
BindPremiumNft(n, k, mint) ==
  /\ PremiumOwnerSigns(n, k) /\ k \in tokens[mint]
  /\ premium' = [premium EXCEPT ![n] = PremiumName(k, mint, TRUE)]
  /\ UNCHANGED <<namesConfig, premiumConfig, parentPolicy, subNames, primary,
                 auctionVars, tokens>>

\* The mint of the name is created here, with its single token.
IssuePremiumNft(n, k) ==
  /\ Exists(premium, n) /\ premium[n].owner = k /\ premium[n].nftMint = None
  /\ Vacant(tokens, NameMint(n))
  /\ premium' = [premium EXCEPT ![n] = PremiumName(k, NameMint(n), TRUE)]
  /\ tokens' = Created(tokens, NameMint(n), {k})
  /\ UNCHANGED <<namesConfig, premiumConfig, parentPolicy, subNames, primary, auctionVars>>

\* Nobody signs: whoever holds one token of the bound mint becomes the owner.
SyncAccounts(n, holder) ==
  /\ Exists(premium, n) /\ Exists(parentPolicy, n)
  /\ premium[n].nftMint \in DOMAIN tokens /\ holder \in tokens[premium[n].nftMint]

SyncPremiumOwnerFromNftMut(n, holder) ==
  /\ SyncAccounts(n, holder) /\ premium[n].nftBound
  /\ premium' = [premium EXCEPT ![n].owner = holder]
  /\ UNCHANGED <<namesConfig, premiumConfig, parentPolicy, subNames, primary,
                 auctionVars, tokens>>
SyncPremiumOwnerFromNft(n, holder) ==
  /\ SyncAccounts(n, holder) /\ premium[n].nftBound
  /\ premium' = [premium EXCEPT ![n].owner = holder]
  /\ parentPolicy' = [parentPolicy EXCEPT ![n].parentOwner = holder]
  /\ UNCHANGED <<namesConfig, premiumConfig, subNames, primary, auctionVars, tokens>>

\* A token goes from one wallet to another that holds none.
TransferToken(mint, k, to) ==
  /\ k \in tokens[mint] /\ to \notin tokens[mint]
  /\ tokens' = [tokens EXCEPT ![mint] = (@ \ {k}) \cup {to}]
  /\ UNCHANGED <<namesConfig, premiumConfig, premiumVars, subNames, primary, auctionVars>>

-----------------------------------------------------------------------------
\* Auctions of premium names.

CreateAuction(k, n, duration) ==
  /\ premiumConfig /\ k = NamesAuthority /\ Auctioned(n)
  /\ duration > 0 /\ Vacant(auctions, n)
  /\ auctions' = Created(auctions, n,
       [endSlot |-> slot + duration, bidder |-> None, bid |-> 0, settled |-> FALSE])
  /\ UNCHANGED <<namesConfig, premiumConfig, premiumVars, subNames, primary,
                 bidEscrows, bidVaults, bidsWithdrawn, tokens>>

\* The escrow of a bidder counts all bids the wallet made in the auction.
EscrowAmount(n, k) ==
  IF Exists(bidEscrows, <<n, k>>) THEN bidEscrows[<<n, k>>] ELSE 0

LeastBidMut(a) == Greater(a.bid, MinBid)
LeastBid(a) == Greater(a.bid, MinBid) + (IF a.bid > 0 THEN 1 ELSE 0)

\* Anti-sniping: a bid near the end moves the end.
Extended(a) ==
  a.endSlot + (IF a.endSlot - slot <= SnipingSlots THEN SnipingSlots ELSE 0)

\* A vault with lamports has its rent; init_if_needed makes one that has none.
Funded(n, k, lamports) ==
  bidVaults' = [bidVaults EXCEPT ![<<n, k>>] =
                  lamports + (IF @ = 0 THEN VaultRent ELSE @)]

PlaceBid(n, k, lamports) ==
  /\ premiumConfig /\ Exists(auctions, n) /\ ~auctions[n].settled
  /\ lamports > 0 /\ slot < auctions[n].endSlot
  /\ bidVaults[<<n, k>>] + lamports <= VaultRent + MaxBids
  /\ LET total == EscrowAmount(n, k) + lamports
     IN  /\ total <= MaxBids /\ total >= LeastBid(auctions[n])
         /\ bidEscrows' = Created(bidEscrows, <<n, k>>, total)
         /\ auctions' = [auctions EXCEPT ![n] =
              [@ EXCEPT !.bidder = k, !.bid = total, !.endSlot = Extended(auctions[n])]]
  /\ auctions'[n].endSlot <= MaxAuctionEnd
  /\ Funded(n, k, lamports)
  /\ UNCHANGED <<namesConfig, premiumConfig, premiumVars, subNames, primary,
                 bidsWithdrawn, tokens>>

\* The escrow account is read and not written: the amount stays in it.  The
\* runtime refuses to leave an account with less than its rent, but not empty.
WithdrawLosingBid(n, k) ==
  LET left == bidVaults[<<n, k>>] - EscrowAmount(n, k)
  IN  /\ Exists(auctions, n) /\ auctions[n].bidder # k
      /\ EscrowAmount(n, k) > 0 /\ (left = 0 \/ left >= VaultRent)
      /\ bidVaults' = [bidVaults EXCEPT ![<<n, k>>] = left]
      /\ bidsWithdrawn' = bidsWithdrawn \cup {<<n, k>>}
      /\ UNCHANGED <<namesConfig, premiumConfig, premiumVars, subNames, primary,
                     auctions, bidEscrows, tokens>>

\* The winner gets the name; the bid stays in the winner's vault.
SettleAuction(n, k) ==
  /\ namesConfig # None /\ premiumConfig
  /\ Exists(auctions, n) /\ ~auctions[n].settled /\ slot >= auctions[n].endSlot
  /\ auctions[n].bid > 0 /\ auctions[n].bidder = k
  /\ NewPremium(n, k)
  /\ auctions' = [auctions EXCEPT ![n].settled = TRUE]
  /\ UNCHANGED <<namesConfig, premiumConfig, subNames, bidEscrows, bidVaults,
                 bidsWithdrawn, tokens>>

-----------------------------------------------------------------------------
\* Subdomains: of the zone, for anybody; of a premium name, from its owner.

SubName(k, controlledBy) == [owner |-> k, parentOwner |-> controlledBy, nft |-> FALSE]

NonTransferable(s) == subNames[s].parentOwner = None

ClaimSubdomain(k, label) ==
  /\ namesConfig # None /\ namesConfig.subdomains
  /\ Vacant(subNames, <<Zone, label>>)
  /\ subNames' = Created(subNames, <<Zone, label>>, SubName(k, None))
  /\ PrimaryIfEmpty(k, <<Zone, label>>)
  /\ UNCHANGED <<namesConfig, premiumConfig, premiumVars, auctionVars, tokens>>

\* The policy account of the parent, made if there is none.
PolicyFor(n, k) ==
  IF Exists(parentPolicy, n) THEN parentPolicy[n] ELSE ParentPolicy(k, FALSE)

DelegationAccounts(n, k) ==
  /\ namesConfig # None /\ Exists(premium, n) /\ premium[n].owner = k
  /\ PolicyFor(n, k).parentOwner = k

ClaimDelegatedSubdomain(n, label, k, to) ==
  /\ DelegationAccounts(n, k) /\ Vacant(subNames, <<n, label>>)
  /\ parentPolicy' = Created(parentPolicy, n, PolicyFor(n, k))
  /\ subNames' = Created(subNames, <<n, label>>, SubName(to, k))
  /\ UNCHANGED <<namesConfig, premiumConfig, premium, primary, auctionVars, tokens>>

SetParentSubdomainPolicy(n, k, enabled) ==
  /\ DelegationAccounts(n, k)
  /\ parentPolicy' = Created(parentPolicy, n, ParentPolicy(k, enabled))
  /\ UNCHANGED <<namesConfig, premiumConfig, premium, subNames, primary,
                 auctionVars, tokens>>

\* The parent owner recorded when the subdomain was made signs, unless the
\* policy account is given and lets transfers be.
TransferAllowed(s, cosigner) ==
  \/ Exists(parentPolicy, s[1]) /\ parentPolicy[s[1]].transfersEnabled
  \/ cosigner = subNames[s].parentOwner

SubOwnerSigns(s, k) == Exists(subNames, s) /\ subNames[s].owner = k

TransferSubdomain(s, k, cosigner, to) ==
  /\ SubOwnerSigns(s, k) /\ ~NonTransferable(s) /\ TransferAllowed(s, cosigner)
  /\ subNames' = [subNames EXCEPT ![s].owner = to]
  /\ UNCHANGED <<namesConfig, premiumConfig, premiumVars, primary, auctionVars, tokens>>

\* The token stays with the custody authority of the program.
SubNftAccounts(s, k) == SubOwnerSigns(s, k) /\ Vacant(tokens, SubMint(s))

IssueSubdomainNft(s, k) ==
  /\ SubNftAccounts(s, k) /\ ~subNames[s].nft
  /\ subNames' = [subNames EXCEPT ![s].nft = TRUE]
  /\ tokens' = Created(tokens, SubMint(s), {})
  /\ UNCHANGED <<namesConfig, premiumConfig, premiumVars, primary, auctionVars>>

\* Whatever the owner transfers later, the primary name stays.
SetPrimaryName(k, name) ==
  /\ \/ Exists(premium, name) /\ premium[name].owner = k
     \/ SubOwnerSigns(name, k)
  /\ primary' = Created(primary, k, name)
  /\ UNCHANGED <<namesConfig, premiumConfig, premiumVars, subNames, auctionVars, tokens>>

\* The steps of the names in N, with subdomains that have a label in L.
NamesSteps(N, L) ==
  LET subs == (N \cup {Zone}) \X L IN
  \/ \E s, p \in BOOLEAN : InitNamesConfig(s, p)
  \/ \E k \in Keys : InitPremiumConfig(k)
  \/ \E n \in N, k \in Keys :
       \/ PurchasePremium(n, k) \/ IssuePremiumNft(n, k) \/ SyncPremiumOwnerFromNft(n, k)
       \/ WithdrawLosingBid(n, k) \/ SettleAuction(n, k)
       \/ \E to \in Keys : TransferPremium(n, k, to)
       \/ \E m \in DOMAIN tokens : BindPremiumNft(n, k, m)
       \/ \E d \in AuctionSlots : CreateAuction(k, n, d)
       \/ \E b \in Bids : PlaceBid(n, k, b)
       \/ \E l \in L, to \in Keys : ClaimDelegatedSubdomain(n, l, k, to)
       \/ \E e \in BOOLEAN : SetParentSubdomainPolicy(n, k, e)
  \/ \E m \in DOMAIN tokens, k, to \in Keys : TransferToken(m, k, to)
  \/ \E k \in Keys, l \in L : ClaimSubdomain(k, l)
  \/ \E s \in subs, k, c, to \in Keys : TransferSubdomain(s, k, c, to)
  \/ \E s \in subs, k \in Keys : IssueSubdomainNft(s, k)
  \/ \E k \in Keys, name \in N \cup subs : SetPrimaryName(k, name)

NamesNext == NamesSteps(PremiumNames, Labels)

NamesSpec ==
  /\ ChainInit /\ NamesInit
  /\ [][\/ NamesNext /\ UNCHANGED slot
        \/ NewSlot /\ UNCHANGED namesVars]_<<slot, namesVars>>

-----------------------------------------------------------------------------
NamesTypeOK ==
  /\ DOMAIN premium \subseteq PremiumNames /\ DOMAIN subNames \subseteq Subs
  /\ \A n \in DOMAIN premium :
       premium[n] \in [owner: Keys, nftMint: DOMAIN tokens \cup {None}, nftBound: BOOLEAN]
  /\ \A e \in DOMAIN bidVaults : bidVaults[e] \in Nat
  /\ \A m \in DOMAIN tokens : tokens[m] \subseteq Keys

\* Who may delegate subdomains of a name is its owner, and nobody else, after
\* any order of sales, transfers, bindings and syncs: the two accounts that
\* say so agree.
PolicyFollowsOwner ==
  \A n \in DOMAIN premium :
    Exists(parentPolicy, n) /\ parentPolicy[n].parentOwner = premium[n].owner

\* The vault of a bidder holds its rent and what the escrow of the bidder says,
\* over any number of bids, until the bidder withdraws: withdraw_losing_bid
\* empties the vault and leaves the amount in the escrow, so that from then on
\* the vault may hold less, and never holds more.
BidsBacked ==
  \A e \in DOMAIN bidVaults :
    IF ~Exists(bidEscrows, e) THEN bidVaults[e] = 0
    ELSE /\ bidVaults[e] <= VaultRent + bidEscrows[e]
         /\ e \notin bidsWithdrawn => bidVaults[e] = VaultRent + bidEscrows[e]

\* The recorded bid of every other bidder is below the highest, which is the
\* recorded bid of the highest bidder, also after withdrawals and new bids; and
\* a name of an auctioned length is owned only after its auction was settled.
AuctionOrdered ==
  /\ \A n \in DOMAIN auctions : \A k \in Keys :
       IF k = auctions[n].bidder THEN EscrowAmount(n, k) = auctions[n].bid
       ELSE EscrowAmount(n, k) < auctions[n].bid \/ EscrowAmount(n, k) = 0
  /\ \A n \in PremiumNames : Auctioned(n) =>
       (Exists(premium, n) <=> Exists(auctions, n) /\ auctions[n].settled)
=============================================================================
