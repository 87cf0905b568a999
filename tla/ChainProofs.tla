---------------------------- MODULE ChainProofs -----------------------------
(***************************************************************************)
(* Theorems about the Solana programs: the canonical routes, the vouchers  *)
(* of the escrow, the owners and the auctions of premium names, their      *)
(* registration, the reports of watchdogs, and the types of all of these.  *)
(***************************************************************************)
EXTENDS RouteQuorum, Escrow, NamesRegistration, WatchdogPolicy, FiniteSetTheorems, SequenceTheorems,
        TLAPS

-----------------------------------------------------------------------------
(***************************************************************************)
(* The canonical routes of the quorum and registry programs: each is the   *)
(* aggregate it refers to, and epochs only advance.  For any wallets,      *)
(* names, destinations, epochs and configurations.                         *)
(***************************************************************************)

\* As long as the epoch length has not moved, no aggregate is counted whose
\* epoch has not begun.
EpochsBegun ==
  \A n \in DOMAIN counted :
    ~epochsMoved =>
      /\ registryConfig # None
      /\ registryConfig.epochLen > 0
      /\ counted[n][1] \in Nat
      /\ counted[n][1] <= RouteEpoch

RouteInv ==
  /\ slot \in Nat
  /\ registryConfig # None => registryConfig.epochLen \in Nat
  /\ EpochsBegun

\* An epoch begins no later than the clock that is further on.
LEMMA EpochsGrow ==
  ASSUME NEW a \in Nat, NEW b \in Nat, a <= b, NEW len \in Nat, len > 0
  PROVE  /\ a \div len \in Nat /\ b \div len \in Nat
         /\ a \div len <= b \div len
<1>1. /\ a \div len \in Int /\ b \div len \in Int
      /\ len * (a \div len) <= a /\ a < len * (a \div len) + len
      /\ len * (b \div len) <= b /\ b < len * (b \div len) + len
  OBVIOUS
<1> QED  BY <1>1

\* init_config and update_config keep the length of the epochs they are given.
LEMMA ConfigIs ==
  ASSUME NEW c \in RegistryConfigs, NEW k \in Keys
  PROVE  /\ [c EXCEPT !.authority = k].epochLen = c.epochLen
         /\ [c EXCEPT !.authority = k] # None
         /\ c.epochLen \in Nat
<1>1. c \in RegistryConfigType /\ None \notin RegistryConfigType
  BY RouteAssumption
<1>2. [c EXCEPT !.authority = k] \in RegistryConfigType
  BY <1>1 DEF RegistryConfigType
<1>3. [c EXCEPT !.authority = k].epochLen = c.epochLen /\ c.epochLen \in Nat
  BY <1>1 DEF RegistryConfigType
<1> QED  BY <1>1, <1>2, <1>3

\* What finalize_route writes: one route, and its version counts the changes.
Wrote(n, d, t, a) ==
  /\ DOMAIN canonicalRoutes' = DOMAIN canonicalRoutes \cup {n}
  /\ canonicalRoutes'[n].dest = d /\ canonicalRoutes'[n].ttl = t
  /\ canonicalRoutes'[n].aggregate = a
  /\ n \in DOMAIN canonicalRoutes =>
       ((canonicalRoutes[n].dest # d \/ canonicalRoutes[n].ttl # t)
          => canonicalRoutes'[n].version = canonicalRoutes[n].version + 1)
  /\ \A m \in DOMAIN canonicalRoutes : m # n => canonicalRoutes'[m] = canonicalRoutes[m]

LEMMA FinalizeWrites ==
  ASSUME NEW k, NEW n, NEW d, NEW t, NEW a, FinalizeRoute(k, n, d, t, a)
  PROVE  Wrote(n, d, t, a)
<1> DEFINE v == IF Vacant(canonicalRoutes, n) THEN 1
                ELSE LET r == canonicalRoutes[n]
                     IN IF r.dest = d /\ r.ttl = t THEN r.version ELSE r.version + 1
<1>1. PICK r : r = [dest |-> d, ttl |-> t, version |-> v, updatedAt |-> slot, aggregate |-> a]
  OBVIOUS
<1>2. r.dest = d /\ r.ttl = t /\ r.aggregate = a /\ r.version = v
  BY <1>1
<1>3. canonicalRoutes' = Created(canonicalRoutes, n, r)
  BY <1>1 DEF FinalizeRoute
<1>4. n \in DOMAIN canonicalRoutes =>
        ((canonicalRoutes[n].dest # d \/ canonicalRoutes[n].ttl # t)
          => v = canonicalRoutes[n].version + 1)
  BY DEF Vacant
<1>5. /\ DOMAIN canonicalRoutes' = DOMAIN canonicalRoutes \cup {n}
      /\ canonicalRoutes'[n] = r
      /\ \A m \in DOMAIN canonicalRoutes : m # n => canonicalRoutes'[m] = canonicalRoutes[m]
  BY <1>3 DEF Created
<1> HIDE DEF v
<1> QED  BY <1>2, <1>4, <1>5 DEF Wrote

-----------------------------------------------------------------------------
LEMMA RouteInit_Inv == ChainInit /\ RouteInit => RouteInv /\ RouteIsAggregate
BY DEF ChainInit, RouteInit, NoAccounts, RouteInv, EpochsBegun, RouteIsAggregate

\* What the quorum program adds to its history.
LEMMA CountedIs ==
  ASSUME NEW n, NEW at, counted' = Created(counted, n, at)
  PROVE  /\ DOMAIN counted' = DOMAIN counted \cup {n}
         /\ counted'[n] = at
         /\ \A m \in DOMAIN counted : m # n => counted'[m] = counted[m]
BY DEF Created

\* What leaves the routes, the aggregates and the sets alone, or adds to them.
LEMMA AggregateKept ==
  ASSUME RouteIsAggregate, UNCHANGED <<canonicalRoutes, counted, walletRoutes>>,
         \A a \in DOMAIN aggregates : a \in DOMAIN aggregates' /\ aggregates'[a] = aggregates[a],
         DOMAIN verifierSets \subseteq DOMAIN verifierSets'
  PROVE  RouteIsAggregate'
BY DEF RouteIsAggregate, Exists

\* A wallet takes the route it writes out of the statement.
LEMMA WroteByWallet ==
  ASSUME RouteIsAggregate, UNCHANGED <<aggregates, verifierSets, counted>>,
         NEW n, NEW d, NEW t, NEW at, Wrote(n, d, t, at),
         walletRoutes' = walletRoutes \cup {n}
  PROVE  RouteIsAggregate'
<1>1. ASSUME NEW m \in DOMAIN canonicalRoutes' \ walletRoutes'
      PROVE  /\ m \in DOMAIN canonicalRoutes \ walletRoutes
             /\ canonicalRoutes'[m] = canonicalRoutes[m]
  BY <1>1 DEF Wrote
<1> QED  BY <1>1 DEF RouteIsAggregate, Exists

\* The quorum program writes a route as its aggregate.
LEMMA WroteAggregate ==
  ASSUME RouteIsAggregate, UNCHANGED <<aggregates, verifierSets>>,
         NEW n, NEW d, NEW t, NEW at, Wrote(n, d, t, at),
         counted' = Created(counted, n, at), walletRoutes' = walletRoutes \ {n},
         Exists(aggregates, at), at[2] = n,
         aggregates[at].dest = d, aggregates[at].ttl = t,
         Exists(verifierSets, at[1])
  PROVE  RouteIsAggregate'
<1>0. /\ DOMAIN counted' = DOMAIN counted \cup {n} /\ counted'[n] = at
      /\ \A m \in DOMAIN counted : m # n => counted'[m] = counted[m]
  BY CountedIs
<1>1. /\ canonicalRoutes'[n].dest = d /\ canonicalRoutes'[n].ttl = t
      /\ canonicalRoutes'[n].aggregate = at
  BY DEF Wrote
<1>2. ASSUME NEW m \in DOMAIN canonicalRoutes' \ walletRoutes', m # n
      PROVE  /\ m \in DOMAIN canonicalRoutes \ walletRoutes
             /\ canonicalRoutes'[m] = canonicalRoutes[m]
  BY <1>2 DEF Wrote
<1>3. ASSUME NEW m \in DOMAIN canonicalRoutes' \ walletRoutes'
      PROVE  /\ m \in DOMAIN counted' /\ canonicalRoutes'[m].aggregate = counted'[m]
             /\ canonicalRoutes'[m].aggregate \in DOMAIN aggregates
             /\ canonicalRoutes'[m].aggregate[2] = m
             /\ aggregates[canonicalRoutes'[m].aggregate].dest = canonicalRoutes'[m].dest
             /\ aggregates[canonicalRoutes'[m].aggregate].ttl = canonicalRoutes'[m].ttl
             /\ canonicalRoutes'[m].aggregate[1] \in DOMAIN verifierSets
  <2>1. CASE m = n
    BY <1>0, <1>1, <2>1 DEF Exists
  <2>2. CASE m # n
    BY <1>0, <1>2, <2>2 DEF RouteIsAggregate, Exists
  <2> QED  BY <2>1, <2>2
<1> QED  BY <1>3 DEF RouteIsAggregate, Exists

\* Only the two ways to finalize write routes; submissions only add.
LEMMA RouteNext_Aggregate == RouteIsAggregate /\ [RouteNext]_routeVars => RouteIsAggregate'
<1> SUFFICES ASSUME RouteIsAggregate, [RouteNext]_routeVars PROVE RouteIsAggregate'
  OBVIOUS
<1>1. ASSUME NEW k, NEW c, RegistryInitConfig(k, c) \/ RegistryUpdateConfig(k, c)
      PROVE  RouteIsAggregate'
  BY <1>1, AggregateKept DEF RegistryInitConfig, RegistryUpdateConfig
<1>2. ASSUME NEW k, NEW n, NEW d, NEW t, NEW ref, FinalizeDirectly(k, n, d, t, ref)
      PROVE  RouteIsAggregate'
  <2>1. Wrote(n, d, t, ref)
    BY <1>2, FinalizeWrites DEF FinalizeDirectly
  <2>2. UNCHANGED <<aggregates, verifierSets, counted>> /\ walletRoutes' = walletRoutes \cup {n}
    BY <1>2 DEF FinalizeDirectly
  <2> QED  BY <2>1, <2>2, WroteByWallet
<1>3. CASE InitQuorumAuthority
  BY <1>3, AggregateKept DEF InitQuorumAuthority
<1>4. ASSUME NEW k, NEW e, NEW w, NEW m, InitVerifierSet(k, e, w, m) \/ UpdateVerifierSet(k, e, w, m)
      PROVE  RouteIsAggregate'
  <2>1. UNCHANGED <<canonicalRoutes, aggregates, counted, walletRoutes>>
    BY <1>4 DEF InitVerifierSet, UpdateVerifierSet
  <2>2. DOMAIN verifierSets \subseteq DOMAIN verifierSets'
    BY <1>4 DEF InitVerifierSet, UpdateVerifierSet, Created
  <2> QED  BY <2>1, <2>2, AggregateKept
<1>5. ASSUME NEW k, NEW e, SubmitStakeSnapshot(k, e) PROVE RouteIsAggregate'
  BY <1>5, AggregateKept DEF SubmitStakeSnapshot
<1>6. ASSUME NEW k, NEW e, NEW n, NEW d, NEW t, NEW r, NEW w,
             SubmitAggregate(k, e, n, d, t, r, w)
      PROVE  RouteIsAggregate'
  <2>1. <<e, n, k>> \notin DOMAIN aggregates
    BY <1>6 DEF SubmitAggregate, Vacant
  <2>2. PICK g : aggregates' = Created(aggregates, <<e, n, k>>, g)
    BY <1>6 DEF SubmitAggregate
  <2>3. UNCHANGED <<canonicalRoutes, verifierSets, counted, walletRoutes>>
    BY <1>6 DEF SubmitAggregate
  <2>4. \A a \in DOMAIN aggregates : a \in DOMAIN aggregates' /\ aggregates'[a] = aggregates[a]
    BY <2>1, <2>2 DEF Created
  <2> QED  BY <2>3, <2>4, AggregateKept
<1>7. ASSUME NEW a \in DOMAIN aggregates, NEW d, NEW t, FinalizeIfQuorum(a[3], a[1], a[2], d, t)
      PROVE  RouteIsAggregate'
  <2>1. PICK at : at = <<a[1], a[2], a[3]>>
    OBVIOUS
  <2>2. at[1] = a[1] /\ at[2] = a[2]
    BY <2>1
  <2>3. Wrote(a[2], d, t, at)
    BY <1>7, <2>1, FinalizeWrites DEF FinalizeIfQuorum
  <2>4. /\ UNCHANGED <<aggregates, verifierSets>>
        /\ counted' = Created(counted, a[2], at) /\ walletRoutes' = walletRoutes \ {a[2]}
    BY <1>7, <2>1 DEF FinalizeIfQuorum
  <2>5. /\ Exists(verifierSets, a[1]) /\ Exists(aggregates, at)
        /\ aggregates[at].dest = d /\ aggregates[at].ttl = t
    BY <1>7, <2>1 DEF FinalizeIfQuorum
  <2> QED  BY <2>2, <2>3, <2>4, <2>5, WroteAggregate
<1>8. CASE UNCHANGED routeVars
  BY <1>8, AggregateKept DEF routeVars
<1> QED  BY <1>1, <1>2, <1>3, <1>4, <1>5, <1>6, <1>7, <1>8 DEF RouteNext

\* A canonical route that no wallet has written since ddns_quorum did is the
\* aggregate counted last (finalize_if_quorum checks what the caller repeats,
\* submit_aggregate never writes one twice).
THEOREM RoutesAreAggregates == RouteSpec => []RouteIsAggregate
<1>1. RouteIsAggregate /\ [(RouteNext /\ UNCHANGED slot) \/ (NewSlot /\ UNCHANGED routeVars)]_<<slot, routeVars>>
        => RouteIsAggregate'
  BY RouteNext_Aggregate DEF routeVars
<1> QED  BY RouteInit_Inv, <1>1, PTL DEF RouteSpec

-----------------------------------------------------------------------------
\* The clock only lets epochs begin.
LEMMA NewSlot_Inv == RouteInv /\ NewSlot /\ UNCHANGED routeVars => RouteInv'
<1> SUFFICES ASSUME RouteInv, NewSlot, UNCHANGED routeVars PROVE RouteInv'
  OBVIOUS
<1>1. slot' = slot + 1 /\ slot' \in Nat /\ slot <= slot'
  BY DEF NewSlot, RouteInv
<1>2. ASSUME NEW n \in DOMAIN counted, ~epochsMoved
      PROVE  counted[n][1] <= RouteEpoch'
  <2>1. /\ registryConfig.epochLen \in Nat /\ registryConfig.epochLen > 0 /\ slot \in Nat
        /\ counted[n][1] \in Nat
        /\ counted[n][1] <= slot \div registryConfig.epochLen
    BY <1>2 DEF RouteInv, EpochsBegun, RouteEpoch, EpochOf
  <2>2. RouteEpoch' = slot' \div registryConfig.epochLen
    BY DEF RouteEpoch, EpochOf, routeVars
  <2> QED  BY <1>1, <2>1, <2>2, EpochsGrow
<1> QED  BY <1>1, <1>2 DEF RouteInv, EpochsBegun, routeVars

LEMMA CountedEpoch ==
  ASSUME RouteInv, UNCHANGED <<slot, registryConfig, epochsMoved>>,
         NEW n, NEW at, counted' = Created(counted, n, at),
         registryConfig # None, registryConfig.epochLen > 0,
         at[1] \in Nat, at[1] <= RouteEpoch
  PROVE  RouteInv'
<1>1. RouteEpoch' = RouteEpoch
  BY DEF RouteEpoch, EpochOf
<1>2. /\ DOMAIN counted' = DOMAIN counted \cup {n} /\ counted'[n] = at
      /\ \A m \in DOMAIN counted : m # n => counted'[m] = counted[m]
  BY CountedIs
<1> QED  BY <1>1, <1>2 DEF RouteInv, EpochsBegun

LEMMA RouteNext_Inv == RouteInv /\ RouteNext /\ UNCHANGED slot => RouteInv'
<1> SUFFICES ASSUME RouteInv, RouteNext, UNCHANGED slot PROVE RouteInv'
  OBVIOUS
<1>0. ASSUME UNCHANGED <<registryConfig, counted, epochsMoved>> PROVE RouteInv'
  BY <1>0 DEF RouteInv, EpochsBegun, RouteEpoch, EpochOf
<1>1. ASSUME NEW k \in Keys, NEW c \in RegistryConfigs, RegistryInitConfig(k, c) PROVE RouteInv'
  BY <1>1, ConfigIs DEF RegistryInitConfig, RouteInv, EpochsBegun
<1>2. ASSUME NEW k \in Keys, NEW c \in RegistryConfigs, RegistryUpdateConfig(k, c) PROVE RouteInv'
  <2>1. /\ registryConfig # None /\ registryConfig' = [c EXCEPT !.authority = k]
        /\ epochsMoved' = (epochsMoved \/ c.epochLen # registryConfig.epochLen)
        /\ UNCHANGED counted
    BY <1>2 DEF RegistryUpdateConfig
  <2>2. registryConfig'.epochLen = c.epochLen /\ c.epochLen \in Nat
    BY <2>1, ConfigIs
  <2>3. ~epochsMoved' => ~epochsMoved /\ registryConfig'.epochLen = registryConfig.epochLen
    BY <2>1, <2>2
  <2>4. ~epochsMoved' => RouteEpoch' = RouteEpoch
    BY <2>3 DEF RouteEpoch, EpochOf
  <2>5. registryConfig' # None
    BY <2>1, ConfigIs
  <2> QED  BY <2>1, <2>2, <2>3, <2>4, <2>5 DEF RouteInv, EpochsBegun
<1>3. ASSUME NEW k, NEW n, NEW d, NEW t, NEW ref, FinalizeDirectly(k, n, d, t, ref)
      PROVE  RouteInv'
  BY <1>0, <1>3 DEF FinalizeDirectly
<1>4. ASSUME NEW a \in DOMAIN aggregates, NEW d, NEW t, FinalizeIfQuorum(a[3], a[1], a[2], d, t)
      PROVE  RouteInv'
  <2>1. PICK at : at = <<a[1], a[2], a[3]>>
    OBVIOUS
  <2>2. at[1] = a[1]
    BY <2>1
  <2>3. /\ counted' = Created(counted, a[2], at)
        /\ UNCHANGED <<registryConfig, epochsMoved>> /\ registryConfig # None
        /\ registryConfig.epochLen > 0 /\ RouteEpoch = a[1]
    BY <1>4, <2>1 DEF FinalizeIfQuorum, IsCurrent
  <2>4. RouteEpoch \in Nat
    BY <2>3, EpochsGrow DEF RouteInv, RouteEpoch, EpochOf
  <2> QED  BY <2>2, <2>3, <2>4, CountedEpoch
<1> QED  BY <1>0, <1>1, <1>2, <1>3, <1>4
       DEF RouteNext, InitQuorumAuthority, InitVerifierSet, UpdateVerifierSet,
           SubmitStakeSnapshot, SubmitAggregate

\* What one instruction may do to a route, and to what has been counted.
RouteStep ==
  /\ \A n \in DOMAIN canonicalRoutes :
       LET old == canonicalRoutes[n] new == canonicalRoutes'[n]
       IN /\ n \in DOMAIN canonicalRoutes'
          /\ (old.dest # new.dest \/ old.ttl # new.ttl) => new.version = old.version + 1
  /\ \A n \in DOMAIN counted :
       /\ n \in DOMAIN counted'
       /\ ~epochsMoved' => counted[n][1] <= counted'[n][1]

LEMMA WroteStep ==
  ASSUME NEW n, NEW d, NEW t, NEW at, Wrote(n, d, t, at)
  PROVE  \A m \in DOMAIN canonicalRoutes :
           /\ m \in DOMAIN canonicalRoutes'
           /\ (canonicalRoutes[m].dest # canonicalRoutes'[m].dest
                \/ canonicalRoutes[m].ttl # canonicalRoutes'[m].ttl)
                 => canonicalRoutes'[m].version = canonicalRoutes[m].version + 1
BY DEF Wrote

LEMMA RouteNext_Step == RouteInv /\ RouteNext /\ UNCHANGED slot => RouteStep
<1> SUFFICES ASSUME RouteInv, RouteNext, UNCHANGED slot PROVE RouteStep
  OBVIOUS
<1>a. ASSUME UNCHANGED counted, epochsMoved => epochsMoved'
      PROVE  \A n \in DOMAIN counted :
               n \in DOMAIN counted' /\ (~epochsMoved' => counted[n][1] <= counted'[n][1])
  BY <1>a DEF RouteInv, EpochsBegun
<1>0. ASSUME UNCHANGED <<canonicalRoutes, counted>>, epochsMoved => epochsMoved' PROVE RouteStep
  BY <1>a, <1>0 DEF RouteStep
<1>1. ASSUME NEW k, NEW c, RegistryUpdateConfig(k, c) PROVE RouteStep
  BY <1>0, <1>1 DEF RegistryUpdateConfig
<1>2. ASSUME NEW k, NEW n, NEW d, NEW t, NEW ref, FinalizeDirectly(k, n, d, t, ref)
      PROVE  RouteStep
  <2>1. Wrote(n, d, t, ref)
    BY <1>2, FinalizeWrites DEF FinalizeDirectly
  <2>2. UNCHANGED <<epochsMoved, counted>>
    BY <1>2 DEF FinalizeDirectly
  <2> QED  BY <1>a, <2>1, <2>2, WroteStep DEF RouteStep
<1>3. ASSUME NEW a \in DOMAIN aggregates, NEW d, NEW t, FinalizeIfQuorum(a[3], a[1], a[2], d, t)
      PROVE  RouteStep
  <2>1. PICK at : at = <<a[1], a[2], a[3]>>
    OBVIOUS
  <2>2. at[1] = a[1]
    BY <2>1
  <2>3. Wrote(a[2], d, t, at)
    BY <1>3, <2>1, FinalizeWrites DEF FinalizeIfQuorum
  <2>4. /\ UNCHANGED epochsMoved /\ RouteEpoch = a[1]
        /\ counted' = Created(counted, a[2], at)
    BY <1>3, <2>1 DEF FinalizeIfQuorum, IsCurrent
  <2>5. /\ DOMAIN counted' = DOMAIN counted \cup {a[2]} /\ counted'[a[2]] = at
        /\ \A m \in DOMAIN counted : m # a[2] => counted'[m] = counted[m]
    BY <2>4, CountedIs
  <2>6. ASSUME NEW m \in DOMAIN counted
        PROVE  m \in DOMAIN counted' /\ (~epochsMoved' => counted[m][1] <= counted'[m][1])
    <3>1. ~epochsMoved' => counted[m][1] \in Nat /\ counted[m][1] <= RouteEpoch
      BY <2>4 DEF RouteInv, EpochsBegun
    <3> QED  BY <2>2, <2>4, <2>5, <3>1
  <2> QED  BY <2>3, <2>6, WroteStep DEF RouteStep
<1>4. ASSUME UNCHANGED <<canonicalRoutes, counted, epochsMoved>> PROVE RouteStep
  BY <1>0, <1>4
<1> QED  BY <1>1, <1>2, <1>3, <1>4
       DEF RouteNext, RegistryInitConfig, InitQuorumAuthority, InitVerifierSet,
           UpdateVerifierSet, SubmitStakeSnapshot, SubmitAggregate

\* finalize_route: the version tells of every change, and ddns_quorum never
\* finalizes an aggregate of an earlier epoch than the last of the name, with
\* any writes of a wallet in between, while the epochs keep their length.
THEOREM RouteEpochsOnlyAdvance == RouteSpec => RouteEpochsAdvance
<1>1. RouteInv /\ [(RouteNext /\ UNCHANGED slot) \/ (NewSlot /\ UNCHANGED routeVars)]_<<slot, routeVars>>
        => RouteInv'
  <2>1. ASSUME RouteInv, UNCHANGED <<slot, routeVars>> PROVE RouteInv'
    BY <2>1 DEF RouteInv, EpochsBegun, RouteEpoch, EpochOf, routeVars
  <2> QED  BY <2>1, RouteNext_Inv, NewSlot_Inv
<1>2. RouteInv /\ [(RouteNext /\ UNCHANGED slot) \/ (NewSlot /\ UNCHANGED routeVars)]_<<slot, routeVars>>
        => [RouteStep]_routeVars
  BY RouteNext_Step DEF routeVars
<1>3. RouteSpec => [][RouteStep]_routeVars
  BY RouteInit_Inv, <1>1, <1>2, PTL DEF RouteSpec
<1> QED  BY <1>3, PTL DEF RouteEpochsAdvance, RouteStep

-----------------------------------------------------------------------------
(***************************************************************************)
(* No voucher is paid twice: for any wallets, any vouchers and any signers *)
(* of theirs, and any number of deposits.                                  *)
(***************************************************************************)

\* What was paid has left its account RedeemedVoucher behind, which is never
\* closed; that is why the second `init` for the nonce fails.
EscrowInv ==
  /\ paidVouchers \in [Vouchers -> Nat]
  /\ \A v \in Vouchers : paidVouchers[v] > 0 => Exists(redeemed, <<v.payer, v.nonce>>)
  /\ VoucherPaidOnce

\* The accounts made so far stay when another is made.
LEMMA CreatedKeeps ==
  ASSUME NEW f, NEW s, NEW x, NEW t
  PROVE  /\ Exists(Created(f, s, x), s)
         /\ Exists(f, t) => Exists(Created(f, s, x), t)
BY DEF Created, Exists

LEMMA EscrowInit_Inv == EscrowInit => EscrowInv
BY DEF EscrowInit, EscrowInv, VoucherPaidOnce

\* A voucher is paid only where there is no account of its nonce.
LEMMA Redeem_Inv ==
  ASSUME EscrowInv, NEW v \in Vouchers, RedeemTollVoucher(v)
  PROVE  EscrowInv'
<1>1. /\ Vacant(redeemed, <<v.payer, v.nonce>>)
      /\ redeemed' = Created(redeemed, <<v.payer, v.nonce>>, slot)
      /\ paidVouchers' = [paidVouchers EXCEPT ![v] = @ + 1]
  BY DEF RedeemTollVoucher, RedeemAccounts
<1>2. ASSUME NEW w \in Vouchers, w.payer = v.payer, w.nonce = v.nonce
      PROVE  paidVouchers[w] = 0
  BY <1>1, <1>2 DEF EscrowInv, Vacant, Exists
<1>3. /\ paidVouchers' \in [Vouchers -> Nat] /\ paidVouchers'[v] = 1
      /\ \A w \in Vouchers : w # v => paidVouchers'[w] = paidVouchers[w]
  BY <1>1, <1>2 DEF EscrowInv
<1>4. \A w \in Vouchers : paidVouchers'[w] > 0 => Exists(redeemed', <<w.payer, w.nonce>>)
  BY <1>1, <1>3, CreatedKeeps DEF EscrowInv
<1>5. VoucherPaidOnce'
  BY <1>2, <1>3 DEF EscrowInv, VoucherPaidOnce
<1> QED  BY <1>3, <1>4, <1>5 DEF EscrowInv

\* The other instructions touch neither the payments nor their accounts.
LEMMA EscrowNext_Inv == EscrowInv /\ EscrowNext => EscrowInv'
<1> SUFFICES ASSUME EscrowInv, EscrowNext PROVE EscrowInv'
  OBVIOUS
<1>1. CASE \E v \in Vouchers : RedeemTollVoucher(v)
  BY <1>1, Redeem_Inv
<1>2. CASE \E v \in Vouchers, k \in Keys : CliVoucherRedeem(v, k)
  BY <1>2, Redeem_Inv DEF CliVoucherRedeem
<1>3. ASSUME UNCHANGED <<paidVouchers, redeemed>> PROVE EscrowInv'
  BY <1>3 DEF EscrowInv, VoucherPaidOnce
<1>4. ASSUME NEW c, EscrowInitConfig(c) PROVE UNCHANGED <<paidVouchers, redeemed>>
  BY <1>4 DEF EscrowInitConfig
<1>5. ASSUME NEW u, NEW a, InitUserEscrow(u) \/ Deposit(u, a)
      PROVE  UNCHANGED <<paidVouchers, redeemed>>
  BY <1>5 DEF InitUserEscrow, Deposit
<1>6. ASSUME NEW n, NEW k, RegisterDomainOwner(n, k)
      PROVE  UNCHANGED <<paidVouchers, redeemed>>
  BY <1>6 DEF RegisterDomainOwner
<1>7. ASSUME EscrowCli, ~ \E v \in Vouchers, k \in Keys : CliVoucherRedeem(v, k)
      PROVE  UNCHANGED <<paidVouchers, redeemed>>
  BY <1>4, <1>5, <1>6, <1>7
     DEF EscrowCli, CliEscrowInit, CliEscrowDeposit, CliDomainOwnerRegister
<1> QED  BY <1>1, <1>2, <1>3, <1>4, <1>5, <1>6, <1>7 DEF EscrowNext

\* redeem_toll_voucher pays a voucher once and one voucher of a nonce, in
\* whatever order and by whomever vouchers are brought.
THEOREM VouchersPaidOnce == EscrowSpec => []VoucherPaidOnce
<1>1. ChainInit /\ EscrowInit => EscrowInv
  BY EscrowInit_Inv
<1>2. EscrowInv /\ [(EscrowNext /\ UNCHANGED slot) \/ (NewSlot /\ UNCHANGED escrowVars)]_<<slot, escrowVars>>
        => EscrowInv'
  BY EscrowNext_Inv DEF escrowVars, EscrowInv, VoucherPaidOnce
<1>3. EscrowInv => VoucherPaidOnce
  BY DEF EscrowInv
<1> QED  BY <1>1, <1>2, <1>3, PTL DEF EscrowSpec

-----------------------------------------------------------------------------
(***************************************************************************)
(* Premium names: who may delegate subdomains is the owner, for any        *)
(* wallets, names and tokens, in any order of instructions.                *)
(***************************************************************************)

\* Both accounts have the fields of their structs; without that an update of
\* one field says nothing about the account.
PolicyInv ==
  /\ \A n \in DOMAIN premium :
       premium[n] = PremiumName(premium[n].owner, premium[n].nftMint, premium[n].nftBound)
  /\ \A n \in DOMAIN parentPolicy :
       parentPolicy[n] = ParentPolicy(parentPolicy[n].parentOwner,
                                      parentPolicy[n].transfersEnabled)
  /\ PolicyFollowsOwner

LEMMA PolicyFrame ==
  ASSUME PolicyInv, UNCHANGED premiumVars
  PROVE  PolicyInv'
BY DEF PolicyInv, premiumVars, PolicyFollowsOwner, Exists

\* g is f with one account written, new or not.
WithAccount(g, f, n, x) ==
  /\ DOMAIN g = DOMAIN f \cup {n} /\ g[n] = x
  /\ \A y \in DOMAIN f : y # n => g[y] = f[y]

LEMMA CreatedWrites ==
  ASSUME NEW f, NEW n, NEW x
  PROVE  WithAccount(Created(f, n, x), f, n, x)
BY DEF WithAccount, Created

\* An update of an account that exists; one that leaves it as it is.
LEMMA UpdateWrites ==
  ASSUME NEW f, NEW n \in DOMAIN f, NEW x
  PROVE  /\ WithAccount([f EXCEPT ![n] = x], f, n, x)
         /\ WithAccount(f, f, n, f[n])
BY DEF WithAccount

\* A name and its policy that are written together, for one owner.
LEMMA PolicyWritten ==
  ASSUME PolicyInv, NEW n, NEW k, NEW m, NEW b, NEW e,
         WithAccount(premium', premium, n, PremiumName(k, m, b)),
         WithAccount(parentPolicy', parentPolicy, n, ParentPolicy(k, e))
  PROVE  PolicyInv'
<1>1. ASSUME NEW x \in DOMAIN premium'
      PROVE  premium'[x] = PremiumName(premium'[x].owner, premium'[x].nftMint, premium'[x].nftBound)
  <2>1. CASE x = n
    BY <2>1 DEF PremiumName, WithAccount
  <2>2. CASE x # n
    <3>1. x \in DOMAIN premium /\ premium'[x] = premium[x]
      BY <2>2 DEF WithAccount
    <3> QED  BY <3>1 DEF PolicyInv
  <2> QED  BY <2>1, <2>2
<1>2. ASSUME NEW x \in DOMAIN parentPolicy'
      PROVE  parentPolicy'[x] = ParentPolicy(parentPolicy'[x].parentOwner,
                                             parentPolicy'[x].transfersEnabled)
  <2>1. CASE x = n
    BY <2>1 DEF ParentPolicy, WithAccount
  <2>2. CASE x # n
    <3>1. x \in DOMAIN parentPolicy /\ parentPolicy'[x] = parentPolicy[x]
      BY <2>2 DEF WithAccount
    <3> QED  BY <3>1 DEF PolicyInv
  <2> QED  BY <2>1, <2>2
<1>3. PolicyFollowsOwner'
  BY DEF PolicyInv, PolicyFollowsOwner, Exists, PremiumName, ParentPolicy, WithAccount
<1> QED  BY <1>1, <1>2, <1>3 DEF PolicyInv

LEMMA NewPremiumKeepsPolicy ==
  ASSUME PolicyInv, NEW n, NEW k, NewPremium(n, k)
  PROVE  PolicyInv'
BY PolicyWritten, CreatedWrites DEF NewPremium

\* A name whose owner signs is delegated by that owner.
LEMMA OwnersPolicy ==
  ASSUME PolicyInv, NEW n, Exists(premium, n)
  PROVE  /\ Exists(parentPolicy, n)
         /\ premium[n] = PremiumName(premium[n].owner, premium[n].nftMint, premium[n].nftBound)
         /\ parentPolicy[n] = ParentPolicy(premium[n].owner, parentPolicy[n].transfersEnabled)
BY DEF PolicyInv, PolicyFollowsOwner, Exists

\* One field that changes is an account that is written again.
LEMMA OwnerWrites ==
  ASSUME NEW n \in DOMAIN premium, NEW k, NEW m, NEW b, NEW to,
         premium[n] = PremiumName(k, m, b)
  PROVE  WithAccount([premium EXCEPT ![n].owner = to], premium, n, PremiumName(to, m, b))
<1>1. [premium[n] EXCEPT !.owner = to] = PremiumName(to, m, b)
  BY DEF PremiumName
<1> QED  BY <1>1, UpdateWrites

LEMMA ParentOwnerWrites ==
  ASSUME NEW n \in DOMAIN parentPolicy, NEW k, NEW e, NEW to,
         parentPolicy[n] = ParentPolicy(k, e)
  PROVE  WithAccount([parentPolicy EXCEPT ![n].parentOwner = to], parentPolicy, n,
                     ParentPolicy(to, e))
<1>1. [parentPolicy[n] EXCEPT !.parentOwner = to] = ParentPolicy(to, e)
  BY DEF ParentPolicy
<1> QED  BY <1>1, UpdateWrites

LEMMA TransferKeepsPolicy ==
  ASSUME PolicyInv, NEW n, NEW k, NEW to, TransferPremium(n, k, to)
  PROVE  PolicyInv'
<1> DEFINE m == premium[n].nftMint
           b == premium[n].nftBound
           e == parentPolicy[n].transfersEnabled
<1>1. /\ n \in DOMAIN premium /\ n \in DOMAIN parentPolicy
      /\ premium[n] = PremiumName(k, m, b) /\ parentPolicy[n] = ParentPolicy(k, e)
  BY OwnersPolicy DEF TransferPremium, PremiumOwnerSigns, Exists
<1>2. /\ premium' = [premium EXCEPT ![n].owner = to]
      /\ parentPolicy' = [parentPolicy EXCEPT ![n].parentOwner = to]
  BY <1>1 DEF TransferPremium, ParentPolicy
<1>3. WithAccount(premium', premium, n, PremiumName(to, m, b))
  BY <1>1, <1>2, OwnerWrites
<1>4. WithAccount(parentPolicy', parentPolicy, n, ParentPolicy(to, e))
  BY <1>1, <1>2, ParentOwnerWrites
<1> QED  BY <1>3, <1>4, PolicyWritten

LEMMA BindKeepsPolicy ==
  ASSUME PolicyInv, NEW n, NEW k, NEW m,
         Exists(premium, n), premium[n].owner = k,
         premium' = [premium EXCEPT ![n] = PremiumName(k, m, TRUE)],
         UNCHANGED parentPolicy
  PROVE  PolicyInv'
<1>1. n \in DOMAIN premium /\ n \in DOMAIN parentPolicy
  BY OwnersPolicy DEF Exists
<1>2. WithAccount(premium', premium, n, PremiumName(k, m, TRUE))
  BY <1>1, UpdateWrites
<1>3. WithAccount(parentPolicy', parentPolicy, n, ParentPolicy(k, parentPolicy[n].transfersEnabled))
  BY <1>1, UpdateWrites, OwnersPolicy
<1> QED  BY <1>2, <1>3, PolicyWritten

LEMMA SyncKeepsPolicy ==
  ASSUME PolicyInv, NEW n, NEW to, SyncPremiumOwnerFromNft(n, to)
  PROVE  PolicyInv'
<1> DEFINE k == premium[n].owner
           m == premium[n].nftMint
           b == premium[n].nftBound
           e == parentPolicy[n].transfersEnabled
<1>1. /\ n \in DOMAIN premium /\ n \in DOMAIN parentPolicy
      /\ premium[n] = PremiumName(k, m, b) /\ parentPolicy[n] = ParentPolicy(k, e)
  BY OwnersPolicy DEF SyncPremiumOwnerFromNft, SyncAccounts, Exists
<1>2. /\ premium' = [premium EXCEPT ![n].owner = to]
      /\ parentPolicy' = [parentPolicy EXCEPT ![n].parentOwner = to]
  BY DEF SyncPremiumOwnerFromNft
<1>3. WithAccount(premium', premium, n, PremiumName(to, m, b))
  BY <1>1, <1>2, OwnerWrites
<1>4. WithAccount(parentPolicy', parentPolicy, n, ParentPolicy(to, e))
  BY <1>1, <1>2, ParentOwnerWrites
<1> QED  BY <1>3, <1>4, PolicyWritten

\* Only the owner delegates, so the policy that is written is the owner's.
LEMMA DelegationKeepsPolicy ==
  ASSUME PolicyInv, NEW n, NEW k, NEW e,
         DelegationAccounts(n, k), UNCHANGED premium,
         parentPolicy' = Created(parentPolicy, n, ParentPolicy(k, e))
  PROVE  PolicyInv'
<1>1. n \in DOMAIN premium /\ premium[n].owner = k
  BY DEF DelegationAccounts, Exists
<1>2. WithAccount(premium', premium, n, PremiumName(k, premium[n].nftMint, premium[n].nftBound))
  BY <1>1, UpdateWrites, OwnersPolicy DEF Exists
<1> QED  BY <1>2, CreatedWrites, PolicyWritten

LEMMA ClaimKeepsPolicy ==
  ASSUME PolicyInv, NEW n, NEW l, NEW k, NEW to, ClaimDelegatedSubdomain(n, l, k, to)
  PROVE  PolicyInv'
<1>1. DelegationAccounts(n, k) /\ UNCHANGED premium
  BY DEF ClaimDelegatedSubdomain
<1>2. PolicyFor(n, k) = ParentPolicy(k, parentPolicy[n].transfersEnabled)
  BY <1>1, OwnersPolicy DEF PolicyFor, DelegationAccounts
<1> QED  BY <1>1, <1>2, DelegationKeepsPolicy DEF ClaimDelegatedSubdomain

LEMMA NamesNext_Policy ==
  ASSUME PolicyInv, NamesNext
  PROVE  PolicyInv'
<1>1. ASSUME NEW s, NEW p, InitNamesConfig(s, p) PROVE PolicyInv'
  BY <1>1, PolicyFrame DEF InitNamesConfig
<1>2. ASSUME NEW k, InitPremiumConfig(k) PROVE PolicyInv'
  BY <1>2, PolicyFrame DEF InitPremiumConfig
<1>3. ASSUME NEW n, NEW k, PurchasePremium(n, k) \/ SettleAuction(n, k) PROVE PolicyInv'
  BY <1>3, NewPremiumKeepsPolicy DEF PurchasePremium, SettleAuction
<1>4. ASSUME NEW n, NEW k, IssuePremiumNft(n, k) PROVE PolicyInv'
  BY <1>4, BindKeepsPolicy DEF IssuePremiumNft
<1>5. ASSUME NEW n, NEW k, NEW m, BindPremiumNft(n, k, m) PROVE PolicyInv'
  BY <1>5, BindKeepsPolicy DEF BindPremiumNft, PremiumOwnerSigns
<1>6. ASSUME NEW n, NEW k, WithdrawLosingBid(n, k) PROVE PolicyInv'
  BY <1>6, PolicyFrame DEF WithdrawLosingBid
<1>7. ASSUME NEW k, NEW n, NEW d, CreateAuction(k, n, d) PROVE PolicyInv'
  BY <1>7, PolicyFrame DEF CreateAuction
<1>8. ASSUME NEW n, NEW k, NEW b, PlaceBid(n, k, b) PROVE PolicyInv'
  BY <1>8, PolicyFrame DEF PlaceBid
<1>9. ASSUME NEW n, NEW k, NEW e, SetParentSubdomainPolicy(n, k, e) PROVE PolicyInv'
  BY <1>9, DelegationKeepsPolicy DEF SetParentSubdomainPolicy
<1>10. ASSUME NEW m, NEW k, NEW to, TransferToken(m, k, to) PROVE PolicyInv'
  BY <1>10, PolicyFrame DEF TransferToken
<1>11. ASSUME NEW k, NEW l, ClaimSubdomain(k, l) PROVE PolicyInv'
  BY <1>11, PolicyFrame DEF ClaimSubdomain
<1>12. ASSUME NEW s, NEW k, NEW c, NEW to, TransferSubdomain(s, k, c, to) PROVE PolicyInv'
  BY <1>12, PolicyFrame DEF TransferSubdomain
<1>13. ASSUME NEW s, NEW k, IssueSubdomainNft(s, k) PROVE PolicyInv'
  BY <1>13, PolicyFrame DEF IssueSubdomainNft
<1>14. ASSUME NEW k, NEW name, SetPrimaryName(k, name) PROVE PolicyInv'
  BY <1>14, PolicyFrame DEF SetPrimaryName
<1> QED  BY <1>1, <1>2, <1>3, <1>4, <1>5, <1>6, <1>7, <1>8, <1>9, <1>10, <1>11, <1>12,
            <1>13, <1>14, TransferKeepsPolicy, SyncKeepsPolicy, ClaimKeepsPolicy
         DEF NamesNext, NamesSteps

\* Whoever may delegate subdomains of a name is its owner, also after sales,
\* bindings and syncs, which the instructions of the names program write in two
\* accounts.
THEOREM PolicyIsTheOwners == NamesSpec => []PolicyFollowsOwner
<1>1. NamesInit => PolicyInv
  BY DEF NamesInit, NoAccounts, PolicyInv, PolicyFollowsOwner
<1>2. PolicyInv
      /\ [\/ NamesNext /\ UNCHANGED slot
          \/ NewSlot /\ UNCHANGED namesVars]_<<slot, namesVars>>
      => PolicyInv'
  <2>1. ASSUME PolicyInv, UNCHANGED namesVars PROVE PolicyInv'
    BY <2>1, PolicyFrame DEF namesVars, premiumVars
  <2> QED  BY <2>1, NamesNext_Policy
<1>3. PolicyInv => PolicyFollowsOwner
  BY DEF PolicyInv
<1> QED  BY <1>1, <1>2, <1>3, PTL DEF NamesSpec

-----------------------------------------------------------------------------
(***************************************************************************)
(* Auctions: the highest bid is the highest, and an auctioned name has an  *)
(* owner once its auction was settled, for any wallets, names and bids.    *)
(***************************************************************************)

AuctionFields == {"endSlot", "bidder", "bid", "settled"}

LEMMA SettledUpdates ==
  ASSUME NEW a, DOMAIN a = AuctionFields, NEW b, b = [a EXCEPT !.settled = TRUE]
  PROVE  DOMAIN b = AuctionFields /\ b.bidder = a.bidder /\ b.bid = a.bid /\ b.settled
BY DEF AuctionFields

\* Bids are counted in an escrow only while there is an auction, so that a new
\* one begins without any.
BidsInv ==
  /\ \A n \in DOMAIN auctions :
       DOMAIN auctions[n] = AuctionFields /\ auctions[n].bid \in Nat
  /\ \A n : \A k \in Keys :
       Exists(bidEscrows, <<n, k>>) =>
         Exists(auctions, n) /\ bidEscrows[<<n, k>>] \in Nat
  /\ AuctionOrdered

\* An auction in which the bids are in order.
Ordered(n) ==
  \A k \in Keys :
    IF k = auctions[n].bidder THEN EscrowAmount(n, k) = auctions[n].bid
    ELSE EscrowAmount(n, k) < auctions[n].bid \/ EscrowAmount(n, k) = 0

OwnedOnceSettled(n) ==
  Auctioned(n) => (Exists(premium, n) <=> Exists(auctions, n) /\ auctions[n].settled)

LEMMA BidsInvParts ==
  ASSUME BidsInv
  PROVE  /\ \A n \in DOMAIN auctions : Ordered(n)
         /\ \A n \in PremiumNames : OwnedOnceSettled(n)
BY DEF BidsInv, AuctionOrdered, Ordered, OwnedOnceSettled

LEMMA BidsFrame ==
  ASSUME BidsInv, DOMAIN premium' = DOMAIN premium, UNCHANGED <<auctions, bidEscrows>>
  PROVE  BidsInv'
BY DEF BidsInv, AuctionOrdered, EscrowAmount, Exists, Auctioned

LEMMA AmountIsNat ==
  ASSUME BidsInv, NEW n, NEW k \in Keys
  PROVE  EscrowAmount(n, k) \in Nat
BY DEF BidsInv, EscrowAmount

\* Names of other lengths may be bought.
LEMMA PurchaseKeepsBids ==
  ASSUME BidsInv, NEW n, NEW k, PurchasePremium(n, k)
  PROVE  BidsInv'
<1>1. /\ ~Auctioned(n) /\ UNCHANGED <<auctions, bidEscrows>>
      /\ \A x : x # n => (Exists(premium', x) <=> Exists(premium, x))
  BY DEF PurchasePremium, NewPremium, Created, auctionVars, Exists
<1>2. AuctionOrdered'
  BY <1>1 DEF BidsInv, AuctionOrdered, EscrowAmount, Exists, Auctioned
<1> QED  BY <1>1, <1>2 DEF BidsInv, Exists

LEMMA CreateKeepsBids ==
  ASSUME BidsInv, NEW n, NEW k, NEW d, CreateAuction(k, n, d)
  PROVE  BidsInv'
<1> DEFINE a == [endSlot |-> slot + d, bidder |-> None, bid |-> 0, settled |-> FALSE]
<1>1. /\ Vacant(auctions, n) /\ WithAccount(auctions', auctions, n, a)
      /\ UNCHANGED <<premium, bidEscrows>>
  BY CreatedWrites DEF CreateAuction, premiumVars
<1>2. \A x \in DOMAIN auctions' :
        DOMAIN auctions'[x] = AuctionFields /\ auctions'[x].bid \in Nat
  BY <1>1 DEF BidsInv, AuctionFields, WithAccount
<1>3. \A x : \A w \in Keys :
        Exists(bidEscrows', <<x, w>>) =>
          Exists(auctions', x) /\ bidEscrows'[<<x, w>>] \in Nat
  BY <1>1 DEF BidsInv, Exists, WithAccount
<1>4. ASSUME NEW x \in DOMAIN auctions' PROVE Ordered(x)'
  <2>1. CASE x = n
    <3>1. \A w \in Keys : EscrowAmount(n, w)' = 0
      BY <1>1 DEF BidsInv, EscrowAmount, Exists, Vacant
    <3>2. auctions'[n].bid = 0
      BY <1>1 DEF WithAccount
    <3> QED  BY <2>1, <3>1, <3>2 DEF Ordered
  <2>2. CASE x # n
    BY <1>1, <2>2, BidsInvParts DEF Ordered, EscrowAmount, Exists, WithAccount
  <2> QED  BY <2>1, <2>2
<1>5. ASSUME NEW x \in PremiumNames PROVE OwnedOnceSettled(x)'
  <2>1. CASE x = n
    BY <1>1, <2>1, BidsInvParts
    DEF OwnedOnceSettled, Auctioned, Exists, Vacant, WithAccount
  <2>2. CASE x # n
    BY <1>1, <2>2, BidsInvParts DEF OwnedOnceSettled, Auctioned, Exists, WithAccount
  <2> QED  BY <2>1, <2>2
<1>6. AuctionOrdered'
  BY <1>4, <1>5 DEF AuctionOrdered, Ordered, OwnedOnceSettled
<1> QED  BY <1>2, <1>3, <1>6 DEF BidsInv

\* A new bid exceeds what every other wallet has in its escrow.
LEMMA BidIsHighest ==
  ASSUME BidsInv, NEW n \in DOMAIN auctions, NEW total \in Nat,
         total >= LeastBid(auctions[n]), NEW k \in Keys
  PROVE  EscrowAmount(n, k) < total \/ EscrowAmount(n, k) = 0
<1> DEFINE b == auctions[n].bid
<1>1. b \in Nat /\ EscrowAmount(n, k) \in Nat
  BY AmountIsNat DEF BidsInv
<1>2. EscrowAmount(n, k) <= b \/ EscrowAmount(n, k) = 0
  BY <1>1, BidsInvParts DEF Ordered
<1>3. b > 0 => b < total
  BY <1>1, NamesAssumption DEF LeastBid, Greater
<1> QED  BY <1>1, <1>2, <1>3

LEMMA BidKeepsBids ==
  ASSUME BidsInv, NEW n, NEW k \in Keys, NEW l \in Bids, PlaceBid(n, k, l)
  PROVE  BidsInv'
<1> DEFINE total == EscrowAmount(n, k) + l
           a == auctions[n]
           b == [a EXCEPT !.bidder = k, !.bid = total, !.endSlot = Extended(a)]
<1>1. /\ n \in DOMAIN auctions /\ total \in Nat /\ total >= LeastBid(a)
      /\ DOMAIN a = AuctionFields /\ UNCHANGED premium
  BY AmountIsNat, NamesAssumption DEF PlaceBid, BidsInv, Exists, premiumVars
<1>2. WithAccount(bidEscrows', bidEscrows, <<n, k>>, total)
  BY CreatedWrites DEF PlaceBid
<1>3. auctions' = [auctions EXCEPT ![n] = b]
  BY DEF PlaceBid
<1> HIDE DEF a
<1>4. DOMAIN b = AuctionFields /\ b.bidder = k /\ b.bid = total /\ b.settled = a.settled
  BY <1>1 DEF AuctionFields
<1> USE DEF a
<1> HIDE DEF b
<1>5. WithAccount(auctions', auctions, n, b)
  BY <1>1, <1>3, UpdateWrites
<1>6. \A x \in DOMAIN auctions' :
        DOMAIN auctions'[x] = AuctionFields /\ auctions'[x].bid \in Nat
  BY <1>1, <1>4, <1>5 DEF BidsInv, WithAccount
<1>7. \A x : \A w \in Keys :
        Exists(bidEscrows', <<x, w>>) =>
          Exists(auctions', x) /\ bidEscrows'[<<x, w>>] \in Nat
  BY <1>1, <1>2, <1>5 DEF BidsInv, Exists, WithAccount
<1>8. ASSUME NEW x, NEW w, <<x, w>> # <<n, k>>
      PROVE  EscrowAmount(x, w)' = EscrowAmount(x, w)
  BY <1>2, <1>8 DEF EscrowAmount, Exists, WithAccount
<1>9. ASSUME NEW x \in DOMAIN auctions' PROVE Ordered(x)'
  <2>1. CASE x = n
    <3>1. auctions'[n].bidder = k /\ auctions'[n].bid = total
      BY <1>4, <1>5 DEF WithAccount
    <3>2. EscrowAmount(n, k)' = total
      BY <1>2 DEF EscrowAmount, Exists, WithAccount
    <3>3. ASSUME NEW w \in Keys, w # k
          PROVE  EscrowAmount(n, w)' < total \/ EscrowAmount(n, w)' = 0
      BY <1>1, <1>8, <3>3, BidIsHighest
    <3> QED  BY <2>1, <3>1, <3>2, <3>3 DEF Ordered
  <2>2. CASE x # n
    <3>1. x \in DOMAIN auctions /\ auctions'[x] = auctions[x]
      BY <1>5, <2>2 DEF WithAccount
    <3> QED  BY <1>8, <2>2, <3>1, BidsInvParts DEF Ordered
  <2> QED  BY <2>1, <2>2
<1>10. ASSUME NEW x \in PremiumNames PROVE OwnedOnceSettled(x)'
  <2>1. auctions'[n].settled = auctions[n].settled
    BY <1>4, <1>5 DEF WithAccount
  <2> QED  BY <1>1, <1>5, <2>1, BidsInvParts DEF OwnedOnceSettled, Auctioned, Exists, WithAccount
<1>11. AuctionOrdered'
  BY <1>9, <1>10 DEF AuctionOrdered, Ordered, OwnedOnceSettled
<1> QED  BY <1>6, <1>7, <1>11 DEF BidsInv

LEMMA SettleKeepsBids ==
  ASSUME BidsInv, NEW n, NEW k, SettleAuction(n, k)
  PROVE  BidsInv'
<1> DEFINE a == auctions[n]
           b == [a EXCEPT !.settled = TRUE]
<1>1. /\ n \in DOMAIN auctions /\ UNCHANGED bidEscrows
      /\ DOMAIN a = AuctionFields
      /\ WithAccount(premium', premium, n, PremiumName(k, None, FALSE))
  BY CreatedWrites DEF SettleAuction, NewPremium, BidsInv, Exists
<1>2. auctions' = [auctions EXCEPT ![n] = b]
  BY DEF SettleAuction
<1>3. DOMAIN b = AuctionFields /\ b.bidder = a.bidder /\ b.bid = a.bid /\ b.settled
  BY <1>1, SettledUpdates
<1> HIDE DEF b
<1>4. WithAccount(auctions', auctions, n, b)
  BY <1>1, <1>2, UpdateWrites
<1>5. \A x \in DOMAIN auctions' :
        DOMAIN auctions'[x] = AuctionFields /\ auctions'[x].bid \in Nat
  BY <1>1, <1>3, <1>4 DEF BidsInv, WithAccount
<1>6. \A x : \A w \in Keys :
        Exists(bidEscrows', <<x, w>>) =>
          Exists(auctions', x) /\ bidEscrows'[<<x, w>>] \in Nat
  BY <1>1, <1>4 DEF BidsInv, Exists, WithAccount
<1>7. /\ DOMAIN auctions' = DOMAIN auctions
      /\ \A x \in DOMAIN auctions :
           auctions'[x].bidder = auctions[x].bidder /\ auctions'[x].bid = auctions[x].bid
  BY <1>1, <1>3, <1>4 DEF WithAccount
<1>8. \A x \in DOMAIN auctions' : Ordered(x)'
  BY <1>1, <1>7, BidsInvParts DEF Ordered, EscrowAmount
<1>9. ASSUME NEW x \in PremiumNames PROVE OwnedOnceSettled(x)'
  <2>1. CASE x = n
    BY <1>1, <1>3, <1>4, <2>1 DEF OwnedOnceSettled, Exists, WithAccount
  <2>2. CASE x # n
    BY <1>1, <1>4, <2>2, BidsInvParts DEF OwnedOnceSettled, Auctioned, Exists, WithAccount
  <2> QED  BY <2>1, <2>2
<1>10. AuctionOrdered'
  BY <1>8, <1>9 DEF AuctionOrdered, Ordered, OwnedOnceSettled
<1> QED  BY <1>5, <1>6, <1>10 DEF BidsInv

LEMMA NamesNext_Bids ==
  ASSUME BidsInv, NamesNext
  PROVE  BidsInv'
<1>1. ASSUME NEW s, NEW p, InitNamesConfig(s, p) PROVE BidsInv'
  BY <1>1, BidsFrame DEF InitNamesConfig, premiumVars, auctionVars
<1>2. ASSUME NEW k, InitPremiumConfig(k) PROVE BidsInv'
  BY <1>2, BidsFrame DEF InitPremiumConfig, premiumVars, auctionVars
<1>3. ASSUME NEW n, NEW k, NEW to, TransferPremium(n, k, to) PROVE BidsInv'
  BY <1>3, BidsFrame DEF TransferPremium, auctionVars
<1>4. ASSUME NEW n, NEW k, IssuePremiumNft(n, k) PROVE BidsInv'
  BY <1>4, BidsFrame DEF IssuePremiumNft, auctionVars
<1>5. ASSUME NEW n, NEW k, NEW m, BindPremiumNft(n, k, m) PROVE BidsInv'
  BY <1>5, BidsFrame DEF BindPremiumNft, auctionVars
<1>6. ASSUME NEW n, NEW k, SyncPremiumOwnerFromNft(n, k) PROVE BidsInv'
  BY <1>6, BidsFrame DEF SyncPremiumOwnerFromNft, auctionVars
<1>7. ASSUME NEW n, NEW k, WithdrawLosingBid(n, k) PROVE BidsInv'
  BY <1>7, BidsFrame DEF WithdrawLosingBid, premiumVars
<1>8. ASSUME NEW n, NEW l, NEW k, NEW to, ClaimDelegatedSubdomain(n, l, k, to) PROVE BidsInv'
  BY <1>8, BidsFrame DEF ClaimDelegatedSubdomain, auctionVars
<1>9. ASSUME NEW n, NEW k, NEW e, SetParentSubdomainPolicy(n, k, e) PROVE BidsInv'
  BY <1>9, BidsFrame DEF SetParentSubdomainPolicy, auctionVars
<1>10. ASSUME NEW m, NEW k, NEW to, TransferToken(m, k, to) PROVE BidsInv'
  BY <1>10, BidsFrame DEF TransferToken, premiumVars, auctionVars
<1>11. ASSUME NEW k, NEW l, ClaimSubdomain(k, l) PROVE BidsInv'
  BY <1>11, BidsFrame DEF ClaimSubdomain, premiumVars, auctionVars
<1>12. ASSUME NEW s, NEW k, NEW c, NEW to, TransferSubdomain(s, k, c, to) PROVE BidsInv'
  BY <1>12, BidsFrame DEF TransferSubdomain, premiumVars, auctionVars
<1>13. ASSUME NEW s, NEW k, IssueSubdomainNft(s, k) PROVE BidsInv'
  BY <1>13, BidsFrame DEF IssueSubdomainNft, premiumVars, auctionVars
<1>14. ASSUME NEW k, NEW name, SetPrimaryName(k, name) PROVE BidsInv'
  BY <1>14, BidsFrame DEF SetPrimaryName, premiumVars, auctionVars
<1> QED  BY <1>1, <1>2, <1>3, <1>4, <1>5, <1>6, <1>7, <1>8, <1>9, <1>10, <1>11, <1>12,
            <1>13, <1>14, PurchaseKeepsBids, CreateKeepsBids, BidKeepsBids, SettleKeepsBids
         DEF NamesNext, NamesSteps

\* The highest bid of an auction is the highest that anybody has in escrow, and
\* no auctioned name has an owner before its auction is settled: bids add up,
\* losers withdraw and bid again, and the escrow is not reset.
THEOREM AuctionsOrdered == NamesSpec => []AuctionOrdered
<1>1. NamesInit => BidsInv
  BY DEF NamesInit, NoAccounts, BidsInv, AuctionOrdered, Exists
<1>2. BidsInv
      /\ [\/ NamesNext /\ UNCHANGED slot
          \/ NewSlot /\ UNCHANGED namesVars]_<<slot, namesVars>>
      => BidsInv'
  <2>1. ASSUME BidsInv, UNCHANGED namesVars PROVE BidsInv'
    BY <2>1, BidsFrame DEF namesVars
  <2> QED  BY <2>1, NamesNext_Bids
<1>3. BidsInv => AuctionOrdered
  BY DEF BidsInv
<1> QED  BY <1>1, <1>2, <1>3, PTL DEF NamesSpec

-----------------------------------------------------------------------------
(***************************************************************************)
(* Reports of watchdogs: each is counted once in the epoch, for any number *)
(* of watchdogs, names and reports.                                        *)
(***************************************************************************)

PolicyFields ==
  {"status", "epoch", "ok", "fail", "mismatch", "distinct", "penalty", "ttlCap"}

IsPolicy(p) ==
  /\ DOMAIN p = PolicyFields
  /\ p.status \in {"ok", "warn", "quarantine"}
  /\ p.epoch \in Nat /\ p.distinct \in Nat /\ p.ttlCap \in Nat

MarksOf(e, n) == {m \in wdMarks : m[1] = e /\ m[2] = n}

OutputsOf(p) ==
  /\ p.penalty = CASE p.status = "ok" -> 0 [] p.status = "warn" -> 500
                   [] p.status = "quarantine" -> 2500
  /\ (p.status = "ok") <=> (p.ttlCap = 0)
  /\ p.status = "quarantine" => p.ttlCap = 60

\* No mark and no count is of an epoch that has not begun, so that the counts
\* of a new epoch begin without marks.
WdInv ==
  /\ slot \in Nat
  /\ wdConfig # None => wdConfig \in WdConfigType /\ wdConfig.epochLen > 0
  /\ IsFiniteSet(wdMarks)
  /\ \A n \in DOMAIN wdPolicy :
       /\ IsPolicy(wdPolicy[n]) /\ OutputsOf(wdPolicy[n])
       /\ wdConfig # None /\ wdPolicy[n].epoch <= WdEpoch
       /\ wdPolicy[n].epoch > 0 =>
            wdPolicy[n].distinct = Cardinality(MarksOf(wdPolicy[n].epoch, n))
  /\ \A m \in wdMarks :
       m[2] \in DOMAIN wdPolicy /\ m[1] \in Nat /\ m[1] <= wdPolicy[m[2]].epoch

LEMMA CountedCounts ==
  ASSUME NEW p, IsPolicy(p), NEW verdict, NEW new \in BOOLEAN
  PROVE  /\ IsPolicy(Counted(p, verdict, new))
         /\ Counted(p, verdict, new).epoch = p.epoch
         /\ Counted(p, verdict, new).distinct = p.distinct + (IF new THEN 1 ELSE 0)
<1>1. /\ DOMAIN Counted(p, verdict, new) = PolicyFields
      /\ Counted(p, verdict, new).status = p.status
      /\ Counted(p, verdict, new).epoch = p.epoch
      /\ Counted(p, verdict, new).ttlCap = p.ttlCap
      /\ Counted(p, verdict, new).distinct = p.distinct + (IF new THEN 1 ELSE 0)
  BY DEF Counted, IsPolicy, PolicyFields
<1> QED  BY <1>1 DEF IsPolicy

LEMMA OutputsWritten ==
  ASSUME NEW p, IsPolicy(p)
  PROVE  /\ IsPolicy(WithOutputs(p)) /\ OutputsOf(WithOutputs(p))
         /\ WithOutputs(p).epoch = p.epoch /\ WithOutputs(p).distinct = p.distinct
<1>1. CASE p.status = "ok"
  <2>1. WithOutputs(p) = [p EXCEPT !.penalty = 0, !.ttlCap = 0]
    BY <1>1 DEF WithOutputs
  <2> QED  BY <1>1, <2>1 DEF IsPolicy, OutputsOf, PolicyFields
<1>2. CASE p.status = "warn"
  <2> DEFINE cap == IF p.ttlCap = 0 THEN 300 ELSE Lesser(p.ttlCap, 300)
  <2>1. WithOutputs(p) = [p EXCEPT !.penalty = 500, !.ttlCap = cap]
    BY <1>2 DEF WithOutputs
  <2>2. cap \in Nat /\ cap # 0
    BY DEF IsPolicy, Lesser
  <2> HIDE DEF cap
  <2> QED  BY <1>2, <2>1, <2>2 DEF IsPolicy, OutputsOf, PolicyFields
<1>3. CASE p.status = "quarantine"
  <2>1. WithOutputs(p) = [p EXCEPT !.penalty = 2500, !.ttlCap = 60]
    BY <1>3 DEF WithOutputs
  <2> QED  BY <1>3, <2>1 DEF IsPolicy, OutputsOf, PolicyFields
<1> QED  BY <1>1, <1>2, <1>3 DEF IsPolicy

\* What a report finds.
LEMMA PolicyFound ==
  ASSUME WdInv, wdConfig # None, NEW n
  PROVE  /\ WdEpoch \in Nat
         /\ IsPolicy(PolicyAt(n, WdEpoch))
         /\ PolicyAt(n, WdEpoch).epoch = WdEpoch
         /\ WdEpoch > 0 =>
              PolicyAt(n, WdEpoch).distinct = Cardinality(MarksOf(WdEpoch, n))
<1>1. WdEpoch \in Nat
  BY EpochsGrow DEF WdInv, WdConfigType, WdEpoch, EpochOf
<1>2. CASE n \notin DOMAIN wdPolicy
  <2>1. MarksOf(WdEpoch, n) = {}
    BY <1>2 DEF WdInv, MarksOf
  <2>2. PolicyAt(n, WdEpoch) = NamePolicyState(WdEpoch)
    BY <1>2 DEF PolicyAt, Vacant
  <2> QED  BY <1>1, <2>1, <2>2, FS_EmptySet DEF NamePolicyState, IsPolicy, PolicyFields
<1>3. CASE n \in DOMAIN wdPolicy /\ wdPolicy[n].epoch = WdEpoch
  BY <1>1, <1>3 DEF PolicyAt, Vacant, WdInv
<1>4. CASE n \in DOMAIN wdPolicy /\ wdPolicy[n].epoch # WdEpoch
  <2>1. IsPolicy(wdPolicy[n]) /\ wdPolicy[n].epoch < WdEpoch
    BY <1>1, <1>4 DEF WdInv, IsPolicy
  <2>2. MarksOf(WdEpoch, n) = {}
    BY <1>1, <2>1 DEF WdInv, MarksOf, IsPolicy
  <2>3. PolicyAt(n, WdEpoch) =
          [wdPolicy[n] EXCEPT !.epoch = WdEpoch, !.ok = 0, !.fail = 0, !.mismatch = 0,
                              !.distinct = 0]
    BY <1>4 DEF PolicyAt, Vacant
  <2>4. /\ IsPolicy(PolicyAt(n, WdEpoch))
        /\ PolicyAt(n, WdEpoch).epoch = WdEpoch /\ PolicyAt(n, WdEpoch).distinct = 0
    BY <1>1, <2>1, <2>3 DEF IsPolicy, PolicyFields
  <2> QED  BY <1>1, <2>2, <2>4, FS_EmptySet
<1> QED  BY <1>2, <1>3, <1>4

\* A mark that is set again changes no number, a new one adds one.
LEMMA MarkCounts ==
  ASSUME WdInv, NEW e \in Nat, e > 0, NEW n, NEW w,
         wdMarks' = wdMarks \cup {<<e, n, w>>}
  PROVE  Cardinality(MarksOf(e, n)') =
           Cardinality(MarksOf(e, n)) + (IF MarkNew(e, n, w) THEN 1 ELSE 0)
<1>1. IsFiniteSet(MarksOf(e, n))
  BY FS_Subset DEF WdInv, MarksOf
<1>2. MarksOf(e, n)' = MarksOf(e, n) \cup {<<e, n, w>>}
  BY DEF MarksOf
<1>3. MarkNew(e, n, w) <=> <<e, n, w>> \notin MarksOf(e, n)
  BY DEF MarkNew, MarksOf
<1>4. Cardinality(MarksOf(e, n)) \in Nat
  BY <1>1, FS_CardinalityType
<1>5. CASE <<e, n, w>> \in MarksOf(e, n)
  <2>1. MarksOf(e, n)' = MarksOf(e, n)
    BY <1>2, <1>5
  <2> QED  BY <1>3, <1>4, <1>5, <2>1
<1>6. CASE <<e, n, w>> \notin MarksOf(e, n)
  <2>1. Cardinality(MarksOf(e, n) \cup {<<e, n, w>>}) = Cardinality(MarksOf(e, n)) + 1
    BY <1>1, <1>6, FS_AddElement
  <2> QED  BY <1>2, <1>3, <1>6, <2>1
<1> QED  BY <1>5, <1>6

LEMMA MarksFinite ==
  ASSUME WdInv, NEW m, wdMarks' = wdMarks \cup {m}
  PROVE  IsFiniteSet(wdMarks)'
BY FS_AddElement DEF WdInv

LEMMA ReportKeepsCounts ==
  ASSUME WdInv, NEW k, NEW w, NEW e, NEW n, NEW verdict, NEW fresh,
         SubmitAttestationDigest(k, w, e, n, verdict, fresh), UNCHANGED slot
  PROVE  WdInv'
<1> DEFINE p == Counted(PolicyAt(n, e), verdict, MarkNew(e, n, w))
           q == [p EXCEPT !.status = PolicyStatus(p)]
<1>1. /\ wdConfig # None /\ e = WdEpoch /\ UNCHANGED wdConfig
      /\ wdMarks' = wdMarks \cup {<<e, n, w>>}
      /\ WithAccount(wdPolicy', wdPolicy, n, WithOutputs(q))
  BY CreatedWrites DEF SubmitAttestationDigest
<1>2. /\ e \in Nat /\ IsPolicy(PolicyAt(n, e)) /\ PolicyAt(n, e).epoch = e
      /\ e > 0 => PolicyAt(n, e).distinct = Cardinality(MarksOf(e, n))
  BY <1>1, PolicyFound
<1>3. MarkNew(e, n, w) \in BOOLEAN
  BY DEF MarkNew
<1>4. /\ IsPolicy(p) /\ p.epoch = e
      /\ p.distinct = PolicyAt(n, e).distinct + (IF MarkNew(e, n, w) THEN 1 ELSE 0)
  BY <1>2, <1>3, CountedCounts
<1> HIDE DEF p
<1>5. PolicyStatus(p) \in {"ok", "warn", "quarantine"}
  BY <1>4 DEF PolicyStatus, IsPolicy
<1>6. IsPolicy(q) /\ q.epoch = e /\ q.distinct = p.distinct
  BY <1>4, <1>5 DEF IsPolicy, PolicyFields
<1> HIDE DEF q
<1>7. /\ IsPolicy(wdPolicy'[n]) /\ OutputsOf(wdPolicy'[n])
      /\ wdPolicy'[n].epoch = e /\ wdPolicy'[n].distinct = p.distinct
  BY <1>1, <1>6, OutputsWritten DEF WithAccount
<1>8. e > 0 => wdPolicy'[n].distinct = Cardinality(MarksOf(e, n)')
  BY <1>1, <1>2, <1>4, <1>7, MarkCounts
<1>9. WdEpoch' = e
  BY <1>1 DEF WdEpoch, EpochOf
<1>10. ASSUME NEW x \in DOMAIN wdPolicy'
       PROVE  /\ IsPolicy(wdPolicy'[x]) /\ OutputsOf(wdPolicy'[x])
              /\ wdPolicy'[x].epoch <= e
              /\ wdPolicy'[x].epoch > 0 =>
                   wdPolicy'[x].distinct =
                     Cardinality({m \in wdMarks' : m[1] = wdPolicy'[x].epoch /\ m[2] = x})
  <2>1. CASE x = n
    <3>1. {m \in wdMarks' : m[1] = wdPolicy'[x].epoch /\ m[2] = x} = MarksOf(e, n)'
      BY <1>7, <2>1 DEF MarksOf
    <3>2. IsPolicy(wdPolicy'[x]) /\ OutputsOf(wdPolicy'[x]) /\ wdPolicy'[x].epoch = e
      BY <1>7, <2>1
    <3>3. e > 0 => wdPolicy'[x].distinct = Cardinality(MarksOf(e, n)')
      BY <1>8, <2>1
    <3>4. wdPolicy'[x].epoch > 0 =>
             wdPolicy'[x].distinct =
               Cardinality({m \in wdMarks' : m[1] = wdPolicy'[x].epoch /\ m[2] = x})
      <4> SUFFICES ASSUME wdPolicy'[x].epoch > 0
                   PROVE  wdPolicy'[x].distinct = Cardinality(MarksOf(e, n)')
        BY <3>1, Zenon
      <4> QED  BY <3>2, <3>3
    <3>5. wdPolicy'[x].epoch <= e
      BY <1>2, <3>2
    <3> QED  BY <3>2, <3>4, <3>5, Zenon
  <2>2. CASE x # n
    <3>1. x \in DOMAIN wdPolicy /\ wdPolicy'[x] = wdPolicy[x]
      BY <1>1, <2>2 DEF WithAccount
    <3>2. {m \in wdMarks' : m[1] = wdPolicy'[x].epoch /\ m[2] = x}
            = MarksOf(wdPolicy[x].epoch, x)
      BY <1>1, <2>2, <3>1 DEF MarksOf
    <3> QED  BY <1>1, <3>1, <3>2 DEF WdInv
  <2> QED  BY <2>1, <2>2
<1>11. ASSUME NEW m \in wdMarks'
       PROVE  m[2] \in DOMAIN wdPolicy' /\ m[1] \in Nat /\ m[1] <= wdPolicy'[m[2]].epoch
  <2>1. CASE m = <<e, n, w>>
    BY <1>1, <1>2, <1>7, <2>1 DEF WithAccount
  <2>2. CASE m \in wdMarks /\ m[2] = n
    BY <1>1, <1>2, <1>7, <2>2 DEF WdInv, WithAccount, IsPolicy
  <2>3. CASE m \in wdMarks /\ m[2] # n
    BY <1>1, <2>3 DEF WdInv, WithAccount
  <2> QED  BY <1>1, <2>1, <2>2, <2>3
<1>12. IsFiniteSet(wdMarks)'
  BY <1>1, MarksFinite
<1>13. /\ slot' \in Nat /\ wdConfig' # None
       /\ wdConfig' \in WdConfigType /\ wdConfig'.epochLen > 0
  BY <1>1 DEF WdInv
<1> QED  BY <1>9, <1>10, <1>11, <1>12, <1>13 DEF WdInv, MarksOf

\* The other steps leave names and marks alone, and no epoch goes back.
LEMMA EpochsKeepCounts ==
  ASSUME WdInv, slot' \in Nat, slot <= slot', UNCHANGED <<wdPolicy, wdMarks>>,
         \/ UNCHANGED wdConfig
         \/ wdConfig # None /\ wdConfig' # None /\ wdConfig' \in WdConfigType
            /\ wdConfig'.epochLen = wdConfig.epochLen
         \/ wdConfig = None /\ wdConfig' \in WdConfigType /\ wdConfig'.epochLen > 0
  PROVE  WdInv'
<1>1. wdConfig' # None => wdConfig' \in WdConfigType /\ wdConfig'.epochLen > 0
  BY DEF WdInv
<1>2. ASSUME NEW n \in DOMAIN wdPolicy
      PROVE  wdConfig' # None /\ wdPolicy[n].epoch <= WdEpoch'
  <2>1. /\ wdConfig # None /\ wdConfig' # None /\ wdConfig'.epochLen = wdConfig.epochLen
        /\ wdConfig.epochLen \in Nat /\ wdConfig.epochLen > 0
        /\ wdPolicy[n].epoch \in Nat /\ wdPolicy[n].epoch <= WdEpoch
    BY DEF WdInv, IsPolicy, WdConfigType
  <2>2. WdEpoch \in Nat /\ WdEpoch' \in Nat /\ WdEpoch <= WdEpoch'
    BY <2>1, EpochsGrow DEF WdInv, WdEpoch, EpochOf
  <2> QED  BY <2>1, <2>2
<1> QED  BY <1>1, <1>2 DEF WdInv, MarksOf

LEMMA ThresholdsType ==
  ASSUME NEW c \in WdConfigType, NEW a \in Nat, NEW b \in Nat
  PROVE  /\ [c EXCEPT !.warn = a, !.quarantine = b] \in WdConfigType
         /\ [c EXCEPT !.warn = a, !.quarantine = b].epochLen = c.epochLen
BY DEF WdConfigType

LEMMA AllowlistsType ==
  ASSUME NEW c \in WdConfigType, NEW a \in SUBSET Keys, NEW b \in SUBSET Keys
  PROVE  /\ [c EXCEPT !.watchdogs = a, !.submitters = b] \in WdConfigType
         /\ [c EXCEPT !.watchdogs = a, !.submitters = b].epochLen = c.epochLen
BY DEF WdConfigType

LEMMA SubmittersType ==
  ASSUME NEW c \in WdConfigType, NEW k \in Keys
  PROVE  [c EXCEPT !.submitters = {k}] \in WdConfigType
BY DEF WdConfigType

LEMMA InitKeepsCounts ==
  ASSUME WdInv, NEW k, NEW c \in WdConfigType, WdInitConfig(k, c), UNCHANGED slot
  PROVE  WdInv'
<1>1. slot' \in Nat /\ slot <= slot'
  BY DEF WdInv
<1>2. wdConfig = None /\ wdConfig' \in WdConfigType /\ wdConfig'.epochLen > 0
  BY DEF WdInitConfig
<1> QED  BY <1>1, <1>2, EpochsKeepCounts DEF WdInitConfig

LEMMA SettingsKeepCounts ==
  ASSUME WdInv, NEW k, UNCHANGED slot,
         \/ \E t \in WdThresholds : UpdateThresholds(k, t)
         \/ \E a \in WdAllowlists : SetAllowlists(k, a)
  PROVE  WdInv'
<1>1. slot' \in Nat /\ slot <= slot'
  BY DEF WdInv
<1>2. ASSUME NEW t \in WdThresholds, UpdateThresholds(k, t) PROVE WdInv'
  <2>1. wdConfig # None /\ wdConfig \in WdConfigType /\ t[1] \in Nat /\ t[2] \in Nat
    BY <1>2, WdAssumption DEF UpdateThresholds, WdAuthoritySigns, WdInv
  <2>2. wdConfig' \in WdConfigType /\ wdConfig'.epochLen = wdConfig.epochLen
    BY <1>2, <2>1, ThresholdsType DEF UpdateThresholds
  <2>3. wdConfig' # None
    BY <2>2, WdAssumption
  <2> QED  BY <1>1, <1>2, <2>1, <2>2, <2>3, EpochsKeepCounts DEF UpdateThresholds
<1>3. ASSUME NEW a \in WdAllowlists, SetAllowlists(k, a) PROVE WdInv'
  <2>1. /\ wdConfig # None /\ wdConfig \in WdConfigType
        /\ a[1] \in SUBSET Keys /\ a[2] \in SUBSET Keys
    BY <1>3, WdAssumption DEF SetAllowlists, WdAuthoritySigns, WdInv
  <2>2. wdConfig' \in WdConfigType /\ wdConfig'.epochLen = wdConfig.epochLen
    BY <1>3, <2>1, AllowlistsType DEF SetAllowlists
  <2>3. wdConfig' # None
    BY <2>2, WdAssumption
  <2> QED  BY <1>1, <1>3, <2>1, <2>2, <2>3, EpochsKeepCounts DEF SetAllowlists
<1> QED  BY <1>2, <1>3

LEMMA EnabledKeepsCounts ==
  ASSUME WdInv, NEW k, NEW w, NEW arg, NEW b, SetWatchdogEnabled(k, w, arg, b), UNCHANGED slot
  PROVE  WdInv'
<1>1. slot' \in Nat /\ slot <= slot'
  BY DEF WdInv
<1> QED  BY <1>1, EpochsKeepCounts DEF SetWatchdogEnabled

LEMMA WdNext_Inv ==
  ASSUME WdInv, WdNext, UNCHANGED slot
  PROVE  WdInv'
<1>1. ASSUME NEW k \in Keys, NEW c \in WdConfigs,
             WdInitConfig(k, c) \/ CliWdInitConfig(k, c)
      PROVE  WdInv'
  <2>1. c \in WdConfigType
    BY WdAssumption
  <2>2. CASE WdInitConfig(k, c)
    BY <2>1, <2>2, InitKeepsCounts
  <2>3. CASE CliWdInitConfig(k, c)
    <3> DEFINE d == IF c.submitters = {} THEN [c EXCEPT !.submitters = {k}] ELSE c
    <3>1. d \in WdConfigType
      BY <2>1, SubmittersType
    <3>2. WdInitConfig(k, d)
      BY <2>3 DEF CliWdInitConfig
    <3> HIDE DEF d
    <3> QED  BY <3>1, <3>2, InitKeepsCounts
  <2> QED  BY <1>1, <2>2, <2>3
<1>2. ASSUME NEW k, NEW w, NEW arg, NEW b,
             SetWatchdogEnabled(k, w, arg, b) \/ CliWdEnable(k, w, b)
      PROVE  WdInv'
  BY <1>2, EnabledKeepsCounts DEF CliWdEnable
<1>3. ASSUME NEW k, NEW w, NEW e, NEW n, NEW v, NEW f,
             SubmitAttestationDigest(k, w, e, n, v, f) \/ CliWdSubmitDigest(k, w, n, v, f)
      PROVE  WdInv'
  <2>1. CASE SubmitAttestationDigest(k, w, e, n, v, f)
    BY <2>1, ReportKeepsCounts
  <2>2. CASE CliWdSubmitDigest(k, w, n, v, f)
    <3>1. \E d : SubmitAttestationDigest(k, w, d, n, v, f)
      BY <2>2 DEF CliWdSubmitDigest
    <3>2. PICK d : SubmitAttestationDigest(k, w, d, n, v, f)
      BY <3>1
    <3> QED  BY <3>2, ReportKeepsCounts
  <2> QED  BY <1>3, <2>1, <2>2
<1> QED  BY <1>1, <1>2, <1>3, SettingsKeepCounts DEF WdNext, WdCli

\* A watchdog is counted once for a name and an epoch, whatever it reports, is
\* switched off and on, and whatever epochs are skipped; penalty and TTL cap are
\* those of the status.
THEOREM WatchdogsCounted == WdSpec => []PolicyCountsWatchdogs
<1>1. ChainInit /\ WdInit => WdInv
  BY FS_EmptySet DEF ChainInit, WdInit, NoAccounts, WdInv
<1>2. WdInv
      /\ [\/ WdNext /\ UNCHANGED slot
          \/ NewSlot /\ UNCHANGED wdVars]_<<slot, wdVars>>
      => WdInv'
  <2>1. ASSUME WdInv, NewSlot \/ UNCHANGED slot, UNCHANGED wdVars PROVE WdInv'
    <3>1. slot' \in Nat /\ slot <= slot'
      BY <2>1 DEF WdInv, NewSlot
    <3> QED  BY <2>1, <3>1, EpochsKeepCounts DEF wdVars
  <2> QED  BY <2>1, WdNext_Inv
<1>3. WdInv => PolicyCountsWatchdogs
  <2>1. ASSUME WdInv, NEW n \in DOMAIN wdPolicy
        PROVE  /\ wdPolicy[n].epoch > 0 =>
                    wdPolicy[n].distinct =
                      Cardinality({m \in wdMarks : m[1] = wdPolicy[n].epoch /\ m[2] = n})
               /\ OutputsOf(wdPolicy[n])
    BY <2>1 DEF WdInv, MarksOf
  <2> QED  BY <2>1 DEF OutputsOf, PolicyCountsWatchdogs
<1> QED  BY <1>1, <1>2, <1>3, PTL DEF WdSpec

-----------------------------------------------------------------------------
(***************************************************************************)
(* Registrations: what the service reports as executed has been made, for  *)
(* any wallets, names and requests at once, with the names changing hands  *)
(* between the commands.                                                   *)
(***************************************************************************)

IsSubName(x) == x = [owner |-> x.owner, parentOwner |-> x.parentOwner, nft |-> x.nft]
SubsInv == \A s \in DOMAIN subNames : IsSubName(subNames[s])

\* Names, subdomains and tokens once made are not removed, and no subdomain
\* loses its token.
NamesGrow ==
  /\ DOMAIN premium \subseteq DOMAIN premium' /\ DOMAIN tokens \subseteq DOMAIN tokens'
  /\ DOMAIN subNames \subseteq DOMAIN subNames'
  /\ \A s \in DOMAIN subNames : subNames[s].nft => subNames'[s].nft

LEMMA CreatedGrows ==
  ASSUME NEW f, NEW n, NEW x PROVE DOMAIN Created(f, n, x) = DOMAIN f \cup {n}
BY DEF Created

\* One subdomain that is written keeps the token it has.
LEMMA SubWritten ==
  ASSUME SubsInv, NEW s, NEW x, WithAccount(subNames', subNames, s, x), IsSubName(x),
         s \in DOMAIN subNames /\ subNames[s].nft => x.nft
  PROVE  /\ SubsInv' /\ DOMAIN subNames \subseteq DOMAIN subNames'
         /\ \A y \in DOMAIN subNames : subNames[y].nft => subNames'[y].nft
BY DEF WithAccount, SubsInv

LEMMA SubClaimed ==
  ASSUME SubsInv, NEW s, NEW k, NEW c, Vacant(subNames, s),
         subNames' = Created(subNames, s, SubName(k, c))
  PROVE  /\ SubsInv' /\ DOMAIN subNames \subseteq DOMAIN subNames'
         /\ \A y \in DOMAIN subNames : subNames[y].nft => subNames'[y].nft
<1>1. IsSubName(SubName(k, c))
  BY DEF IsSubName, SubName
<1>2. WithAccount(subNames', subNames, s, SubName(k, c))
  BY CreatedWrites
<1>3. s \notin DOMAIN subNames
  BY DEF Vacant
<1> QED  BY <1>1, <1>2, <1>3, SubWritten

LEMMA SubTransferred ==
  ASSUME SubsInv, NEW s \in DOMAIN subNames, NEW to,
         subNames' = [subNames EXCEPT ![s].owner = to]
  PROVE  /\ SubsInv' /\ DOMAIN subNames \subseteq DOMAIN subNames'
         /\ \A y \in DOMAIN subNames : subNames[y].nft => subNames'[y].nft
<1>1. PICK x : x = [subNames[s] EXCEPT !.owner = to]
  OBVIOUS
<1>2. IsSubName(x) /\ x.nft = subNames[s].nft
  <2>1. PICK y : y = subNames[s]
    OBVIOUS
  <2>2. IsSubName(y)
    BY <2>1 DEF SubsInv
  <2>3. x = [y EXCEPT !.owner = to]
    BY <1>1, <2>1
  <2>4. x = [owner |-> to, parentOwner |-> y.parentOwner, nft |-> y.nft]
    BY <2>2, <2>3 DEF IsSubName
  <2> QED  BY <2>1, <2>4 DEF IsSubName
<1>3. WithAccount(subNames', subNames, s, x)
  BY <1>1, UpdateWrites
<1> QED  BY <1>2, <1>3, SubWritten

LEMMA SubIssued ==
  ASSUME SubsInv, NEW s \in DOMAIN subNames,
         subNames' = [subNames EXCEPT ![s].nft = TRUE]
  PROVE  /\ SubsInv' /\ DOMAIN subNames \subseteq DOMAIN subNames' /\ subNames'[s].nft
         /\ \A y \in DOMAIN subNames : subNames[y].nft => subNames'[y].nft
<1>1. PICK x : x = [subNames[s] EXCEPT !.nft = TRUE]
  OBVIOUS
<1>2. IsSubName(x) /\ x.nft
  <2>1. PICK y : y = subNames[s]
    OBVIOUS
  <2>2. IsSubName(y)
    BY <2>1 DEF SubsInv
  <2>3. x = [y EXCEPT !.nft = TRUE]
    BY <1>1, <2>1
  <2>4. x = [owner |-> y.owner, parentOwner |-> y.parentOwner, nft |-> TRUE]
    BY <2>2, <2>3 DEF IsSubName
  <2> QED  BY <2>4 DEF IsSubName
<1>3. WithAccount(subNames', subNames, s, x)
  BY <1>1, UpdateWrites
<1>4. subNames'[s] = x
  BY <1>3 DEF WithAccount
<1> QED  BY <1>2, <1>3, <1>4, SubWritten

\* An instruction of the names program, whoever sends it and for what name.
NamesCall ==
  \/ \E s, p : InitNamesConfig(s, p)
  \/ \E k : InitPremiumConfig(k)
  \/ \E n, k : PurchasePremium(n, k) \/ SettleAuction(n, k) \/ IssuePremiumNft(n, k)
  \/ \E n, k, m :
       BindPremiumNft(n, k, m) \/ TransferPremium(n, k, m) \/ SyncPremiumOwnerFromNft(n, k)
  \/ \E n, k, b : WithdrawLosingBid(n, k) \/ CreateAuction(k, n, b) \/ PlaceBid(n, k, b)
  \/ \E n, k, e : SetParentSubdomainPolicy(n, k, e)
  \/ \E m, k, to : TransferToken(m, k, to)
  \/ \E k, l : ClaimSubdomain(k, l)
  \/ \E n, l, k, to : ClaimDelegatedSubdomain(n, l, k, to)
  \/ \E s, k, c, to : TransferSubdomain(s, k, c, to)
  \/ \E s, k : IssueSubdomainNft(s, k)
  \/ \E k, name : SetPrimaryName(k, name)

LEMMA NamesCallGrows ==
  ASSUME SubsInv, NamesCall
  PROVE  SubsInv' /\ NamesGrow
<1>0. ASSUME UNCHANGED subNames, DOMAIN premium \subseteq DOMAIN premium',
             DOMAIN tokens \subseteq DOMAIN tokens'
      PROVE  SubsInv' /\ NamesGrow
  BY <1>0 DEF SubsInv, NamesGrow
<1>1. ASSUME NEW s, NEW p, InitNamesConfig(s, p) PROVE SubsInv' /\ NamesGrow
  BY <1>0, <1>1 DEF InitNamesConfig, premiumVars
<1>2. ASSUME NEW k, InitPremiumConfig(k) PROVE SubsInv' /\ NamesGrow
  BY <1>0, <1>2 DEF InitPremiumConfig, premiumVars
<1>3. ASSUME NEW n, NEW k, PurchasePremium(n, k) \/ SettleAuction(n, k)
      PROVE  SubsInv' /\ NamesGrow
  <2>1. /\ premium' = Created(premium, n, PremiumName(k, None, FALSE))
        /\ UNCHANGED <<subNames, tokens>>
    BY <1>3 DEF PurchasePremium, SettleAuction, NewPremium
  <2>2. DOMAIN premium' = DOMAIN premium \cup {n}
    BY <2>1, CreatedGrows
  <2> QED  BY <1>0, <2>1, <2>2
<1>4. ASSUME NEW n, NEW k, IssuePremiumNft(n, k) PROVE SubsInv' /\ NamesGrow
  <2>1. /\ DOMAIN premium' = DOMAIN premium /\ UNCHANGED subNames
        /\ tokens' = Created(tokens, NameMint(n), {k})
    BY <1>4 DEF IssuePremiumNft
  <2>2. DOMAIN tokens' = DOMAIN tokens \cup {NameMint(n)}
    BY <2>1, CreatedGrows
  <2> QED  BY <1>0, <2>1, <2>2
<1>5. ASSUME NEW n, NEW k, NEW m,
             BindPremiumNft(n, k, m) \/ TransferPremium(n, k, m) \/ SyncPremiumOwnerFromNft(n, k)
      PROVE  SubsInv' /\ NamesGrow
  BY <1>0, <1>5 DEF BindPremiumNft, TransferPremium, SyncPremiumOwnerFromNft
<1>6. ASSUME NEW n, NEW k, NEW b, WithdrawLosingBid(n, k) \/ CreateAuction(k, n, b) \/ PlaceBid(n, k, b)
      PROVE  SubsInv' /\ NamesGrow
  BY <1>0, <1>6 DEF WithdrawLosingBid, CreateAuction, PlaceBid, premiumVars
<1>7. ASSUME NEW n, NEW k, NEW e, SetParentSubdomainPolicy(n, k, e)
      PROVE  SubsInv' /\ NamesGrow
  BY <1>0, <1>7 DEF SetParentSubdomainPolicy
<1>8. ASSUME NEW m, NEW k, NEW to, TransferToken(m, k, to) PROVE SubsInv' /\ NamesGrow
  BY <1>0, <1>8 DEF TransferToken, premiumVars
<1>9. ASSUME NEW k, NEW l, ClaimSubdomain(k, l) PROVE SubsInv' /\ NamesGrow
  <2>1. /\ Vacant(subNames, <<Zone, l>>) /\ UNCHANGED <<premium, tokens>>
        /\ subNames' = Created(subNames, <<Zone, l>>, SubName(k, None))
    BY <1>9 DEF ClaimSubdomain, premiumVars
  <2> QED  BY <2>1, SubClaimed DEF NamesGrow
<1>10. ASSUME NEW n, NEW l, NEW k, NEW to, ClaimDelegatedSubdomain(n, l, k, to)
       PROVE  SubsInv' /\ NamesGrow
  <2>1. /\ Vacant(subNames, <<n, l>>) /\ UNCHANGED <<premium, tokens>>
        /\ subNames' = Created(subNames, <<n, l>>, SubName(to, k))
    BY <1>10 DEF ClaimDelegatedSubdomain
  <2> QED  BY <2>1, SubClaimed DEF NamesGrow
<1>11. ASSUME NEW s, NEW k, NEW c, NEW to, TransferSubdomain(s, k, c, to)
       PROVE  SubsInv' /\ NamesGrow
  <2>1. /\ s \in DOMAIN subNames /\ UNCHANGED <<premium, tokens>>
        /\ subNames' = [subNames EXCEPT ![s].owner = to]
    BY <1>11 DEF TransferSubdomain, SubOwnerSigns, Exists, premiumVars
  <2> QED  BY <2>1, SubTransferred DEF NamesGrow
<1>12. ASSUME NEW s, NEW k, IssueSubdomainNft(s, k) PROVE SubsInv' /\ NamesGrow
  <2>1. /\ s \in DOMAIN subNames /\ UNCHANGED premium
        /\ subNames' = [subNames EXCEPT ![s].nft = TRUE]
        /\ tokens' = Created(tokens, SubMint(s), {})
    BY <1>12 DEF IssueSubdomainNft, SubNftAccounts, SubOwnerSigns, Exists, premiumVars
  <2>2. DOMAIN tokens' = DOMAIN tokens \cup {SubMint(s)}
    BY <2>1, CreatedGrows
  <2>3. /\ SubsInv' /\ DOMAIN subNames \subseteq DOMAIN subNames'
        /\ \A y \in DOMAIN subNames : subNames[y].nft => subNames'[y].nft
    BY <2>1, SubIssued
  <2> QED  BY <2>1, <2>2, <2>3 DEF NamesGrow
<1>13. ASSUME NEW k, NEW name, SetPrimaryName(k, name) PROVE SubsInv' /\ NamesGrow
  BY <1>0, <1>13 DEF SetPrimaryName, premiumVars
<1> QED  BY <1>1, <1>2, <1>3, <1>4, <1>5, <1>6, <1>7, <1>8, <1>9, <1>10, <1>11, <1>12, <1>13
         DEF NamesCall

LEMMA NamesNextCalls == ASSUME NamesNext PROVE NamesCall
BY DEF NamesNext, NamesSteps, NamesCall

LEMMA NamesCliCalls == ASSUME NamesCli PROVE NamesCall
BY DEF NamesCli, NamesCall, CliInitConfig, CliInitPremiumConfig, CliClaimSub, CliBuyPremium,
   CliBindPremiumNft, CliIssuePremiumNft, CliSyncPremiumOwner, CliIssueSubNft,
   CliCreateAuction, CliBid, CliWithdrawLosingBid, CliSettleAuction, CliSetPrimary

\* The token of a name that was asked for is made.
Tokened(asked) ==
  IF asked.mode = "premium" THEN Exists(tokens, NameMint(asked.name))
  ELSE subNames[<<asked.parent, asked.label>>].nft

LEMMA AskedStays ==
  ASSUME NamesGrow, NEW asked
  PROVE  /\ Taken(asked) => Taken(asked)'
         /\ Taken(asked) /\ Tokened(asked) => Tokened(asked)'
BY DEF NamesGrow, Taken, Tokened, Exists

LEMMA SetPrimaryLast ==
  ASSUME NEW a, NEW b, NEW c, NEW plan, plan = <<a, b>> \o <<c>>
  PROVE  Len(plan) = 3 /\ plan[1] = a /\ plan[2] = b /\ plan[3] = c
<1>1. PICK s : s = <<a, b>>
  OBVIOUS
<1>2. PICK t : t = <<c>>
  OBVIOUS
<1>3. s \in Seq({a, b, c}) /\ Len(s) = 2 /\ s[1] = a /\ s[2] = b
  BY <1>1
<1>4. t \in Seq({a, b, c}) /\ Len(t) = 1 /\ t[1] = c
  BY <1>2
<1>5. plan = s \o t
  BY <1>1, <1>2
<1>6. /\ Len(plan) = 3
      /\ \A i \in 1..3 : plan[i] = IF i <= 2 THEN s[i] ELSE t[i - 2]
  BY <1>3, <1>4, <1>5, ConcatProperties
<1> QED  BY <1>3, <1>4, <1>6

\* The commands of a plan, by their places.
LEMMA PlanIs ==
  ASSUME NEW asked, NEW p \in BOOLEAN, NEW plan, plan = BuildRegistrationPlan(asked, p)
  PROVE  /\ Len(plan) \in 2..3
         /\ plan[1] = IF asked.mode = "premium" THEN "buy-premium" ELSE "claim-sub"
         /\ plan[2] = IF asked.mode = "premium" THEN "issue-premium-nft" ELSE "issue-sub-nft"
         /\ Len(plan) = 3 => plan[3] = "set-primary"
<1>1. CASE asked.mode = "premium" /\ p
  <2>1. plan = <<"buy-premium", "issue-premium-nft">> \o <<"set-primary">>
    BY <1>1 DEF BuildRegistrationPlan
  <2>2. /\ Len(plan) = 3 /\ plan[1] = "buy-premium" /\ plan[2] = "issue-premium-nft"
        /\ plan[3] = "set-primary"
    BY <2>1, SetPrimaryLast
  <2>3. Len(plan) \in 2..3
    BY <2>2
  <2> QED  BY <1>1, <2>2, <2>3
<1>2. CASE asked.mode = "premium" /\ ~p
  <2>1. plan = <<"buy-premium", "issue-premium-nft">>
    BY <1>2 DEF BuildRegistrationPlan
  <2> QED  BY <1>2, <2>1
<1>3. CASE asked.mode # "premium" /\ p
  <2>1. plan = <<"claim-sub", "issue-sub-nft">> \o <<"set-primary">>
    BY <1>3 DEF BuildRegistrationPlan
  <2>2. /\ Len(plan) = 3 /\ plan[1] = "claim-sub" /\ plan[2] = "issue-sub-nft"
        /\ plan[3] = "set-primary"
    BY <2>1, SetPrimaryLast
  <2>3. Len(plan) \in 2..3
    BY <2>2
  <2> QED  BY <1>3, <2>2, <2>3
<1>4. CASE asked.mode # "premium" /\ ~p
  <2>1. plan = <<"claim-sub", "issue-sub-nft">>
    BY <1>4 DEF BuildRegistrationPlan
  <2> QED  BY <1>4, <2>1
<1> QED  BY <1>1, <1>2, <1>3, <1>4

\* A job under way has done the commands before the one at which it stands.
JobDone(r) ==
  /\ r = [at |-> r.at, asked |-> r.asked, plan |-> r.plan]
  /\ \E p \in BOOLEAN : r.plan = BuildRegistrationPlan(r.asked, p)
  /\ r.at \in 1..Len(r.plan)
  /\ r.at >= 2 => Taken(r.asked)
  /\ r.at >= 3 => Tokened(r.asked)

NrInv ==
  /\ SubsInv
  /\ DOMAIN nrRunning = NrJobs
  /\ \A j \in NrJobs : nrRunning[j] = NotRunning \/ JobDone(nrRunning[j])
  /\ ReportedIsRegistered

\* The command at which a job stands makes what the next one needs.
LEMMA PlanStepDoes ==
  ASSUME SubsInv, NEW j \in NrJobs, NEW r, r = nrRunning[j], JobDone(r), PlanStep(j)
  PROVE  /\ SubsInv' /\ NamesGrow
         /\ r.at = 1 => Taken(r.asked)'
         /\ r.at = 2 => Tokened(r.asked)'
<1>1. PICK asked, plan : asked = r.asked /\ plan = r.plan
  OBVIOUS
<1>2. PICK p \in BOOLEAN : plan = BuildRegistrationPlan(asked, p)
  BY <1>1 DEF JobDone
<1>3. /\ Len(plan) \in 2..3
      /\ plan[1] = IF asked.mode = "premium" THEN "buy-premium" ELSE "claim-sub"
      /\ plan[2] = IF asked.mode = "premium" THEN "issue-premium-nft" ELSE "issue-sub-nft"
      /\ Len(plan) = 3 => plan[3] = "set-primary"
  BY <1>2, PlanIs
<1>4. /\ r.at \in {1, 2, 3} /\ (r.at = 3 => Len(plan) = 3)
  <2>1. PICK at, len : at = r.at /\ len = Len(plan)
    OBVIOUS
  <2>2. at \in 1..len
    BY <1>1, <2>1 DEF JobDone
  <2>3. len = 2 \/ len = 3
    BY <1>3, <2>1
  <2>4. at \in {1, 2, 3} /\ (at = 3 => len = 3)
    BY <2>2, <2>3
  <2> QED  BY <2>1, <2>4
<1>5. PICK command : command = plan[r.at]
  OBVIOUS
<1>6. /\ command = "buy-premium"       => CliBuyPremium(NrWallet, asked.name)
      /\ command = "issue-premium-nft" => CliIssuePremiumNft(NrWallet, asked.name)
      /\ command = "claim-sub"     => CliClaimSub(NrWallet, asked.label, asked.parent)
      /\ command = "issue-sub-nft" => CliIssueSubNft(NrWallet, asked.label, asked.parent)
      /\ command = "set-primary"   => CliSetPrimary(NrWallet, asked)
  BY <1>1, <1>5 DEF PlanStep
<1>7. CASE r.at = 1 /\ asked.mode = "premium"
  <2>1. PurchasePremium(asked.name, NrWallet)
    BY <1>3, <1>5, <1>6, <1>7 DEF CliBuyPremium
  <2>2. NamesCall
    BY <2>1 DEF NamesCall
  <2>3. PICK n, x : n = asked.name /\ x = PremiumName(NrWallet, None, FALSE)
    OBVIOUS
  <2>4. premium' = Created(premium, n, x)
    BY <2>1, <2>3 DEF PurchasePremium, NewPremium
  <2>5. asked.name \in DOMAIN premium'
    <3>1. DOMAIN premium' = DOMAIN premium \cup {n}
      BY <2>4, CreatedGrows
    <3> QED  BY <2>3, <3>1
  <2> QED  BY <1>1, <1>7, <2>2, <2>5, NamesCallGrows DEF Taken, Exists
<1>8. CASE r.at = 1 /\ asked.mode # "premium"
  <2>1. asked.parent = Zone /\ ClaimSubdomain(NrWallet, asked.label)
    BY <1>3, <1>5, <1>6, <1>8 DEF CliClaimSub
  <2>2. NamesCall
    BY <2>1 DEF NamesCall
  <2>3. PICK s, x : s = <<asked.parent, asked.label>> /\ x = SubName(NrWallet, None)
    OBVIOUS
  <2>4. subNames' = Created(subNames, s, x)
    BY <2>1, <2>3 DEF ClaimSubdomain
  <2>5. s \in DOMAIN subNames'
    <3>1. DOMAIN subNames' = DOMAIN subNames \cup {s}
      BY <2>4, CreatedGrows
    <3> QED  BY <3>1
  <2> QED  BY <1>1, <1>8, <2>2, <2>3, <2>5, NamesCallGrows DEF Taken, Exists
<1>9. CASE r.at = 2 /\ asked.mode = "premium"
  <2>1. IssuePremiumNft(asked.name, NrWallet)
    BY <1>3, <1>5, <1>6, <1>9 DEF CliIssuePremiumNft
  <2>2. NamesCall
    BY <2>1 DEF NamesCall
  <2>3. PICK m, x : m = NameMint(asked.name) /\ x = {NrWallet}
    OBVIOUS
  <2>4. tokens' = Created(tokens, m, x)
    BY <2>1, <2>3 DEF IssuePremiumNft
  <2>5. m \in DOMAIN tokens'
    <3>1. DOMAIN tokens' = DOMAIN tokens \cup {m}
      BY <2>4, CreatedGrows
    <3> QED  BY <3>1
  <2> QED  BY <1>1, <1>9, <2>2, <2>3, <2>5, NamesCallGrows DEF Tokened, Exists
<1>10. CASE r.at = 2 /\ asked.mode # "premium"
  <2>1. PICK s : s = <<asked.parent, asked.label>>
    OBVIOUS
  <2>2. IssueSubdomainNft(s, NrWallet)
    BY <1>3, <1>5, <1>6, <1>10, <2>1 DEF CliIssueSubNft
  <2>3. NamesCall
    BY <2>2 DEF NamesCall
  <2>4. s \in DOMAIN subNames /\ subNames' = [subNames EXCEPT ![s].nft = TRUE]
    BY <2>2 DEF IssueSubdomainNft, SubNftAccounts, SubOwnerSigns, Exists
  <2>5. subNames'[s].nft
    BY <2>4, SubIssued
  <2> QED  BY <1>1, <1>10, <2>1, <2>3, <2>5, NamesCallGrows DEF Tokened
<1>11. CASE r.at = 3
  <2>1. CliSetPrimary(NrWallet, asked)
    BY <1>3, <1>4, <1>5, <1>6, <1>11
  <2>2. NamesCall
    BY <2>1 DEF NamesCall, CliSetPrimary
  <2> QED  BY <1>11, <2>2, NamesCallGrows
<1> QED  BY <1>4, <1>7, <1>8, <1>9, <1>10, <1>11

\* One job moves; the others stand where they stood, on names that are still there.
LEMMA JobMoves ==
  ASSUME NrInv, NamesGrow, SubsInv', NEW j \in NrJobs, NEW r,
         nrRunning' = [nrRunning EXCEPT ![j] = r],
         r = NotRunning \/ JobDone(r)', ReportedIsRegistered'
  PROVE  NrInv'
<1>1. DOMAIN nrRunning' = NrJobs
  BY DEF NrInv
<1>2. ASSUME NEW i \in NrJobs PROVE (nrRunning[i] = NotRunning \/ JobDone(nrRunning[i]))'
  <2>1. CASE i = j
    <3>1. nrRunning'[i] = r
      BY <2>1 DEF NrInv
    <3> QED  BY <3>1
  <2>2. CASE i # j
    <3>1. PICK x : x = nrRunning[i]
      OBVIOUS
    <3>2. nrRunning'[i] = x /\ (x = NotRunning \/ JobDone(x))
      BY <2>2, <3>1 DEF NrInv
    <3>3. JobDone(x) => JobDone(x)'
      BY AskedStays DEF JobDone
    <3> QED  BY <3>2, <3>3
  <2> QED  BY <2>1, <2>2
<1> QED  BY <1>1, <1>2 DEF NrInv

LEMMA ReportStays ==
  ASSUME NamesGrow, ReportedIsRegistered, UNCHANGED nrReport
  PROVE  ReportedIsRegistered'
<1>1. PICK a : a = nrReport.asked
  OBVIOUS
<1>2. nrReport.ok /\ nrReport.executed => Taken(a) /\ Tokened(a)
  BY <1>1 DEF ReportedIsRegistered, Taken, Tokened
<1>3. nrReport'.ok /\ nrReport'.executed => Taken(a)' /\ Tokened(a)'
  BY <1>2, AskedStays
<1> QED  BY <1>1, <1>3 DEF ReportedIsRegistered, Taken, Tokened

LEMMA JobsStay ==
  ASSUME NrInv, NamesGrow, SubsInv', UNCHANGED nrRunning, ReportedIsRegistered'
  PROVE  NrInv'
<1>1. ASSUME NEW i \in NrJobs PROVE (nrRunning[i] = NotRunning \/ JobDone(nrRunning[i]))'
  <2>1. PICK x : x = nrRunning[i]
    OBVIOUS
  <2>2. nrRunning'[i] = x /\ (x = NotRunning \/ JobDone(x))
    BY <2>1 DEF NrInv
  <2>3. JobDone(x) => JobDone(x)'
    BY AskedStays DEF JobDone
  <2> QED  BY <2>2, <2>3
<1> QED  BY <1>1 DEF NrInv

LEMMA NothingGrows == ASSUME SubsInv, UNCHANGED namesVars PROVE SubsInv' /\ NamesGrow
BY DEF namesVars, premiumVars, SubsInv, NamesGrow

\* Only a plan that came to its end is reported as executed.
LEMMA NotExecuted ==
  ASSUME NEW ok, NEW reason, NEW asked
  PROVE  ~Report(ok, FALSE, reason, asked).executed /\ ~Report(FALSE, TRUE, reason, asked).ok
BY DEF Report

LEMMA RegisterKeeps ==
  ASSUME NrInv, NEW j \in NrJobs, NEW asked, NEW p \in BOOLEAN, NEW x, NEW a,
         Register(j, asked, p, x, a)
  PROVE  NrInv'
<1>1. SubsInv' /\ NamesGrow
  BY NothingGrows DEF Register, NrInv
<1>2. CASE Availability(asked) = "available" /\ x /\ nrConfig.writeEnabled /\ a
  <2>1. PICK plan : plan = BuildRegistrationPlan(asked, p)
    OBVIOUS
  <2>2. PICK r : r = [at |-> 1, asked |-> asked, plan |-> plan]
    OBVIOUS
  <2>3. nrRunning' = [nrRunning EXCEPT ![j] = r] /\ UNCHANGED nrReport
    BY <1>2, <2>1, <2>2 DEF Register
  <2>4. 1 \in 1..Len(plan)
    <3>1. Len(plan) \in 2..3
      BY <2>1, PlanIs
    <3> QED  BY <3>1
  <2>5. JobDone(r)'
    BY <2>1, <2>2, <2>4 DEF JobDone
  <2>6. ReportedIsRegistered'
    BY <1>1, <2>3, ReportStays DEF NrInv
  <2> QED  BY <1>1, <2>3, <2>5, <2>6, JobMoves
<1>3. CASE ~(Availability(asked) = "available" /\ x /\ nrConfig.writeEnabled /\ a)
  <2>1. UNCHANGED nrRunning /\ \E ok, reason : nrReport' = Report(ok, FALSE, reason, asked)
    BY <1>3, Zenon DEF Register
  <2>2. ~nrReport'.executed
    BY <2>1, NotExecuted
  <2>3. ReportedIsRegistered'
    BY <2>2 DEF ReportedIsRegistered
  <2> QED  BY <1>1, <2>1, <2>3, JobsStay
<1> QED  BY <1>2, <1>3

LEMMA StepWorksKeeps ==
  ASSUME NrInv, NEW j \in NrJobs, StepWorks(j)
  PROVE  NrInv'
<1>1. PICK r : r = nrRunning[j]
  OBVIOUS
<1>2. JobDone(r) /\ PlanStep(j)
  BY <1>1 DEF NrInv, StepWorks
<1>3. /\ SubsInv' /\ NamesGrow
      /\ r.at = 1 => Taken(r.asked)'
      /\ r.at = 2 => Tokened(r.asked)'
  BY <1>1, <1>2, PlanStepDoes DEF NrInv
<1>4. PICK at, asked, plan : at = r.at /\ asked = r.asked /\ plan = r.plan
  OBVIOUS
<1>5. PICK p \in BOOLEAN : plan = BuildRegistrationPlan(asked, p)
  BY <1>2, <1>4 DEF JobDone
<1>6. PICK len : len = Len(plan)
  OBVIOUS
<1>7. len \in 2..3 /\ at \in 1..len
  <2>1. len \in 2..3
    BY <1>5, <1>6, PlanIs
  <2>2. at \in 1..len
    BY <1>2, <1>4, <1>6 DEF JobDone
  <2> QED  BY <2>1, <2>2
<1>8. /\ at >= 2 => Taken(asked) /\ Taken(asked)'
      /\ at >= 3 => Tokened(asked)'
  BY <1>2, <1>3, <1>4, AskedStays, <1>7 DEF JobDone
<1>9. CASE at < len
  <2>1. PICK q : q = [r EXCEPT !.at = r.at + 1]
    OBVIOUS
  <2>2. nrRunning' = [nrRunning EXCEPT ![j] = q] /\ UNCHANGED nrReport
    BY <1>1, <1>4, <1>6, <1>9, <2>1 DEF StepWorks
  <2>3. r = [at |-> at, asked |-> asked, plan |-> plan]
    BY <1>2, <1>4 DEF JobDone
  <2>4. q = [at |-> at + 1, asked |-> asked, plan |-> plan]
    BY <2>1, <2>3
  <2>5. at + 1 \in 1..len /\ (at + 1 >= 2) /\ (at + 1 >= 3 => at >= 2)
    BY <1>7, <1>9
  <2>6. Taken(asked)' /\ (at + 1 >= 3 => Tokened(asked)')
    BY <1>3, <1>4, <1>7, <1>8, <1>9
  <2>7. JobDone(q)'
    BY <1>5, <1>6, <2>4, <2>5, <2>6 DEF JobDone
  <2>8. ReportedIsRegistered'
    BY <1>3, <2>2, ReportStays DEF NrInv
  <2> QED  BY <1>3, <2>2, <2>7, <2>8, JobMoves
<1>10. CASE ~(at < len)
  <2>1. /\ nrRunning' = [nrRunning EXCEPT ![j] = NotRunning]
        /\ nrReport' = Report(TRUE, TRUE, "executed", asked)
    BY <1>1, <1>4, <1>6, <1>10 DEF StepWorks
  <2>2. at >= 2 /\ (at = 2 \/ at >= 3)
    BY <1>7, <1>10
  <2>3. Taken(asked)' /\ Tokened(asked)'
    BY <1>3, <1>4, <1>8, <2>2
  <2>4. nrReport'.asked = asked
    BY <2>1 DEF Report
  <2>5. ReportedIsRegistered'
    BY <2>3, <2>4 DEF ReportedIsRegistered, Taken, Tokened
  <2> QED  BY <1>3, <2>1, <2>5, JobMoves
<1> QED  BY <1>9, <1>10

LEMMA NrNextKeeps ==
  ASSUME NrInv, NrNext \/ (NamesNext /\ UNCHANGED nrVars)
  PROVE  NrInv'
<1>1. ASSUME NEW j \in NrJobs, NEW asked, NEW p \in BOOLEAN, NEW x, NEW a,
             Register(j, asked, p, x, a)
      PROVE  NrInv'
  BY <1>1, RegisterKeeps
<1>2. ASSUME NEW j \in NrJobs, StepWorks(j) PROVE NrInv'
  BY <1>2, StepWorksKeeps
<1>3. ASSUME NEW j \in NrJobs, StepFails(j) PROVE NrInv'
  <2>1. /\ nrRunning' = [nrRunning EXCEPT ![j] = NotRunning] /\ UNCHANGED namesVars
        /\ nrReport' = Report(FALSE, TRUE, "failed", nrRunning[j].asked)
    BY <1>3 DEF StepFails
  <2>2. ~nrReport'.ok
    BY <2>1, NotExecuted
  <2>3. ReportedIsRegistered'
    BY <2>2 DEF ReportedIsRegistered
  <2>4. SubsInv' /\ NamesGrow
    BY <2>1, NothingGrows DEF NrInv
  <2> QED  BY <2>1, <2>3, <2>4, JobMoves
<1>4. CASE (NamesCli \/ NamesNext) /\ UNCHANGED nrVars
  <2>1. SubsInv' /\ NamesGrow
    BY <1>4, NamesNextCalls, NamesCliCalls, NamesCallGrows DEF NrInv
  <2>2. ReportedIsRegistered' /\ UNCHANGED nrRunning
    BY <1>4, <2>1, ReportStays DEF NrInv, nrVars
  <2> QED  BY <2>1, <2>2, JobsStay
<1> QED  BY <1>1, <1>2, <1>3, <1>4 DEF NrNext

\* executeRegistrationPlan: a registration that is reported as executed has made
\* the name and its token, whatever other wallets and other requests did between
\* its commands, and wherever an earlier request for the name had stopped.
THEOREM RegistrationsAreMade == NrSpec => []ReportedIsRegistered
<1>1. NamesInit /\ NrInit => NrInv
  BY DEF NamesInit, NrInit, NoAccounts, NoReport, NrInv, SubsInv, ReportedIsRegistered
<1>2. NrInv
      /\ [\/ (NrNext \/ (NamesNext /\ UNCHANGED nrVars)) /\ UNCHANGED slot
          \/ NewSlot /\ UNCHANGED <<namesVars, nrVars>>]_<<slot, namesVars, nrVars>>
      => NrInv'
  <2>1. ASSUME NrInv, UNCHANGED <<namesVars, nrVars>> PROVE NrInv'
    <3>1. SubsInv' /\ NamesGrow
      BY <2>1, NothingGrows DEF NrInv
    <3>2. ReportedIsRegistered' /\ UNCHANGED nrRunning
      BY <2>1, <3>1, ReportStays DEF NrInv, nrVars
    <3> QED  BY <2>1, <3>1, <3>2, JobsStay
  <2> QED  BY <2>1, NrNextKeeps
<1>3. NrInv => ReportedIsRegistered
  BY DEF NrInv
<1> QED  BY <1>1, <1>2, <1>3, PTL DEF NrSpec

-----------------------------------------------------------------------------
(***************************************************************************)
(* The commands and the service are clients: whatever they do on the chain *)
(* is an instruction of the names program for names there can be, so what  *)
(* is proved of the program holds with them.                               *)
(***************************************************************************)

JobsAsked ==
  DOMAIN nrRunning = NrJobs /\ \A j \in NrJobs : nrRunning[j] = NotRunning \/ nrRunning[j].asked \in NrAsked

LEMMA PrimaryIsName ==
  ASSUME NEW asked \in NrAsked
  PROVE  PrimaryMeant(asked) \in PremiumNames \cup Subs
<1>1. CASE asked.mode = "premium"
  BY <1>1, NrAssumption DEF PrimaryMeant
<1>2. CASE asked.mode # "premium"
  <2>1. asked.label \in Labels
    BY <1>2, NrAssumption
  <2>2. PrimaryMeant(asked) = <<Zone, asked.label>>
    BY <1>2 DEF PrimaryMeant
  <2> QED  BY <2>1, <2>2 DEF Subs
<1> QED  BY <1>1, <1>2

\* The instructions that the commands send, for names there can be.
LEMMA SentByClients ==
  ASSUME NEW k \in Keys
  PROVE  /\ \A n \in PremiumNames :
              PurchasePremium(n, k) \/ IssuePremiumNft(n, k) => NamesNext
         /\ \A l \in Labels : ClaimSubdomain(k, l) => NamesNext
         /\ \A s \in Subs : IssueSubdomainNft(s, k) => NamesNext
         /\ \A name \in PremiumNames \cup Subs : SetPrimaryName(k, name) => NamesNext
BY DEF NamesNext, NamesSteps, Subs

LEMMA CliIsNames == ASSUME NamesCli PROVE NamesNext
<1>1. ASSUME NEW s \in BOOLEAN, NEW p \in BOOLEAN, CliInitConfig(s, p) PROVE NamesNext
  BY <1>1 DEF CliInitConfig, NamesNext, NamesSteps
<1>2. ASSUME NEW k \in Keys, CliInitPremiumConfig(k) PROVE NamesNext
  BY <1>2 DEF CliInitPremiumConfig, NamesNext, NamesSteps
<1>3. ASSUME NEW k \in Keys, NEW n \in PremiumNames, CliBuyPremium(k, n) \/ CliIssuePremiumNft(k, n)
      PROVE  NamesNext
  BY <1>3, SentByClients DEF CliBuyPremium, CliIssuePremiumNft
<1>4. ASSUME NEW k \in Keys, NEW n \in PremiumNames,
             CliSyncPremiumOwner(n, k) \/ CliWithdrawLosingBid(k, n) \/ CliSettleAuction(k, n)
      PROVE  NamesNext
  BY <1>4 DEF CliSyncPremiumOwner, CliWithdrawLosingBid, CliSettleAuction, NamesNext, NamesSteps
<1>5. ASSUME NEW k \in Keys, NEW n \in PremiumNames, NEW m \in DOMAIN tokens,
             CliBindPremiumNft(k, n, m)
      PROVE  NamesNext
  BY <1>5 DEF CliBindPremiumNft, NamesNext, NamesSteps
<1>6. ASSUME NEW k \in Keys, NEW n \in PremiumNames, NEW d \in AuctionSlots, CliCreateAuction(k, n, d)
      PROVE  NamesNext
  BY <1>6 DEF CliCreateAuction, NamesNext, NamesSteps
<1>7. ASSUME NEW k \in Keys, NEW n \in PremiumNames, NEW b \in Bids, CliBid(k, n, b)
      PROVE  NamesNext
  BY <1>7 DEF CliBid, NamesNext, NamesSteps
<1>8. ASSUME NEW k \in Keys, NEW l \in Labels, NEW p \in PremiumNames \cup {Zone},
             CliClaimSub(k, l, p) \/ CliIssueSubNft(k, l, p)
      PROVE  NamesNext
  <2>1. <<p, l>> \in Subs
    BY DEF Subs
  <2> QED  BY <1>8, <2>1, SentByClients DEF CliClaimSub, CliIssueSubNft
<1>9. ASSUME NEW k \in Keys, NEW asked \in NrAsked, CliSetPrimary(k, asked) PROVE NamesNext
  BY <1>9, PrimaryIsName, SentByClients DEF CliSetPrimary
<1> QED  BY <1>1, <1>2, <1>3, <1>4, <1>5, <1>6, <1>7, <1>8, <1>9 DEF NamesCli

LEMMA PlanIsNames ==
  ASSUME NrInv, JobsAsked, NEW j \in NrJobs, StepWorks(j)
  PROVE  NamesNext
<1>1. PICK r : r = nrRunning[j]
  OBVIOUS
<1>2. r # NotRunning /\ JobDone(r) /\ PlanStep(j)
  BY <1>1 DEF NrInv, StepWorks
<1>3. PICK asked, plan : asked = r.asked /\ plan = r.plan
  OBVIOUS
<1>4. asked \in NrAsked
  BY <1>1, <1>2, <1>3 DEF JobsAsked
<1>5. PICK command : command = plan[r.at]
  OBVIOUS
<1>6. /\ command = "buy-premium"       => CliBuyPremium(NrWallet, asked.name)
      /\ command = "issue-premium-nft" => CliIssuePremiumNft(NrWallet, asked.name)
      /\ command = "claim-sub"     => CliClaimSub(NrWallet, asked.label, asked.parent)
      /\ command = "issue-sub-nft" => CliIssueSubNft(NrWallet, asked.label, asked.parent)
      /\ command = "set-primary"   => CliSetPrimary(NrWallet, asked)
  BY <1>1, <1>2, <1>3, <1>5 DEF PlanStep
<1>7. \/ command = "set-primary"
      \/ asked.mode = "premium" /\ command \in {"buy-premium", "issue-premium-nft"}
      \/ asked.mode # "premium" /\ command \in {"claim-sub", "issue-sub-nft"}
  <2>1. PICK p \in BOOLEAN : plan = BuildRegistrationPlan(asked, p)
    BY <1>2, <1>3 DEF JobDone
  <2>2. PICK at, len : at = r.at /\ len = Len(plan)
    OBVIOUS
  <2>3. len \in 2..3 /\ (len = 3 => plan[3] = "set-primary")
    BY <2>1, <2>2, PlanIs
  <2>4. at \in 1..len
    BY <1>2, <1>3, <2>2 DEF JobDone
  <2>5. \/ at = 1 \/ at = 2 \/ (at = 3 /\ len = 3)
    BY <2>3, <2>4
  <2>6. /\ plan[1] = IF asked.mode = "premium" THEN "buy-premium" ELSE "claim-sub"
        /\ plan[2] = IF asked.mode = "premium" THEN "issue-premium-nft" ELSE "issue-sub-nft"
    BY <2>1, PlanIs
  <2> QED  BY <1>5, <2>2, <2>3, <2>5, <2>6
<1>8. CASE asked.mode = "premium" /\ command \in {"buy-premium", "issue-premium-nft"}
  <2>1. asked.name \in PremiumNames /\ NrWallet \in Keys
    BY <1>4, <1>8, NrAssumption
  <2> QED  BY <1>6, <1>8, <2>1, SentByClients DEF CliBuyPremium, CliIssuePremiumNft
<1>9. CASE asked.mode # "premium" /\ command \in {"claim-sub", "issue-sub-nft"}
  <2>1. asked.label \in Labels /\ <<asked.parent, asked.label>> \in Subs /\ NrWallet \in Keys
    BY <1>4, <1>9, NrAssumption DEF Subs
  <2> QED  BY <1>6, <1>9, <2>1, SentByClients DEF CliClaimSub, CliIssueSubNft
<1>10. CASE command = "set-primary"
  BY <1>4, <1>6, <1>10, PrimaryIsName, SentByClients, NrAssumption DEF CliSetPrimary
<1> QED  BY <1>7, <1>8, <1>9, <1>10

LEMMA JobsKeepNames ==
  ASSUME NrInv, JobsAsked, NrNext \/ (NamesNext /\ UNCHANGED nrVars)
  PROVE  JobsAsked' /\ (NamesNext \/ UNCHANGED namesVars)
<1>1. ASSUME NEW j \in NrJobs, NEW asked \in NrAsked, NEW p, NEW x, NEW a,
             Register(j, asked, p, x, a)
      PROVE  JobsAsked' /\ UNCHANGED namesVars
  <2>1. UNCHANGED namesVars
    BY <1>1 DEF Register
  <2>2. PICK r : r = [at |-> 1, asked |-> asked, plan |-> BuildRegistrationPlan(asked, p)]
    OBVIOUS
  <2>3. nrRunning' = [nrRunning EXCEPT ![j] = r] \/ UNCHANGED nrRunning
    BY <1>1, <2>2, Zenon DEF Register
  <2>4. r.asked \in NrAsked
    BY <2>2
  <2> QED  BY <2>1, <2>3, <2>4 DEF JobsAsked
<1>2. ASSUME NEW j \in NrJobs, StepWorks(j) PROVE JobsAsked' /\ NamesNext
  <2>1. NamesNext
    BY <1>2, PlanIsNames
  <2>2. PICK r, q : r = nrRunning[j] /\ q = [r EXCEPT !.at = r.at + 1]
    OBVIOUS
  <2>3. nrRunning' = [nrRunning EXCEPT ![j] = q] \/ nrRunning' = [nrRunning EXCEPT ![j] = NotRunning]
    BY <1>2, <2>2 DEF StepWorks
  <2>4. r.asked \in NrAsked /\ JobDone(r)
    BY <1>2, <2>2 DEF JobsAsked, NrInv, StepWorks
  <2>5. q.asked = r.asked
    BY <2>2, <2>4 DEF JobDone
  <2> QED  BY <2>1, <2>3, <2>4, <2>5 DEF JobsAsked
<1>3. ASSUME NEW j \in NrJobs, StepFails(j) PROVE JobsAsked' /\ UNCHANGED namesVars
  BY <1>3 DEF StepFails, JobsAsked
<1>4. CASE (NamesCli \/ NamesNext) /\ UNCHANGED nrVars
  BY <1>4, CliIsNames DEF nrVars, JobsAsked
<1> QED  BY <1>1, <1>2, <1>3, <1>4 DEF NrNext

\* The commands of names.ts and the registration service do nothing on the chain
\* but send instructions of the names program, one at a time.
THEOREM ClientsOfNames == NrSpec => NamesSpec
<1>1. NamesInit /\ NrInit => NrInv /\ JobsAsked
  BY DEF NamesInit, NrInit, NoAccounts, NoReport, NrInv, SubsInv, ReportedIsRegistered, JobsAsked
<1>2. NrInv /\ JobsAsked
      /\ [\/ (NrNext \/ (NamesNext /\ UNCHANGED nrVars)) /\ UNCHANGED slot
          \/ NewSlot /\ UNCHANGED <<namesVars, nrVars>>]_<<slot, namesVars, nrVars>>
      => /\ NrInv' /\ JobsAsked'
         /\ [\/ NamesNext /\ UNCHANGED slot
             \/ NewSlot /\ UNCHANGED namesVars]_<<slot, namesVars>>
  <2>1. ASSUME NrInv, JobsAsked, UNCHANGED <<namesVars, nrVars>> PROVE NrInv' /\ JobsAsked'
    <3>1. SubsInv' /\ NamesGrow
      BY <2>1, NothingGrows DEF NrInv
    <3>2. ReportedIsRegistered' /\ UNCHANGED nrRunning
      BY <2>1, <3>1, ReportStays DEF NrInv, nrVars
    <3> QED  BY <2>1, <3>1, <3>2, JobsStay DEF JobsAsked
  <2> QED  BY <2>1, NrNextKeeps, JobsKeepNames
<1> QED  BY <1>1, <1>2, PTL DEF NrSpec, NamesSpec

-----------------------------------------------------------------------------
(***************************************************************************)
(* Types: what the accounts of routes, names and watchdogs hold.           *)
(***************************************************************************)

\* The version of a route starts at 1 and is counted up to the bound.
LEMMA VersionCounted ==
  ASSUME RouteTypeOK, NEW k, NEW n \in RouteNames, NEW d, NEW t, NEW a,
         FinalizeRoute(k, n, d, t, a)
  PROVE  /\ DOMAIN canonicalRoutes' \subseteq RouteNames
         /\ DOMAIN canonicalRoutes' = DOMAIN canonicalRoutes \cup {n}
         /\ \A m \in DOMAIN canonicalRoutes' :
              canonicalRoutes'[m].version \in 1..RouteMaxVersion
<1> DEFINE v == IF Vacant(canonicalRoutes, n) THEN 1
                ELSE LET r == canonicalRoutes[n]
                     IN IF r.dest = d /\ r.ttl = t THEN r.version ELSE r.version + 1
<1>1. PICK r : r = [dest |-> d, ttl |-> t, version |-> v, updatedAt |-> slot, aggregate |-> a]
  OBVIOUS
<1>2. canonicalRoutes' = Created(canonicalRoutes, n, r) /\ v <= RouteMaxVersion
  BY <1>1 DEF FinalizeRoute
<1>3. r.version = v
  BY <1>1
<1>4. v \in 1..RouteMaxVersion
  <2>1. CASE Vacant(canonicalRoutes, n)
    BY <1>2, <2>1, RouteAssumption
  <2>2. CASE ~Vacant(canonicalRoutes, n)
    <3>1. canonicalRoutes[n].version \in 1..RouteMaxVersion
      BY <2>2 DEF RouteTypeOK, Vacant
    <3> QED  BY <1>2, <2>2, <3>1, RouteAssumption
  <2> QED  BY <2>1, <2>2
<1> HIDE DEF v
<1>5. /\ DOMAIN canonicalRoutes' = DOMAIN canonicalRoutes \cup {n}
      /\ canonicalRoutes'[n] = r
      /\ \A m \in DOMAIN canonicalRoutes : m # n => canonicalRoutes'[m] = canonicalRoutes[m]
  BY <1>2 DEF Created
<1> QED  BY <1>3, <1>4, <1>5 DEF RouteTypeOK

LEMMA RouteNext_Type ==
  ASSUME RouteTypeOK, RouteNext
  PROVE  RouteTypeOK'
<1>0. ASSUME UNCHANGED <<canonicalRoutes, verifierSets, aggregates, counted, walletRoutes>>
      PROVE  RouteTypeOK'
  BY <1>0 DEF RouteTypeOK
<1>1. ASSUME NEW k, NEW c, RegistryInitConfig(k, c) \/ RegistryUpdateConfig(k, c)
      PROVE  RouteTypeOK'
  BY <1>0, <1>1 DEF RegistryInitConfig, RegistryUpdateConfig
<1>2. ASSUME NEW k, NEW n \in RouteNames, NEW d, NEW t, NEW ref, FinalizeDirectly(k, n, d, t, ref)
      PROVE  RouteTypeOK'
  <2>1. /\ FinalizeRoute(k, n, d, t, ref) /\ UNCHANGED <<verifierSets, aggregates, counted>>
        /\ walletRoutes' = walletRoutes \cup {n}
    BY <1>2 DEF FinalizeDirectly
  <2> QED  BY <2>1, VersionCounted DEF RouteTypeOK
<1>3. CASE InitQuorumAuthority
  BY <1>0, <1>3 DEF InitQuorumAuthority
<1>4. ASSUME NEW k, NEW e \in RouteEpochs, NEW w, NEW m,
             InitVerifierSet(k, e, w, m) \/ UpdateVerifierSet(k, e, w, m)
      PROVE  RouteTypeOK'
  <2>1. CASE InitVerifierSet(k, e, w, m)
    <3>1. PICK x : /\ verifierSets' = Created(verifierSets, e, x)
                   /\ UNCHANGED <<canonicalRoutes, aggregates, counted, walletRoutes>>
      BY <2>1 DEF InitVerifierSet
    <3>2. DOMAIN verifierSets' = DOMAIN verifierSets \cup {e}
      BY <3>1, CreatedGrows
    <3> QED  BY <3>1, <3>2 DEF RouteTypeOK
  <2>2. CASE UpdateVerifierSet(k, e, w, m)
    BY <2>2 DEF UpdateVerifierSet, RouteTypeOK
  <2> QED  BY <1>4, <2>1, <2>2
<1>5. ASSUME NEW k, NEW e, SubmitStakeSnapshot(k, e) PROVE RouteTypeOK'
  BY <1>0, <1>5 DEF SubmitStakeSnapshot
<1>6. ASSUME NEW k \in Keys, NEW e \in RouteEpochs, NEW n \in RouteNames, NEW d, NEW t,
             NEW r, NEW w, SubmitAggregate(k, e, n, d, t, r, w)
      PROVE  RouteTypeOK'
  <2>1. PICK x : /\ aggregates' = Created(aggregates, <<e, n, k>>, x)
                 /\ UNCHANGED <<canonicalRoutes, verifierSets, counted, walletRoutes>>
    BY <1>6 DEF SubmitAggregate
  <2>2. DOMAIN aggregates' = DOMAIN aggregates \cup {<<e, n, k>>}
    BY <2>1, CreatedGrows
  <2> QED  BY <2>1, <2>2 DEF RouteTypeOK
<1>7. ASSUME NEW a \in DOMAIN aggregates, NEW d, NEW t, FinalizeIfQuorum(a[3], a[1], a[2], d, t)
      PROVE  RouteTypeOK'
  <2>1. a[2] \in RouteNames
    BY DEF RouteTypeOK
  <2>2. /\ \E k, x : FinalizeRoute(k, a[2], d, t, x)
        /\ UNCHANGED <<verifierSets, aggregates>>
        /\ \E x : counted' = Created(counted, a[2], x)
        /\ walletRoutes' = walletRoutes \ {a[2]}
    BY <1>7 DEF FinalizeIfQuorum
  <2>3. DOMAIN counted' = DOMAIN counted \cup {a[2]}
    BY <2>2, CountedIs
  <2> QED  BY <2>1, <2>2, <2>3, VersionCounted DEF RouteTypeOK
<1> QED  BY <1>1, <1>2, <1>3, <1>4, <1>5, <1>6, <1>7 DEF RouteNext

LEMMA RouteTypes == RouteSpec => []RouteTypeOK
<1>1. RouteInit => RouteTypeOK
  BY DEF RouteInit, NoAccounts, RouteTypeOK
<1>2. RouteTypeOK
      /\ [(RouteNext /\ UNCHANGED slot) \/ (NewSlot /\ UNCHANGED routeVars)]_<<slot, routeVars>>
      => RouteTypeOK'
  BY RouteNext_Type DEF RouteTypeOK, routeVars
<1> QED  BY <1>1, <1>2, PTL DEF RouteSpec

-----------------------------------------------------------------------------
\* Every epoch of a mark is one the clock has reached.
LEMMA EpochReached ==
  ASSUME NEW s \in Nat, NEW len \in Nat, len > 0
  PROVE  s \div len \in 0..s
<1>1. s \div len \in Nat /\ s \div 1 = s
  OBVIOUS
<1> DEFINE q == s \div len
<1>2. len * q <= s
  OBVIOUS
<1> HIDE DEF q
<1>3. q \in Nat /\ q <= len * q
  <2>1. PICK l \in Nat : len = l + 1
    <3>1. len - 1 \in Nat /\ len = (len - 1) + 1
      OBVIOUS
    <3> QED  BY <3>1
  <2>2. q \in Nat
    BY <1>1 DEF q
  <2>3. l * q \in Nat /\ len * q = l * q + q
    BY <2>1, <2>2
  <2> QED  BY <2>2, <2>3
<1>4. q <= s
  BY <1>2, <1>3
<1> QED  BY <1>3, <1>4 DEF q

WdTyped == SlotType /\ WdInv /\ WdTypeOK

LEMMA ReportTyped ==
  ASSUME WdTyped, NEW k, NEW w \in Keys, NEW e, NEW n \in WdNames, NEW v, NEW f,
         SubmitAttestationDigest(k, w, e, n, v, f), WdInv'
  PROVE  WdTypeOK'
<1>1. e \in 0..MaxSlot
  <2>1. wdConfig # None /\ e = WdEpoch
    BY DEF SubmitAttestationDigest
  <2>2. wdConfig.epochLen \in Nat /\ wdConfig.epochLen > 0 /\ slot \in Nat /\ slot <= MaxSlot
    BY <2>1, ChainAssumption DEF WdTyped, WdInv, WdConfigType, SlotType
  <2>3. e \in 0..slot
    BY <2>1, <2>2, EpochReached DEF WdEpoch, EpochOf
  <2> QED  BY <2>2, <2>3, ChainAssumption
<1>2. PICK x : wdPolicy' = Created(wdPolicy, n, x)
  BY DEF SubmitAttestationDigest
<1>3. DOMAIN wdPolicy' = DOMAIN wdPolicy \cup {n}
  BY <1>2, CreatedGrows
<1>4. wdState' = Created(wdState, w, TRUE) /\ wdMarks' = wdMarks \cup {<<e, n, w>>}
  BY DEF SubmitAttestationDigest
<1>5. DOMAIN wdState' = DOMAIN wdState \cup {w}
  BY <1>4, CreatedGrows
<1>6. \A m \in DOMAIN wdPolicy' : wdPolicy'[m].status \in {"ok", "warn", "quarantine"}
  BY DEF WdInv, IsPolicy
<1>7. wdMarks \subseteq (0..MaxSlot) \X WdNames \X Keys /\ DOMAIN wdPolicy \subseteq WdNames
      /\ DOMAIN wdState \subseteq Keys
  BY DEF WdTyped, WdTypeOK
<1>8. <<e, n, w>> \in (0..MaxSlot) \X WdNames \X Keys
  BY <1>1
<1>9. wdMarks' \subseteq (0..MaxSlot) \X WdNames \X Keys
  BY <1>4, <1>7, <1>8
<1>10. DOMAIN wdPolicy' \subseteq WdNames /\ DOMAIN wdState' \subseteq Keys
  BY <1>3, <1>5, <1>7
<1> QED  BY <1>6, <1>9, <1>10 DEF WdTypeOK

LEMMA WdNext_Type ==
  ASSUME WdTyped, WdNext, WdInv'
  PROVE  WdTypeOK'
<1>0. ASSUME UNCHANGED <<wdPolicy, wdState, wdMarks>> PROVE WdTypeOK'
  BY <1>0 DEF WdTyped, WdTypeOK
<1>1. ASSUME NEW k, NEW c, WdInitConfig(k, c) \/ CliWdInitConfig(k, c) PROVE WdTypeOK'
  BY <1>0, <1>1 DEF WdInitConfig, CliWdInitConfig
<1>2. ASSUME NEW k, NEW w \in Keys, NEW a, NEW b,
             SetWatchdogEnabled(k, w, a, b) \/ CliWdEnable(k, w, b)
      PROVE  WdTypeOK'
  <2>1. wdState' = Created(wdState, w, b) /\ UNCHANGED <<wdPolicy, wdMarks>>
    BY <1>2 DEF SetWatchdogEnabled, CliWdEnable
  <2>2. DOMAIN wdState' = DOMAIN wdState \cup {w}
    BY <2>1, CreatedGrows
  <2> QED  BY <2>1, <2>2 DEF WdTyped, WdTypeOK
<1>3. ASSUME NEW k, NEW x, UpdateThresholds(k, x) \/ SetAllowlists(k, x) PROVE WdTypeOK'
  BY <1>0, <1>3 DEF UpdateThresholds, SetAllowlists
<1>4. ASSUME NEW k, NEW w \in Keys, NEW e, NEW n \in WdNames, NEW v, NEW f,
             SubmitAttestationDigest(k, w, e, n, v, f) \/ CliWdSubmitDigest(k, w, n, v, f)
      PROVE  WdTypeOK'
  <2>1. \E d : SubmitAttestationDigest(k, w, d, n, v, f)
    BY <1>4 DEF CliWdSubmitDigest
  <2> QED  BY <2>1, ReportTyped
<1> QED  BY <1>1, <1>2, <1>3, <1>4 DEF WdNext, WdCli

LEMMA WdTypes == WdSpec => []WdTypeOK
<1>1. ChainInit /\ WdInit => WdTyped
  BY FS_EmptySet, ChainAssumption
  DEF ChainInit, WdInit, NoAccounts, WdInv, SlotType, WdTypeOK, WdTyped
<1>2. WdTyped
      /\ [\/ WdNext /\ UNCHANGED slot
          \/ NewSlot /\ UNCHANGED wdVars]_<<slot, wdVars>>
      => WdTyped'
  <2>1. ASSUME WdTyped, NewSlot \/ UNCHANGED slot, UNCHANGED wdVars PROVE WdTyped'
    <3>1. slot' \in Nat /\ slot <= slot'
      BY <2>1 DEF WdTyped, WdInv, NewSlot
    <3>2. WdInv'
      BY <2>1, <3>1, EpochsKeepCounts DEF WdTyped, wdVars
    <3>3. SlotType'
      BY <2>1, <3>1, ChainAssumption DEF WdTyped, SlotType, NewSlot
    <3> QED  BY <2>1, <3>2, <3>3 DEF WdTyped, WdTypeOK, wdVars
  <2>2. ASSUME WdTyped, WdNext, UNCHANGED slot PROVE WdTyped'
    <3>1. WdInv'
      BY <2>2, WdNext_Inv DEF WdTyped
    <3>2. WdTypeOK'
      BY <2>2, <3>1, WdNext_Type
    <3> QED  BY <2>2, <3>1, <3>2 DEF WdTyped, SlotType
  <2> QED  BY <2>1, <2>2
<1>3. WdTyped => WdTypeOK
  BY DEF WdTyped
<1> QED  BY <1>1, <1>2, <1>3, PTL DEF WdSpec

-----------------------------------------------------------------------------
\* The types of names, part by part.  An escrow vault is never overdrawn, since
\* the amount of the bid that is withdrawn stays within what the guard allows.
TokensHeld == \A m \in DOMAIN tokens : tokens[m] \subseteq Keys
PremiumTyped ==
  /\ DOMAIN premium \subseteq PremiumNames
  /\ \A n \in DOMAIN premium :
       premium[n] \in [owner: Keys, nftMint: DOMAIN tokens \cup {None}, nftBound: BOOLEAN]
VaultsTyped == bidVaults \in [PremiumNames \X Keys -> Nat]
SubsTyped == DOMAIN subNames \subseteq Subs
NamesTyped == TokensHeld /\ PremiumTyped /\ VaultsTyped /\ SubsTyped

LEMMA TokenTransferred ==
  ASSUME TokensHeld, NEW m, NEW k, NEW to \in Keys, TransferToken(m, k, to)
  PROVE  TokensHeld' /\ DOMAIN tokens' = DOMAIN tokens
<1>1. tokens' = [tokens EXCEPT ![m] = (@ \ {k}) \cup {to}]
  BY DEF TransferToken
<1>2. DOMAIN tokens' = DOMAIN tokens
  BY <1>1
<1>3. ASSUME NEW x \in DOMAIN tokens' PROVE tokens'[x] \subseteq Keys
  BY <1>1, <1>3 DEF TokensHeld
<1> QED  BY <1>2, <1>3 DEF TokensHeld

LEMMA TokenMade ==
  ASSUME TokensHeld, NEW m, NEW S \in SUBSET Keys, tokens' = Created(tokens, m, S)
  PROVE  TokensHeld' /\ DOMAIN tokens' = DOMAIN tokens \cup {m}
BY DEF TokensHeld, Created

\* A name that is made or written is of its type, if its fields are.
LEMMA PremiumWritten ==
  ASSUME PremiumTyped, NEW n \in PremiumNames, NEW k \in Keys, NEW b \in BOOLEAN, NEW m,
         m = None \/ m \in DOMAIN tokens', DOMAIN tokens \subseteq DOMAIN tokens',
         WithAccount(premium', premium, n, PremiumName(k, m, b))
  PROVE  PremiumTyped'
<1>1. PICK r : r = PremiumName(k, m, b)
  OBVIOUS
<1>2. r \in [owner: Keys, nftMint: DOMAIN tokens' \cup {None}, nftBound: BOOLEAN]
  BY <1>1 DEF PremiumName
<1>3. /\ DOMAIN premium' = DOMAIN premium \cup {n} /\ premium'[n] = r
      /\ \A x \in DOMAIN premium : x # n => premium'[x] = premium[x]
  BY <1>1 DEF WithAccount
<1>4. ASSUME NEW x \in DOMAIN premium, x # n
      PROVE  premium'[x] \in [owner: Keys, nftMint: DOMAIN tokens' \cup {None}, nftBound: BOOLEAN]
  <2>1. premium[x] \in [owner: Keys, nftMint: DOMAIN tokens \cup {None}, nftBound: BOOLEAN]
    BY DEF PremiumTyped
  <2> QED  BY <1>3, <1>4, <2>1
<1> QED  BY <1>2, <1>3, <1>4 DEF PremiumTyped

\* One that only its owner changes keeps its other fields.
LEMMA OwnerTyped ==
  ASSUME PremiumTyped, NEW n \in DOMAIN premium, NEW to \in Keys,
         premium' = [premium EXCEPT ![n].owner = to], UNCHANGED tokens
  PROVE  PremiumTyped'
<1>1. premium[n] \in [owner: Keys, nftMint: DOMAIN tokens \cup {None}, nftBound: BOOLEAN]
  BY DEF PremiumTyped
<1>2. PICK r : r = [premium[n] EXCEPT !.owner = to]
  OBVIOUS
<1>3. r \in [owner: Keys, nftMint: DOMAIN tokens \cup {None}, nftBound: BOOLEAN]
  BY <1>1, <1>2
<1>4. premium' = [premium EXCEPT ![n] = r]
  BY <1>2
<1> QED  BY <1>3, <1>4 DEF PremiumTyped

LEMMA VaultFunded ==
  ASSUME VaultsTyped, NEW n \in PremiumNames, NEW k \in Keys, NEW b \in Nat, Funded(n, k, b)
  PROVE  VaultsTyped'
<1>1. PICK x : x = b + (IF bidVaults[<<n, k>>] = 0 THEN VaultRent ELSE bidVaults[<<n, k>>])
  OBVIOUS
<1>2. x \in Nat
  BY <1>1, NamesAssumption DEF VaultsTyped
<1>3. bidVaults' = [bidVaults EXCEPT ![<<n, k>>] = x]
  BY <1>1 DEF Funded, VaultsTyped
<1> QED  BY <1>2, <1>3 DEF VaultsTyped

LEMMA VaultWithdrawn ==
  ASSUME VaultsTyped, BidsInv, NEW n \in PremiumNames, NEW k \in Keys, WithdrawLosingBid(n, k)
  PROVE  VaultsTyped'
<1>1. PICK x : x = bidVaults[<<n, k>>] - EscrowAmount(n, k)
  OBVIOUS
<1>2. /\ x = 0 \/ x >= VaultRent
      /\ bidVaults' = [bidVaults EXCEPT ![<<n, k>>] = x]
  BY <1>1 DEF WithdrawLosingBid
<1>3. x \in Nat
  BY <1>1, <1>2, AmountIsNat, NamesAssumption DEF VaultsTyped
<1> QED  BY <1>2, <1>3 DEF VaultsTyped

LEMMA NamesNext_Type ==
  ASSUME NamesTyped, BidsInv, NamesNext
  PROVE  NamesTyped'
<1> USE DEF NamesTyped
<1>0. ASSUME UNCHANGED <<premium, subNames, bidVaults, tokens>> PROVE NamesTyped'
  BY <1>0 DEF TokensHeld, PremiumTyped, VaultsTyped, SubsTyped
<1>1. ASSUME NEW s, NEW p, InitNamesConfig(s, p) PROVE NamesTyped'
  BY <1>0, <1>1 DEF InitNamesConfig, premiumVars, auctionVars
<1>2. ASSUME NEW k, InitPremiumConfig(k) PROVE NamesTyped'
  BY <1>0, <1>2 DEF InitPremiumConfig, premiumVars, auctionVars
<1>3. ASSUME NEW n \in PremiumNames, NEW k \in Keys,
             PurchasePremium(n, k) \/ SettleAuction(n, k)
      PROVE  NamesTyped'
  <2>1. /\ premium' = Created(premium, n, PremiumName(k, None, FALSE))
        /\ UNCHANGED <<subNames, bidVaults, tokens>>
    BY <1>3 DEF PurchasePremium, SettleAuction, NewPremium, auctionVars
  <2>2. WithAccount(premium', premium, n, PremiumName(k, None, FALSE))
    BY <2>1, CreatedWrites
  <2>3. PremiumTyped'
    BY <2>1, <2>2, PremiumWritten
  <2> QED  BY <2>1, <2>3 DEF TokensHeld, VaultsTyped, SubsTyped
<1>4. ASSUME NEW n \in PremiumNames, NEW k \in Keys, IssuePremiumNft(n, k) PROVE NamesTyped'
  <2>1. /\ n \in DOMAIN premium /\ tokens' = Created(tokens, NameMint(n), {k})
        /\ premium' = [premium EXCEPT ![n] = PremiumName(k, NameMint(n), TRUE)]
        /\ UNCHANGED <<subNames, bidVaults>>
    BY <1>4 DEF IssuePremiumNft, Exists, auctionVars
  <2>2. WithAccount(premium', premium, n, PremiumName(k, NameMint(n), TRUE))
    BY <2>1, UpdateWrites
  <2>3. TokensHeld' /\ DOMAIN tokens' = DOMAIN tokens \cup {NameMint(n)}
    <3>1. PICK S \in SUBSET Keys : S = {k}
      OBVIOUS
    <3>2. tokens' = Created(tokens, NameMint(n), S)
      BY <2>1, <3>1
    <3> QED  BY <3>2, TokenMade
  <2>4. NameMint(n) \in DOMAIN tokens' /\ DOMAIN tokens \subseteq DOMAIN tokens'
    BY <2>3
  <2>5. PremiumTyped
    OBVIOUS
  <2>6. PremiumTyped'
    BY <2>2, <2>4, <2>5, PremiumWritten
  <2> QED  BY <2>1, <2>3, <2>6 DEF VaultsTyped, SubsTyped
<1>5. ASSUME NEW n \in PremiumNames, NEW k \in Keys, NEW m \in DOMAIN tokens,
             BindPremiumNft(n, k, m)
      PROVE  NamesTyped'
  <2>1. /\ n \in DOMAIN premium /\ UNCHANGED <<subNames, bidVaults, tokens>>
        /\ premium' = [premium EXCEPT ![n] = PremiumName(k, m, TRUE)]
    BY <1>5 DEF BindPremiumNft, PremiumOwnerSigns, Exists, auctionVars
  <2>2. WithAccount(premium', premium, n, PremiumName(k, m, TRUE))
    BY <2>1, UpdateWrites
  <2>3. PremiumTyped'
    BY <2>1, <2>2, PremiumWritten
  <2> QED  BY <2>1, <2>3 DEF TokensHeld, VaultsTyped, SubsTyped
<1>6. ASSUME NEW n, NEW k, NEW to \in Keys,
             TransferPremium(n, k, to) \/ SyncPremiumOwnerFromNft(n, to)
      PROVE  NamesTyped'
  <2>1. /\ n \in DOMAIN premium /\ UNCHANGED <<subNames, bidVaults, tokens>>
        /\ premium' = [premium EXCEPT ![n].owner = to]
    BY <1>6 DEF TransferPremium, SyncPremiumOwnerFromNft, SyncAccounts, PremiumOwnerSigns,
       Exists, auctionVars
  <2>2. PremiumTyped'
    BY <2>1, OwnerTyped
  <2> QED  BY <2>1, <2>2 DEF TokensHeld, VaultsTyped, SubsTyped
<1>7. ASSUME NEW n \in PremiumNames, NEW k \in Keys, WithdrawLosingBid(n, k)
      PROVE  NamesTyped'
  <2>1. UNCHANGED <<premium, subNames, tokens>>
    BY <1>7 DEF WithdrawLosingBid, premiumVars
  <2>2. VaultsTyped'
    BY <1>7, VaultWithdrawn
  <2> QED  BY <2>1, <2>2 DEF TokensHeld, PremiumTyped, SubsTyped
<1>8. ASSUME NEW n, NEW k, NEW d, CreateAuction(k, n, d) PROVE NamesTyped'
  BY <1>0, <1>8 DEF CreateAuction, premiumVars
<1>9. ASSUME NEW n \in PremiumNames, NEW k \in Keys, NEW b \in Bids, PlaceBid(n, k, b)
      PROVE  NamesTyped'
  <2>1. UNCHANGED <<premium, subNames, tokens>> /\ Funded(n, k, b)
    BY <1>9 DEF PlaceBid, premiumVars
  <2>2. VaultsTyped'
    BY <2>1, VaultFunded, NamesAssumption
  <2> QED  BY <2>1, <2>2 DEF TokensHeld, PremiumTyped, SubsTyped
<1>10. ASSUME NEW n, NEW k, NEW e, SetParentSubdomainPolicy(n, k, e) PROVE NamesTyped'
  BY <1>0, <1>10 DEF SetParentSubdomainPolicy, auctionVars
<1>11. ASSUME NEW m, NEW k, NEW to \in Keys, TransferToken(m, k, to) PROVE NamesTyped'
  <2>1. UNCHANGED <<premium, subNames, bidVaults>>
    BY <1>11 DEF TransferToken, premiumVars, auctionVars
  <2>2. TokensHeld' /\ DOMAIN tokens' = DOMAIN tokens
    BY <1>11, TokenTransferred
  <2> QED  BY <2>1, <2>2 DEF PremiumTyped, VaultsTyped, SubsTyped
<1>12. ASSUME NEW p \in PremiumNames \cup {Zone}, NEW l \in Labels, NEW x,
              subNames' = Created(subNames, <<p, l>>, x), UNCHANGED <<premium, bidVaults, tokens>>
       PROVE  NamesTyped'
  <2>1. DOMAIN subNames' = DOMAIN subNames \cup {<<p, l>>}
    BY <1>12, CreatedGrows
  <2> QED  BY <1>12, <2>1 DEF TokensHeld, PremiumTyped, VaultsTyped, SubsTyped, Subs
<1>13. ASSUME NEW n \in PremiumNames, NEW l \in Labels, NEW k, NEW to,
              ClaimDelegatedSubdomain(n, l, k, to)
       PROVE  NamesTyped'
  BY <1>12, <1>13 DEF ClaimDelegatedSubdomain, auctionVars
<1>14. ASSUME NEW k, NEW l \in Labels, ClaimSubdomain(k, l) PROVE NamesTyped'
  BY <1>12, <1>14 DEF ClaimSubdomain, premiumVars, auctionVars
<1>15. ASSUME NEW s, NEW k, NEW c, NEW to, TransferSubdomain(s, k, c, to) PROVE NamesTyped'
  BY <1>15 DEF TransferSubdomain, premiumVars, auctionVars, TokensHeld, PremiumTyped,
     VaultsTyped, SubsTyped
<1>16. ASSUME NEW s, NEW k, IssueSubdomainNft(s, k) PROVE NamesTyped'
  <2>1. /\ tokens' = Created(tokens, SubMint(s), {}) /\ UNCHANGED <<premium, bidVaults>>
        /\ DOMAIN subNames' = DOMAIN subNames
    BY <1>16 DEF IssueSubdomainNft, premiumVars, auctionVars
  <2>2. TokensHeld' /\ DOMAIN tokens' = DOMAIN tokens \cup {SubMint(s)}
    BY <2>1, TokenMade
  <2> QED  BY <2>1, <2>2 DEF PremiumTyped, VaultsTyped, SubsTyped
<1>17. ASSUME NEW k, NEW x, SetPrimaryName(k, x) PROVE NamesTyped'
  BY <1>0, <1>17 DEF SetPrimaryName, premiumVars, auctionVars
<1> QED  BY <1>1, <1>2, <1>3, <1>4, <1>5, <1>6, <1>7, <1>8, <1>9, <1>10, <1>11, <1>13,
            <1>14, <1>15, <1>16, <1>17 DEF NamesNext, NamesSteps

LEMMA NamesStart == NamesInit => NamesTyped /\ BidsInv
<1> SUFFICES ASSUME NamesInit PROVE NamesTyped /\ BidsInv  OBVIOUS
<1>1. BidsInv
  BY DEF NamesInit, NoAccounts, BidsInv, AuctionOrdered, Exists
<1>2. TokensHeld
  <2>1. ASSUME NEW m \in DOMAIN tokens PROVE tokens[m] \subseteq Keys
    <3>1. PICK f \in DOMAIN ForeignMints : m = <<"foreign", f>>
      BY <2>1 DEF NamesInit, Foreign
    <3>2. tokens[m] = ForeignMints[m[2]]
      BY <2>1 DEF NamesInit
    <3> QED  BY <3>1, <3>2, NamesAssumption
  <2> QED  BY <2>1 DEF TokensHeld
<1>3. PremiumTyped /\ VaultsTyped /\ SubsTyped
  BY DEF NamesInit, NoAccounts, PremiumTyped, VaultsTyped, SubsTyped
<1> QED  BY <1>1, <1>2, <1>3 DEF NamesTyped

LEMMA NamesWait ==
  ASSUME NamesTyped, BidsInv, UNCHANGED namesVars
  PROVE  NamesTyped' /\ BidsInv'
BY BidsFrame DEF namesVars, NamesTyped, TokensHeld, PremiumTyped, VaultsTyped, SubsTyped

LEMMA NamesTypes == NamesSpec => []NamesTypeOK
<1>1. NamesTyped /\ BidsInv
      /\ [\/ NamesNext /\ UNCHANGED slot
          \/ NewSlot /\ UNCHANGED namesVars]_<<slot, namesVars>>
      => NamesTyped' /\ BidsInv'
  BY NamesWait, NamesNext_Type, NamesNext_Bids
<1>2. NamesTyped => NamesTypeOK
  <2> SUFFICES ASSUME NamesTyped PROVE NamesTypeOK  OBVIOUS
  <2>1. \A e \in DOMAIN bidVaults : bidVaults[e] \in Nat
    BY DEF NamesTyped, VaultsTyped
  <2> QED  BY <2>1 DEF NamesTyped, TokensHeld, PremiumTyped, SubsTyped, NamesTypeOK
<1> QED  BY NamesStart, <1>1, <1>2, PTL DEF NamesSpec

-----------------------------------------------------------------------------
\* The vaults of bidders: what is added to the escrow is added to the vault,
\* and a withdrawal, which the escrow does not show, only takes from it.
VaultsInv == NamesTyped /\ BidsInv /\ BidsBacked

LEMMA BidIsBacked ==
  ASSUME VaultsInv, NEW n \in PremiumNames, NEW k \in Keys, NEW b \in Bids, PlaceBid(n, k, b)
  PROVE  BidsBacked'
<1> DEFINE e == <<n, k>>
           x == b + (IF bidVaults[e] = 0 THEN VaultRent ELSE bidVaults[e])
           total == EscrowAmount(n, k) + b
<1>1. /\ b \in Nat /\ VaultRent \in Nat /\ e \in DOMAIN bidVaults /\ bidVaults[e] \in Nat
      /\ EscrowAmount(n, k) \in Nat
  BY AmountIsNat, NamesAssumption DEF VaultsInv, NamesTyped, VaultsTyped
<1>2. /\ bidVaults' = [bidVaults EXCEPT ![e] = x]
      /\ bidEscrows' = Created(bidEscrows, e, total)
      /\ UNCHANGED bidsWithdrawn
  BY <1>1 DEF PlaceBid, Funded
<1>3. /\ DOMAIN bidEscrows' = DOMAIN bidEscrows \cup {e}
      /\ bidEscrows'[e] = total
      /\ \A d \in DOMAIN bidEscrows : d # e => bidEscrows'[d] = bidEscrows[d]
  BY <1>2 DEF Created
<1>4. /\ x <= VaultRent + total
      /\ e \notin bidsWithdrawn => x = VaultRent + total
  <2>1. CASE Exists(bidEscrows, e)
    <3>1. /\ EscrowAmount(n, k) = bidEscrows[e]
          /\ bidVaults[e] <= VaultRent + bidEscrows[e]
          /\ e \notin bidsWithdrawn => bidVaults[e] = VaultRent + bidEscrows[e]
      BY <1>1, <2>1 DEF EscrowAmount, VaultsInv, BidsBacked
    <3> QED  BY <1>1, <3>1
  <2>2. CASE ~Exists(bidEscrows, e)
    <3>1. EscrowAmount(n, k) = 0 /\ bidVaults[e] = 0
      BY <1>1, <2>2 DEF EscrowAmount, VaultsInv, BidsBacked
    <3> QED  BY <1>1, <3>1
  <2> QED  BY <2>1, <2>2
<1>5. /\ DOMAIN bidVaults' = DOMAIN bidVaults /\ bidVaults'[e] = x
      /\ \A d \in DOMAIN bidVaults : d # e => bidVaults'[d] = bidVaults[d]
  BY <1>1, <1>2
<1> HIDE DEF e, x, total
<1> QED  BY <1>2, <1>3, <1>4, <1>5 DEF VaultsInv, BidsBacked, Exists

LEMMA WithdrawalIsBacked ==
  ASSUME VaultsInv, NEW n \in PremiumNames, NEW k \in Keys, WithdrawLosingBid(n, k)
  PROVE  BidsBacked'
<1> DEFINE e == <<n, k>>
<1>1. PICK x : x = bidVaults[e] - EscrowAmount(n, k)
  OBVIOUS
<1>2. /\ e \in DOMAIN bidVaults /\ bidVaults[e] \in Nat /\ EscrowAmount(n, k) \in Nat
      /\ EscrowAmount(n, k) > 0
  BY AmountIsNat DEF VaultsInv, NamesTyped, VaultsTyped, WithdrawLosingBid
<1>3. /\ bidVaults' = [bidVaults EXCEPT ![e] = x]
      /\ UNCHANGED bidEscrows /\ bidsWithdrawn' = bidsWithdrawn \cup {e}
  BY <1>1 DEF WithdrawLosingBid
<1>4. Exists(bidEscrows, e) /\ x <= VaultRent + bidEscrows[e]
  BY <1>1, <1>2, NamesAssumption DEF EscrowAmount, VaultsInv, BidsBacked
<1>5. /\ DOMAIN bidVaults' = DOMAIN bidVaults /\ bidVaults'[e] = x
      /\ \A d \in DOMAIN bidVaults : d # e => bidVaults'[d] = bidVaults[d]
  BY <1>2, <1>3
<1> HIDE DEF e
<1> QED  BY <1>3, <1>4, <1>5 DEF VaultsInv, BidsBacked, Exists

LEMMA NamesNext_Vaults ==
  ASSUME VaultsInv, NamesNext
  PROVE  VaultsInv'
<1>0. NamesTyped' /\ BidsInv'
  BY NamesNext_Type, NamesNext_Bids DEF VaultsInv
<1>1. ASSUME UNCHANGED <<bidEscrows, bidVaults, bidsWithdrawn>> PROVE BidsBacked'
  BY <1>1 DEF VaultsInv, BidsBacked, Exists
<1>2. ASSUME UNCHANGED auctionVars PROVE BidsBacked'
  BY <1>1, <1>2 DEF auctionVars
<1>3. ASSUME NEW n \in PremiumNames, NEW k \in Keys,
             \/ PurchasePremium(n, k) \/ IssuePremiumNft(n, k) \/ SyncPremiumOwnerFromNft(n, k)
             \/ SettleAuction(n, k)
             \/ \E to \in Keys : TransferPremium(n, k, to)
             \/ \E m \in DOMAIN tokens : BindPremiumNft(n, k, m)
             \/ \E d \in AuctionSlots : CreateAuction(k, n, d)
             \/ \E l \in Labels, to \in Keys : ClaimDelegatedSubdomain(n, l, k, to)
             \/ \E f \in BOOLEAN : SetParentSubdomainPolicy(n, k, f)
      PROVE  BidsBacked'
  BY <1>1, <1>2, <1>3
  DEF PurchasePremium, IssuePremiumNft, SyncPremiumOwnerFromNft, SettleAuction, TransferPremium,
      BindPremiumNft, CreateAuction, ClaimDelegatedSubdomain, SetParentSubdomainPolicy, auctionVars
<1>4. ASSUME \/ \E s, p \in BOOLEAN : InitNamesConfig(s, p)
             \/ \E k \in Keys : InitPremiumConfig(k)
             \/ \E m \in DOMAIN tokens, k, to \in Keys : TransferToken(m, k, to)
             \/ \E k \in Keys, l \in Labels : ClaimSubdomain(k, l)
             \/ \E s, k, c, to : TransferSubdomain(s, k, c, to)
             \/ \E s, k : IssueSubdomainNft(s, k)
             \/ \E k, name : SetPrimaryName(k, name)
      PROVE  BidsBacked'
  BY <1>2, <1>4 DEF InitNamesConfig, InitPremiumConfig, TransferToken, ClaimSubdomain,
     TransferSubdomain, IssueSubdomainNft, SetPrimaryName
<1>5. BidsBacked'
  BY <1>3, <1>4, BidIsBacked, WithdrawalIsBacked DEF NamesNext, NamesSteps
<1> QED  BY <1>0, <1>5 DEF VaultsInv

\* place_bid, withdraw_losing_bid: every vault of an auction holds what its
\* escrow says until its bidder withdraws, and never more.
THEOREM BidsAreBacked == NamesSpec => []BidsBacked
<1>1. NamesInit => VaultsInv
  <2>1. NamesInit => BidsBacked
    BY DEF NamesInit, NoAccounts, BidsBacked, Exists
  <2> QED  BY <2>1, NamesStart DEF VaultsInv
<1>2. VaultsInv
      /\ [\/ NamesNext /\ UNCHANGED slot
          \/ NewSlot /\ UNCHANGED namesVars]_<<slot, namesVars>>
      => VaultsInv'
  <2>1. ASSUME VaultsInv, UNCHANGED namesVars PROVE VaultsInv'
    BY <2>1, NamesWait DEF VaultsInv, BidsBacked, Exists, namesVars
  <2> QED  BY <2>1, NamesNext_Vaults
<1>3. VaultsInv => BidsBacked
  BY DEF VaultsInv
<1> QED  BY <1>1, <1>2, <1>3, PTL DEF NamesSpec

=============================================================================
