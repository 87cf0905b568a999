---------------------------- MODULE RouteQuorum ----------------------------
(***************************************************************************)
(* The quorum program (solana/programs/ddns_quorum) on top of the registry *)
(* program (ddns_registry).  Verifiers of an epoch submit aggregates of    *)
(* receipts; an aggregate of the present epoch with enough receipts and    *)
(* weight is made the canonical route of its name, by a call into the      *)
(* registry that only the finalize authority may make.                     *)
(***************************************************************************)
EXTENDS SolanaChain

CONSTANTS RouteNames, RouteDests, RouteTtls,
          RouteEpochs,      \* epochs that instructions may name
          RouteWeights,     \* receipt counts, stake weights and thresholds
          RegistryConfigs,  \* arguments of init_config and update_config
          QuorumPda,        \* the address quorum_authority
          RouteMaxVersion   \* bound on route versions

RegistryConfigType ==
  [authority: Keys, finalizeAuthority: Keys \cup {QuorumPda}, ttlMin: Nat,
   ttlMax: Nat, epochLen: Nat, minReceipts: Nat, minWeight: Nat]

ASSUME RouteAssumption ==
  /\ RegistryConfigs \subseteq RegistryConfigType /\ None \notin RegistryConfigType
  /\ RouteMaxVersion \in Nat

VARIABLES registryConfig,   \* Config of the registry, None before init_config
          canonicalRoutes,  \* CanonicalRoute by name
          quorumAuthority,  \* whether init_quorum_authority has run
          verifierSets,     \* VerifierSet by epoch
          stakeSnapshots,   \* StakeSnapshot: slot of creation, by epoch
          aggregates,       \* AggregateSubmission by <<epoch, name, submitter>>
          epochsMoved,      \* history: update_config changed the epoch length
          counted,          \* history: the aggregate ddns_quorum last finalized,
                            \* by name
          walletRoutes      \* history: names whose route a wallet wrote last

routeVars == <<registryConfig, canonicalRoutes, quorumAuthority, verifierSets,
               stakeSnapshots, aggregates, epochsMoved, counted, walletRoutes>>

RouteInit ==
  /\ registryConfig = None /\ canonicalRoutes = NoAccounts
  /\ quorumAuthority = FALSE /\ verifierSets = NoAccounts
  /\ stakeSnapshots = NoAccounts /\ aggregates = NoAccounts
  /\ epochsMoved = FALSE /\ counted = NoAccounts /\ walletRoutes = {}

RegistryInitConfig(authority, c) ==
  /\ registryConfig = None /\ c.ttlMin <= c.ttlMax
  /\ registryConfig' = [c EXCEPT !.authority = authority]
  /\ UNCHANGED <<canonicalRoutes, quorumAuthority, verifierSets, stakeSnapshots,
                 aggregates, epochsMoved, counted, walletRoutes>>

RegistryUpdateConfig(authority, c) ==
  /\ registryConfig # None /\ authority = registryConfig.authority
  /\ c.ttlMin <= c.ttlMax
  /\ registryConfig' = [c EXCEPT !.authority = authority]
  /\ epochsMoved' = (epochsMoved \/ c.epochLen # registryConfig.epochLen)
  /\ UNCHANGED <<canonicalRoutes, quorumAuthority, verifierSets, stakeSnapshots,
                 aggregates, counted, walletRoutes>>

\* finalize_route, whoever calls it.  An unchanged route keeps its version.
FinalizeRoute(authority, n, dest, ttl, aggregate) ==
  /\ registryConfig # None /\ authority = registryConfig.finalizeAuthority
  /\ ttl \in registryConfig.ttlMin..registryConfig.ttlMax
  /\ LET version == IF Vacant(canonicalRoutes, n) THEN 1
                    ELSE LET r == canonicalRoutes[n]
                         IN IF r.dest = dest /\ r.ttl = ttl THEN r.version
                            ELSE r.version + 1
     IN /\ version <= RouteMaxVersion
        /\ canonicalRoutes' = Created(canonicalRoutes, n,
             [dest |-> dest, ttl |-> ttl, version |-> version,
              updatedAt |-> slot, aggregate |-> aggregate])

\* A finalize authority that is a wallet names the aggregate itself: one there
\* is, one there is not, or None for any other address.
RouteRefs == {None} \cup (RouteEpochs \X RouteNames \X Keys)
FinalizeDirectly(k, n, dest, ttl, ref) ==
  /\ FinalizeRoute(k, n, dest, ttl, ref)
  /\ walletRoutes' = walletRoutes \cup {n}
  /\ UNCHANGED <<registryConfig, quorumAuthority, verifierSets, stakeSnapshots,
                 aggregates, epochsMoved, counted>>

InitQuorumAuthority ==
  /\ ~quorumAuthority /\ quorumAuthority' = TRUE
  /\ UNCHANGED <<registryConfig, canonicalRoutes, verifierSets, stakeSnapshots,
                 aggregates, epochsMoved, counted, walletRoutes>>

\* The first to come for an epoch becomes the admin of its set.
InitVerifierSet(admin, e, threshold, members) ==
  /\ Vacant(verifierSets, e)
  /\ verifierSets' = Created(verifierSets, e,
       [admin |-> admin, threshold |-> threshold, members |-> members])
  /\ UNCHANGED <<registryConfig, canonicalRoutes, quorumAuthority, stakeSnapshots,
                 aggregates, epochsMoved, counted, walletRoutes>>

UpdateVerifierSet(admin, e, threshold, members) ==
  /\ Exists(verifierSets, e) /\ verifierSets[e].admin = admin
  /\ verifierSets' = [verifierSets EXCEPT ![e].threshold = threshold,
                                          ![e].members = members]
  /\ UNCHANGED <<registryConfig, canonicalRoutes, quorumAuthority, stakeSnapshots,
                 aggregates, epochsMoved, counted, walletRoutes>>

\* epoch_id_from_slot
RouteEpoch == EpochOf(registryConfig.epochLen)
IsCurrentMut(e) == registryConfig.epochLen > 0 /\ e <= RouteEpoch
IsCurrent(e) == registryConfig.epochLen > 0 /\ RouteEpoch = e

\* What submit_stake_snapshot and submit_aggregate ask of their submitter.
MayCount(submitter, e) ==
  /\ registryConfig # None /\ Exists(verifierSets, e)
  /\ submitter \in verifierSets[e].members
  /\ IsCurrent(e)

SubmitStakeSnapshot(submitter, e) ==
  /\ MayCount(submitter, e) /\ Vacant(stakeSnapshots, e)
  /\ stakeSnapshots' = Created(stakeSnapshots, e, slot)
  /\ UNCHANGED <<registryConfig, canonicalRoutes, quorumAuthority, verifierSets,
                 aggregates, epochsMoved, counted, walletRoutes>>

SubmitAggregateMut(submitter, e, n, dest, ttl, receipts, weight) ==
  /\ MayCount(submitter, e)
  /\ aggregates' = Created(aggregates, <<e, n, submitter>>,
       [dest |-> dest, ttl |-> ttl, receipts |-> receipts, weight |-> weight])
  /\ UNCHANGED <<registryConfig, canonicalRoutes, quorumAuthority, verifierSets,
                 stakeSnapshots, epochsMoved, counted, walletRoutes>>
SubmitAggregate(submitter, e, n, dest, ttl, receipts, weight) ==
  /\ MayCount(submitter, e) /\ Vacant(aggregates, <<e, n, submitter>>)
  /\ aggregates' = Created(aggregates, <<e, n, submitter>>,
       [dest |-> dest, ttl |-> ttl, receipts |-> receipts, weight |-> weight])
  /\ UNCHANGED <<registryConfig, canonicalRoutes, quorumAuthority, verifierSets,
                 stakeSnapshots, epochsMoved, counted, walletRoutes>>

HasQuorum(agg, e) ==
  /\ agg.receipts >= registryConfig.minReceipts
  /\ agg.weight >= Greater(registryConfig.minWeight, verifierSets[e].threshold)

\* The caller names the destination and the TTL again, and they must be those
\* of the aggregate; anybody may pay for the call.
FinalizeIfQuorum(submitter, e, n, dest, ttl) ==
  /\ quorumAuthority /\ registryConfig # None /\ Exists(verifierSets, e)
  /\ Exists(aggregates, <<e, n, submitter>>)
  /\ IsCurrent(e)
  /\ LET agg == aggregates[<<e, n, submitter>>]
     IN agg.dest = dest /\ agg.ttl = ttl /\ HasQuorum(agg, e)
  /\ FinalizeRoute(QuorumPda, n, dest, ttl, <<e, n, submitter>>)
  /\ counted' = Created(counted, n, <<e, n, submitter>>)
  /\ walletRoutes' = walletRoutes \ {n}
  /\ UNCHANGED <<registryConfig, quorumAuthority, verifierSets, stakeSnapshots,
                 aggregates, epochsMoved>>

RouteNext ==
  \/ \E k \in Keys, c \in RegistryConfigs : RegistryInitConfig(k, c)
  \/ \E k \in Keys, c \in RegistryConfigs : RegistryUpdateConfig(k, c)
  \/ \E k \in Keys, n \in RouteNames, d \in RouteDests, t \in RouteTtls,
        ref \in RouteRefs : FinalizeDirectly(k, n, d, t, ref)
  \/ InitQuorumAuthority
  \/ \E k \in Keys, e \in RouteEpochs, w \in RouteWeights, m \in SUBSET Keys :
       InitVerifierSet(k, e, w, m) \/ UpdateVerifierSet(k, e, w, m)
  \/ \E k \in Keys, e \in RouteEpochs : SubmitStakeSnapshot(k, e)
  \/ \E k \in Keys, e \in RouteEpochs, n \in RouteNames, d \in RouteDests,
        t \in RouteTtls, r, w \in RouteWeights :
       SubmitAggregate(k, e, n, d, t, r, w)
  \/ \E a \in DOMAIN aggregates, d \in RouteDests, t \in RouteTtls :
       FinalizeIfQuorum(a[3], a[1], a[2], d, t)

RouteSpec ==
  ChainInit /\ RouteInit
  /\ [][(RouteNext /\ UNCHANGED slot) \/ (NewSlot /\ UNCHANGED routeVars)]_<<slot, routeVars>>

-----------------------------------------------------------------------------
RouteTypeOK ==
  /\ DOMAIN aggregates \subseteq RouteEpochs \X RouteNames \X Keys
  /\ DOMAIN verifierSets \subseteq RouteEpochs
  /\ DOMAIN canonicalRoutes \subseteq RouteNames
  /\ DOMAIN counted \cup walletRoutes \subseteq DOMAIN canonicalRoutes
  /\ \A n \in DOMAIN canonicalRoutes :
       canonicalRoutes[n].version \in 1..RouteMaxVersion

\* A route that no wallet has written since the quorum program did is the
\* aggregate it refers to, which is the one counted last: same name, same
\* destination, same TTL, from a member of a set there was.  Two programs and
\* the caller each carry these fields, a wallet may write and hand back the
\* route in between, and the aggregate must never change after a route refers
\* to it.  A wallet that is finalize authority may refer to anything.
RouteIsAggregate ==
  \A n \in DOMAIN canonicalRoutes \ walletRoutes :
    LET r == canonicalRoutes[n]
    IN /\ Exists(counted, n) /\ r.aggregate = counted[n]
       /\ Exists(aggregates, r.aggregate) /\ r.aggregate[2] = n
       /\ aggregates[r.aggregate].dest = r.dest
       /\ aggregates[r.aggregate].ttl = r.ttl
       /\ Exists(verifierSets, r.aggregate[1])

\* A change of destination or TTL always shows in the version of the route, and
\* the quorum program never finalizes an aggregate of an earlier epoch than the
\* last it finalized for the name, whatever wallets wrote in between.  A change
\* of the epoch length renumbers the epochs and is the exception.
RouteEpochsAdvance ==
  [][/\ \A n \in DOMAIN canonicalRoutes :
          LET old == canonicalRoutes[n] new == canonicalRoutes'[n]
          IN /\ n \in DOMAIN canonicalRoutes'
             /\ (old.dest # new.dest \/ old.ttl # new.ttl) => new.version = old.version + 1
     /\ \A n \in DOMAIN counted :
          /\ n \in DOMAIN counted'
          /\ ~epochsMoved' => counted[n][1] <= counted'[n][1]]_routeVars
=============================================================================
