-------------------------- MODULE RoutePublication --------------------------
(***************************************************************************)
(* How a route gets on the chain from the command line (solana/scripts):   *)
(* route_create.ts writes a record into the wallet's cache, route_sign_    *)
(* witness.ts appends attestations beside it, and set_route.ts looks the   *)
(* record up, submits it to the booth, see below, and, once the booth has  *)
(* stored it, sends the transaction to the anchor program.                 *)
(* mint_toll_pass.ts makes the pass that both ask for.                     *)
(***************************************************************************)
EXTENDS Anchor, AttackMode, Sequences

-----------------------------------------------------------------------------
(* services/toll-booth: route records attested by trusted witnesses are      *)
(* stored as files, one per route id, and their owners earn points.  The     *)
(* owner's toll pass is looked up on the chain between the checks and the    *)
(* writes, and the process may die between the two writes.                   *)

CONSTANTS
  RrRoutes,      \* the route records: an id stands for its content
  RrOwnerOf,     \* route -> the owner it names
  RrTrusted,     \* those of config/trusted_witnesses.json
  RrAttested,    \* the attestations: sequences of [route, witness, genuine]
  RrQuorum,      \* QUORUM
  RrAllowed,     \* the owners of config/owners_allow.json
  RrPassHolders, \* the owners whose toll pass exists at first
  RrMaxPoints,   \* bound: the points of an owner
  RrMaxWaiting   \* bound: the submissions that wait for the chain

VARIABLES rrPasses, rrWaiting, rrStored, rrPoints, rrWriteErrors, rrWrites
rrVars == <<rrPasses, rrWaiting, rrStored, rrPoints, rrWriteErrors, rrWrites>>

RrOwners == {RrOwnerOf[r] : r \in RrRoutes}

RrInit ==
  /\ rrPasses = RrPassHolders
  /\ rrWaiting = {}
  /\ rrStored = {}
  /\ rrPoints = [o \in RrOwners |-> 0]
  /\ rrWriteErrors = 0
  /\ rrWrites = 0

\* (For the mutation check: an attestation of another route counts.)
ValidAttestationMut(route, a) == a.witness \in RrTrusted /\ a.genuine

\* verifyWitness, for the attestations that name this route.
ValidAttestation(route, a) ==
  a.route = route /\ a.witness \in RrTrusted /\ a.genuine
ValidWitnesses(route, attestations) ==
  {attestations[i].witness :
     i \in {j \in DOMAIN attestations : ValidAttestation(route, attestations[j])}}

\* currentAttackPolicy: write errors alone score ten points at most, which
\* never leaves NORMAL.
RrPolicy == PolicyForMode(NextMode("NORMAL",
              AttackScore([QuietSignals EXCEPT !.gatewayErr = Share(rrWriteErrors, rrWrites)]),
              0, AmNever))

\* POST /v1/route/submit up to the chain lookup.
SubmitRoute(route, attestations) ==
  /\ ~RrPolicy.freezeWrites
  /\ Cardinality(rrWaiting) < RrMaxWaiting
  /\ rrWrites < RrMaxPoints * 2
  /\ Cardinality(ValidWitnesses(route, attestations)) >= RrQuorum
  /\ rrWaiting' = rrWaiting \cup {[route |-> route, with |-> attestations]}
  /\ rrWrites' = rrWrites + 1
  /\ UNCHANGED <<rrPasses, rrStored, rrPoints, rrWriteErrors>>
Submit == \E route \in RrRoutes, attestations \in RrAttested :
            SubmitRoute(route, attestations)

\* ownerHasTollPass: an owner without a pass, or a chain that does not answer,
\* refuses the route.
HasPass(owner) == owner \in RrAllowed \/ owner \in rrPasses

Store(w) == rrStored' = {x \in rrStored : x.route # w.route} \cup {w}
Reward(owner) == rrPoints' = [rrPoints EXCEPT ![owner] = @ + 1]

\* The chain answers and both files are written; the same route earns again
\* each time it is submitted.
StoredOf(w) ==
  LET owner == RrOwnerOf[w.route]
  IN /\ HasPass(owner)
     /\ rrPoints[owner] < RrMaxPoints
     /\ Store(w)
     /\ Reward(owner)
     /\ rrWaiting' = rrWaiting \ {w}
     /\ UNCHANGED <<rrPasses, rrWriteErrors, rrWrites>>

RefusedOf(w) ==
  /\ RrOwnerOf[w.route] \notin RrAllowed
  /\ rrWaiting' = rrWaiting \ {w}
  /\ UNCHANGED <<rrPasses, rrStored, rrPoints, rrWriteErrors, rrWrites>>

\* A write fails, before or after the route's file was written.
FailedOf(w) ==
  /\ HasPass(RrOwnerOf[w.route])
  /\ Store(w) \/ UNCHANGED rrStored
  /\ rrWaiting' = rrWaiting \ {w}
  /\ rrWriteErrors' = rrWriteErrors + 1
  /\ UNCHANGED <<rrPasses, rrPoints, rrWrites>>

\* The process dies: the requests, the counters and the mode go, the files
\* stay; a submission may have written the route but not the points.
RrCrash ==
  /\ \/ UNCHANGED rrStored
     \/ \E w \in rrWaiting : HasPass(RrOwnerOf[w.route]) /\ Store(w)
  /\ rrWaiting' = {}
  /\ rrWrites' = 0
  /\ rrWriteErrors' = 0
  /\ UNCHANGED <<rrPasses, rrPoints>>

\* A toll pass is issued on the chain.
PassIssuedTo(o) ==
  /\ rrPasses' = rrPasses \cup {o}
  /\ UNCHANGED <<rrWaiting, rrStored, rrPoints, rrWriteErrors, rrWrites>>

RrNext ==
  \/ Submit \/ RrCrash
  \/ \E w \in rrWaiting : StoredOf(w) \/ RefusedOf(w) \/ FailedOf(w)
  \/ \E o \in RrOwners : PassIssuedTo(o)
RrSpec == RrInit /\ [][RrNext]_rrVars

\* Every stored route was attested by a quorum of different trusted witnesses
\* and its owner may write; only owners of stored routes have points.
StoredRoutesWitnessed ==
  /\ \A w \in rrStored :
       /\ \E W \in SUBSET RrTrusted :
            /\ Cardinality(W) = RrQuorum
            /\ \A x \in W : \E i \in DOMAIN w.with :
                 /\ w.with[i].witness = x
                 /\ w.with[i].route = w.route
                 /\ w.with[i].genuine
       /\ RrOwnerOf[w.route] \in RrAllowed \cup rrPasses
  /\ \A o \in RrOwners :
       rrPoints[o] > 0 => \E w \in rrStored : RrOwnerOf[w.route] = o

-----------------------------------------------------------------------------
(***************************************************************************)
(* The commands.                                                           *)
(***************************************************************************)

CONSTANTS
  RpFields,     \* route -> its name and destination; the id covers a nonce too
  RpOrder,      \* route -> its place in the listing of the cache directory
  RpWitnesses,  \* those that sign, trusted or not
  RpAnswers,    \* what the RPC endpoints may answer to the write guard
  RpMaxSigned   \* bound: the attestations of a route

\* The trusted witnesses are those of a file, a route has one place in the
\* listing, the quorum is a number, and owners are wallets.
ASSUME RpAssumption ==
  /\ IsFiniteSet(RrTrusted) /\ RrQuorum \in Nat
  /\ RpOrder \in [RrRoutes -> Nat] /\ RrOwners \subseteq Keys

VARIABLES
  rpRoutes,     \* wallet-cache/routes
  rpSigned,     \* wallet-cache/witnesses
  rpJobs        \* set_route under way, by wallet: its route and where it stands
rpVars == <<rpRoutes, rpSigned, rpJobs>>

RpInit == /\ rpRoutes = {} /\ rpJobs = NoAccounts
          /\ rpSigned = [r \in RrRoutes |-> <<>>]

\* route_create.ts; the nonce makes every record new.
RouteCreate(r) ==
  /\ r \notin rpRoutes /\ rpRoutes' = rpRoutes \cup {r}
  /\ UNCHANGED <<rpSigned, rpJobs, anVars, rrVars>>

\* appendWitness: read, append, write.
AppendWitness(r, w) ==
  rpSigned' = [rpSigned EXCEPT ![r] = Append(@, [route |-> r, witness |-> w, genuine |-> TRUE])]

\* route_sign_witness.ts, of whoever has the directory.
RouteSignWitness(r, w) ==
  /\ r \in rpRoutes /\ Len(rpSigned[r]) < RpMaxSigned
  /\ AppendWitness(r, w)
  /\ UNCHANGED <<rpRoutes, rpJobs, anVars, rrVars>>

\* The routes of owner k with these fields, and the first of them in the
\* directory: an older record hides a newer one.
RoutesOf(k, n, dest) ==
  {r \in rpRoutes : RrOwnerOf[r] = k /\ RpFields[r] = <<n, dest>>}
FindRouteIdByFields(k, n, dest) ==
  CHOOSE r \in RoutesOf(k, n, dest) :
    \A s \in RoutesOf(k, n, dest) : RpOrder[r] <= RpOrder[s]

\* mint_toll_pass.ts: nothing to do for a wallet that has its pass.
MintTollPass(k, n, mint, answers) ==
  /\ WriteGuardPasses(TRUE, answers) /\ Vacant(tollPasses, k)
  /\ IssueTollPass(k, n, mint)
  /\ PassIssuedTo(k)
  /\ UNCHANGED rpVars

\* set_route.ts up to the submission: the guard, the record of the cache and,
\* for create-only and update-only, the record on the chain.
ModeAllows(k, n, mode) ==
  CASE mode = "create-only" -> Vacant(anRoutes, <<k, n>>)
    [] mode = "update-only" -> Exists(anRoutes, <<k, n>>)
    [] OTHER -> TRUE

SetRouteStart(k, n, dest, mode, answers) ==
  /\ Vacant(rpJobs, k) /\ WriteGuardPasses(TRUE, answers)
  /\ RoutesOf(k, n, dest) # {} /\ ModeAllows(k, n, mode)
  /\ LET r == FindRouteIdByFields(k, n, dest)
     IN /\ SubmitRoute(r, rpSigned[r])
        /\ rpJobs' = Created(rpJobs, k,
             [name |-> n, dest |-> dest, step |-> "booth",
              waiting |-> [route |-> r, with |-> rpSigned[r]]])
  /\ UNCHANGED <<rpRoutes, rpSigned, anVars>>

RpEnds(k) == rpJobs' = [j \in DOMAIN rpJobs \ {k} |-> rpJobs[j]]

\* The booth's answer.  Only a stored route goes on.
BoothStores(k) ==
  /\ rpJobs[k].step = "booth" /\ StoredOf(rpJobs[k].waiting)
  /\ rpJobs' = [rpJobs EXCEPT ![k].step = "chain"]
  /\ UNCHANGED <<rpRoutes, rpSigned, anVars>>

BoothRefuses(k) ==
  /\ rpJobs[k].step = "booth"
  /\ RefusedOf(rpJobs[k].waiting) \/ FailedOf(rpJobs[k].waiting)
  /\ RpEnds(k)
  /\ UNCHANGED <<rpRoutes, rpSigned, anVars>>

BoothCrashes ==
  /\ RrCrash
  /\ rpJobs' = [k \in {j \in DOMAIN rpJobs : rpJobs[j].step # "booth"} |-> rpJobs[k]]
  /\ UNCHANGED <<rpRoutes, rpSigned, anVars>>

\* The transaction: the program may refuse it, and then the booth keeps a
\* route that the chain does not have.
RouteSent(k) ==
  /\ rpJobs[k].step = "chain"
  /\ \/ /\ \E t \in AnTtls : SetRoute(k, rpJobs[k].name, rpJobs[k].dest, t)
        /\ RpEnds(k)
     \/ RpEnds(k) /\ UNCHANGED anVars
  /\ UNCHANGED <<rpRoutes, rpSigned, rrVars>>

RpNext ==
  \/ \E k \in Keys : Initialize(k, 1) /\ UNCHANGED <<rpVars, rrVars>>
  \/ \E r \in RrRoutes : RouteCreate(r) \/ \E w \in RpWitnesses : RouteSignWitness(r, w)
  \/ \E k \in RrOwners, n \in AnNames, answers \in RpAnswers :
       \/ \E m \in AnMints : MintTollPass(k, n, m, answers)
       \/ \E d \in AnDests, mode \in {"any", "create-only", "update-only"} :
            SetRouteStart(k, n, d, mode, answers)
  \/ \E k \in DOMAIN rpJobs : BoothStores(k) \/ BoothRefuses(k) \/ RouteSent(k)
  \/ BoothCrashes

-----------------------------------------------------------------------------
\* A route that came on the chain this way is one that the booth stored for
\* this owner, with this name and this destination, upon a quorum of trusted
\* witnesses: whichever records of the cache look the same, whatever was signed
\* in between, and whenever the booth died.
PublishedRoutesWitnessed ==
  \A at \in DOMAIN anRoutes :
    \E w \in rrStored :
      /\ RrOwnerOf[w.route] = at[1]
      /\ RpFields[w.route] = <<at[2], anRoutes[at].dest>>
      /\ Cardinality(ValidWitnesses(w.route, w.with)) >= RrQuorum
=============================================================================
