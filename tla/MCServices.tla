----------------------------- MODULE MCServices -----------------------------
(***************************************************************************)
(* The services around the programs, for TLC: the gateway's parts, the     *)
(* toll booths, the witnesses and the roll-up, hosting, the coordinator's  *)
(* sessions.  Those that share state run together: the booth, the roll-up  *)
(* and the publication of routes with the anchor programs, and the         *)
(* publication with the relay.  The others have nothing in common, and     *)
(* Init chooses which one a behaviour is about.                            *)
(***************************************************************************)
EXTENDS TollBooth, CacheRollup, RoutePublication, DomainContinuity, Payments,
        MinerWitness, GatewayRegistry, NameAdapters, GatewayResolve, HostingPlane,
        DemoGateway, CoordinatorSessions, TrafficOracle, WitnessGateway, TLC

CONSTANTS Services,  \* the services that are run
          k1, k2,    \* two wallets
          n1, n2,    \* two names of the anchor program
          d1         \* a domain

VARIABLE service

-----------------------------------------------------------------------------
MCRepConfigs ==
  {[authority |-> k1, basePoints |-> 10, multiplier |-> [l \in 0..2 |-> 10000 + 1000*l],
    minSubdomains |-> 2, minSources |-> 2, cap |-> 30, enabled |-> TRUE]}
MCRepEntries == {<<1, 1, 1, 0>>, <<2, 2, 2, 2>>}

MCEntry(name, rrset, confidence, witness, parent) ==
  [name |-> name, parent |-> parent, rrset |-> rrset, bucket |-> 1,
   confidence |-> confidence, witness |-> witness]
MCCrEntries == {MCEntry(2, 1, 9000, k1, n1), MCEntry(1, 1, 7000, k2, None)}
MCCrBatches == {<<[ok |-> TRUE, entry |-> MCEntry(1, 2, 0, k1, n1)],
                  [ok |-> FALSE, entry |-> MCEntry(1, 1, 0, k1, n1)]>>}
MCCrOptions == {[onchain |-> TRUE, rep |-> TRUE], [onchain |-> FALSE, rep |-> FALSE]}

\* r1, r3 and r4 are of one owner and one name; r3 has another destination.
MCOwnerOf == ("r2" :> k2) @@ [r \in {"r1", "r3", "r4"} |-> k1]
MCRpFields == ("r2" :> <<n2, "a">>) @@ ("r3" :> <<n1, "b">>)
              @@ [r \in {"r1", "r4"} |-> <<n1, "a">>]
MCRpOrder == ("r1" :> 1) @@ ("r2" :> 2) @@ ("r3" :> 3) @@ ("r4" :> 4)
MCRpAnswers == {("u1" :> "x") @@ ("u2" :> "x"), ("u1" :> "x") @@ ("u2" :> "y")}
MCAttestation(r, w, g) == [route |-> r, witness |-> w, genuine |-> g]
MCAttested ==
  {<<MCAttestation("r1", "w1", TRUE), MCAttestation("r1", "w1", TRUE)>>,
   <<MCAttestation("r1", "w1", TRUE), MCAttestation("r1", "w2", TRUE)>>,
   <<MCAttestation("r1", "w1", TRUE), MCAttestation("r1", "w2", FALSE)>>,
   <<MCAttestation("r1", "w1", TRUE), MCAttestation("r1", "w3", TRUE)>>,
   <<MCAttestation("r1", "w2", TRUE), MCAttestation("r2", "w1", TRUE),
     MCAttestation("r2", "w2", TRUE)>>}

MCGwRecord(status, due, traffic, credits) ==
  [status |-> status, due |-> due, ns |-> TRUE, traffic |-> traffic, credits |-> credits]
MCGwSeeds == [d \in GwDomains |-> MCGwRecord("expiring", 7, "real", 180)]
MCGwDryRun == [d \in GwDomains |-> MCGwRecord("active", 90, "low", 40)]
MCGwConfigs ==
  {[provider |-> "mock", worker |-> {[due |-> 3, traffic |-> NoDate, treasury |-> TRUE]}],
   [provider |-> "dry_run", worker |-> {}], [provider |-> "porkbun", worker |-> {}]}

MCPaySkus == [a |-> {"card", "sol"}]

MCReceipt(w, v, s) == [wallet |-> w, valid |-> v, stake |-> s]
\* With the last of them, one of 18, 19 or 20 receipts is invalid: above five in
\* a hundred by less than one, and just five.
MCMwBatches == {<<MCReceipt("a", TRUE, FALSE)>>,
                <<MCReceipt("a", FALSE, TRUE), MCReceipt("", FALSE, FALSE)>>,
                [i \in 1..18 |-> MCReceipt("a", i # 1, FALSE)]}

MCRecord(n, d) == [name |-> n, data |-> d]
MCSnapshots == {<<MCRecord(2, "y"), MCRecord(1, "x")>>,
                <<MCRecord(2, "x"), MCRecord(1, "y"), MCRecord(2, "y"),
                  MCRecord(3, "x"), MCRecord(1, "x")>>, <<>>}

MCGateways == <<"g1", "g2">>
MCValue(k) == [kind |-> k, id |-> 1]
MCNoTexts == [k \in {} |-> MCValue("plain")]
MCEns ==
  {[resolver |-> FALSE, addr |-> {}, content |-> {}, texts |-> MCNoTexts],
   [resolver |-> TRUE, addr |-> {MCValue("plain")}, content |-> {MCValue("plain")},
    texts |-> [k \in {"content", "url"} |-> MCValue(IF k = "url" THEN "ar" ELSE "plain")]],
   [resolver |-> TRUE, addr |-> {MCValue("plain")}, content |-> {MCValue("ipfs")},
    texts |-> MCNoTexts],
   [resolver |-> TRUE, addr |-> {}, content |-> {MCValue("plain")},
    texts |-> MCNoTexts]}
MCSns ==
  {[parses |-> FALSE, texts |-> MCNoTexts, owner |-> {MCValue("plain")},
    program |-> {MCValue("plain")}],
   [parses |-> TRUE, texts |-> [k \in {"url"} |-> MCValue("ar")],
    owner |-> {MCValue("plain")}, program |-> {MCValue("plain")}]}
MCReply(s, z, t) == [status |-> s, size |-> z, timeout |-> t]
MCReplies == {MCReply(200, 1, FALSE), MCReply(404, 1, FALSE), MCReply(200, 3, FALSE),
              MCReply(0, 0, TRUE)}

MCGrConfigs ==
  {[attackOn |-> b, aggregator |-> b, quorum |-> 2, requireOwner |-> TRUE,
    vouchers |-> TRUE] : b \in BOOLEAN}
MCGrVouchers == {[genuine |-> TRUE, exp |-> 200]}

MCUpstreams == <<1, 2>>

MCShare(s) == [named |-> TRUE, given |-> "percent", share |-> s]
MCPolicies == {<<MCShare(6000), MCShare(4000)>>, <<MCShare(6000), MCShare(5000)>>,
               <<MCShare(5000), MCShare(5001)>>}
MCCsConfigs == {[chain |-> "solana", passport |-> TRUE, allowlist |-> {}],
                [chain |-> "auto", passport |-> FALSE, allowlist |-> {"s"}]}

MCToSignals ==
  {[dns |-> TRUE, http |-> TRUE, status |-> 200, length |-> 40000, keywords |-> 20,
    h1s |-> 8, title |-> 20],
   [dns |-> FALSE, http |-> FALSE, status |-> 0, length |-> 0, keywords |-> 0,
    h1s |-> 0, title |-> 0]}

-----------------------------------------------------------------------------
Vars == <<service, slot, anchorVars, tbVars, crVars, rpVars, rrVars, gwVars, payVars,
          mwVars, rgVars, naAnswer, grVars, hpVars, dgVars, csVars, toVars, wgVars>>

\* A service that is not run has one initial state.
Init ==
  /\ service \in Services
  /\ ChainInit /\ AnInit /\ TbInit /\ RrInit /\ RpInit /\ PayInit /\ NaInit /\ DgInit
  /\ ToInit
  /\ CrInit /\ (service # "rollup" => crOptions = CHOOSE o \in CrOptions : TRUE)
  /\ GwInit /\ (service # "continuity" => gwConfig = CHOOSE c \in GwConfigs : TRUE)
  /\ MwInit /\ (service # "miner" => mwEnabled)
  /\ RgInit /\ (service # "registry" => rgFile = <<>>)
  /\ GrInit /\ (service # "resolve" => grConfig = CHOOSE c \in GrConfigs : TRUE)
  /\ HpInit /\ (service # "hosting" => hpKey = CHOOSE k \in HpKeys : TRUE)
  /\ CsInit /\ (service # "sessions" => csConfig = CHOOSE c \in CsConfigs : TRUE)
  /\ WgInit /\ (service # "witness" => DOMAIN wgRoutes = {})

\* Bounds of single services, beside those of the constants: locked tokens and
\* routes not in one behaviour, one parent with a cache head, and one mint, the
\* routes of one owner and three attestations where routes are published; no
\* requests that wait together but renewals at the registrar; windows of a few
\* receipts, or of one large batch and a few.
Within ==
  CASE service = "anchor" ->
         DOMAIN locks' \subseteq {k1} /\ (locks' = NoAccounts \/ tollPasses' = NoAccounts)
    [] service = "routes" ->
         /\ rpRoutes' \subseteq {"r1", "r3", "r4"}
         /\ Len(rpSigned'["r1"]) + Len(rpSigned'["r3"]) + Len(rpSigned'["r4"]) <= 3
         /\ \A k \in DOMAIN tollPasses' : tollPasses'[k].mint = "m1"
    [] service = "relay" -> \A w \in rrWaiting' : w.route # "r4"
    [] service = "rollup" -> DOMAIN cacheHeads' \subseteq {n1}
    [] service = "continuity" ->
         Cardinality(gwInFlight') > 1 => \A r \in gwInFlight' : r.kind = "registrar"
    [] service = "miner" -> mwWindow'.total \in 0..4 \cup 18..20
    [] OTHER -> TRUE

\* Every service but those of S is left alone, and the bounds are kept.
Alone(S) ==
  /\ UNCHANGED service
  /\ IF "anchor" \in S THEN TRUE ELSE UNCHANGED anVars
  /\ IF "reputation" \in S THEN TRUE ELSE UNCHANGED repVars
  /\ IF "heads" \in S THEN TRUE ELSE UNCHANGED cacheHeads
  /\ IF "booth" \in S THEN TRUE ELSE UNCHANGED tbVars
  /\ IF "rollup" \in S THEN TRUE ELSE UNCHANGED crVars
  /\ IF "routes" \in S THEN TRUE ELSE UNCHANGED rpVars
  /\ IF "relay" \in S THEN TRUE ELSE UNCHANGED rrVars
  /\ IF "continuity" \in S THEN TRUE ELSE UNCHANGED gwVars
  /\ IF "payments" \in S THEN TRUE ELSE UNCHANGED payVars
  /\ IF "miner" \in S THEN TRUE ELSE UNCHANGED mwVars
  /\ IF "registry" \in S THEN TRUE ELSE UNCHANGED rgVars
  /\ IF "adapters" \in S THEN TRUE ELSE UNCHANGED naAnswer
  /\ IF "resolve" \in S THEN TRUE ELSE UNCHANGED grVars
  /\ IF "hosting" \in S THEN TRUE ELSE UNCHANGED hpVars
  /\ IF "demo" \in S THEN TRUE ELSE UNCHANGED dgVars
  /\ IF "sessions" \in S THEN TRUE ELSE UNCHANGED csVars
  /\ IF "oracle" \in S THEN TRUE ELSE UNCHANGED toVars
  /\ IF "witness" \in S THEN TRUE ELSE UNCHANGED wgVars
  /\ Within

Next ==
  \/ service = "anchor" /\ AnNext /\ UNCHANGED slot /\ Alone({"anchor"})
  \/ service = "reputation" /\ RepNext /\ UNCHANGED slot /\ Alone({"reputation"})
  \/ service = "heads" /\ HeadNext /\ UNCHANGED slot /\ Alone({"heads"})
  \/ service = "anchor" /\ NewSlot /\ Alone({})
  \/ service = "booth" /\ TbNext /\ UNCHANGED slot /\ Alone({"anchor", "booth"})
  \/ service = "rollup" /\ CrNext /\ UNCHANGED slot /\ Alone({"reputation", "heads", "rollup"})
  \/ service = "routes" /\ RpNext /\ UNCHANGED slot
       /\ Alone({"anchor", "routes", "relay"})
  \/ service = "relay" /\ RrNext /\ UNCHANGED slot /\ Alone({"relay"})
  \/ service = "continuity" /\ GwNext /\ UNCHANGED slot /\ Alone({"continuity"})
  \/ service = "payments" /\ PayNext /\ UNCHANGED slot /\ Alone({"payments"})
  \/ service = "miner" /\ MwNext /\ UNCHANGED slot /\ Alone({"miner"})
  \/ service = "registry" /\ RgNext /\ UNCHANGED slot /\ Alone({"registry"})
  \/ service = "adapters" /\ NaNext /\ UNCHANGED slot /\ Alone({"adapters"})
  \/ service = "resolve" /\ GrNext /\ UNCHANGED slot /\ Alone({"resolve"})
  \/ service = "hosting" /\ HpNext /\ UNCHANGED slot /\ Alone({"hosting"})
  \/ service = "demo" /\ DgNext /\ UNCHANGED slot /\ Alone({"demo"})
  \/ service = "sessions" /\ CsNext /\ UNCHANGED slot /\ Alone({"sessions"})
  \/ service = "oracle" /\ ToNext /\ UNCHANGED slot /\ Alone({"oracle"})
  \/ service = "witness" /\ WgNext /\ UNCHANGED slot /\ Alone({"witness"})

Spec == Init /\ [][Next]_Vars

-----------------------------------------------------------------------------
\* The accounts of the anchor programs, the configuration and the services'
\* counters have the form the code gives them.
ServicesTypeOK ==
  /\ AnTypeOK /\ slot \in 0..MaxSlot /\ service \in Services
  /\ tbNonce \in 0..TbMaxNonce /\ rrWriteErrors \in Nat /\ gwDay \in 0..GwMaxDay
  /\ mwMode \in AttackModes

\* Money in books: the ledger of the gateway agrees with its entries whatever
\* renewals cross at the registrar, and an allocation of the coordinator is
\* covered by the treasury, but for the ten-thousandth too much that the
\* validation of a policy (coordinator/src/server.ts:736) lets pass.
BooksCovered == LedgerReconciles /\ AllocationsCovered

\* A route in the store of the relay, and one that set_route brought on the
\* chain, has the quorum of witnesses behind it.
RoutesWitnessed ==
  StoredRoutesWitnessed /\ (service = "routes" => PublishedRoutesWitnessed)

\* Answers of the gateways hold: verified ones at the slot they name, cached
\* ones no longer than the cache may keep them, those of the demo gateway with
\* the confidence that its upstreams give, and sites by the name's own records.
AnswersHold == VerifiedAtSlot /\ CacheLifeBounded /\ AnswersHonest /\ SitesFromRecords

\* Signing in to the coordinator takes an answer to a challenge in its life, and
\* a challenge that opened a session opens others only for the answers that were
\* already waiting for the passport contract; to the toll booth, each claim
\* takes a challenge of its own.
SignInsProven == SessionsProven /\ SessionsCrossed /\ ChallengesUsedOnce

\* What the booth keeps in its files and answers agrees with the chain, but for
\* the files written without a transaction that succeeded.
BoothTellsTruth == PassportFilesProven /\ RouteFilesBacked

\* Points are those of the events, and the events happened.
PointsEarned == PointsReconcile /\ ActionPointsEarned

\* What a service recorded for a domain is not taken back by a slower request.
RecordsSurvive == StoredFlagsSurvive /\ SignalsNeverGoBack

\* The evidence behind a cache head and behind a receipt is kept.
EvidenceKept == (service = "rollup" => HeadRootOfKept) /\ ReceiptsKept
=============================================================================
