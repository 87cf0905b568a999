---------------------------- MODULE HostingPlane ----------------------------
(* services/hosting-control-plane/src/index.js: a user connects a Cloudflare    *)
(* account by a token, picks a zone, proves a domain by a TXT record and its    *)
(* delegation, has DNS records written into the zone, and earns points for it.  *)
(* Handlers run to their first await without interruption; a verification and   *)
(* the record updates go on after it with the row of the connection they read   *)
(* before. Every save writes its file whole, through a temporary file.          *)
EXTENDS Naturals, Sequences, SequencesExt

CONSTANTS
    HpUsers,        \* users of the service
    HpConns,        \* connection ids a run can hand out
    HpTokens,       \* Cloudflare tokens the users hold
    HpZones,        \* zones those tokens may see
    HpDomains,      \* domains
    HpTxts,         \* verification values a run can draw
    HpKeys,         \* keys the service may be started with
    HpInstalls,     \* install ids a web host may report
    HpRecordKinds,  \* the records an action writes for a domain: apex, www, ns
    HpMaxInFlight,  \* requests waiting for DNS or Cloudflare at a time
    HpMaxStates,    \* OAuth states kept at a time
    HpNone          \* no key, no zone, no domain, no install id

VARIABLES
    hpConns,        \* the connections, as in memory and in their file
    hpTokens,       \* the tokens in memory
    hpTokenFile,    \* the file of encrypted tokens: the key and the tokens
    hpKey,          \* the key of the running service, CF_TOKEN_STORE_KEY
    hpOauth,        \* number of OAuth states kept, by age: fresh and expired
    hpEvents,       \* the points events, as in memory and in their file
    hpPaidKeys,     \* the idempotency keys used
    hpTotals,       \* the points of each user
    hpByDomain,     \* the points of each user for each domain
    hpJobs,         \* the requests waiting for an answer
    hpZoneRecords   \* Cloudflare: the number of records of each kind in a zone

hpVars == <<hpConns, hpTokens, hpTokenFile, hpKey, hpOauth, hpEvents, hpPaidKeys,
            hpTotals, hpByDomain, hpJobs, hpZoneRecords>>

hpPoints == <<hpEvents, hpPaidKeys, hpTotals, hpByDomain>>

HpInit ==
    /\ hpConns = [c \in {} |-> HpNone]
    /\ hpTokens = {}
    /\ hpTokenFile = [key |-> HpNone, tokens |-> {}]
    /\ hpKey \in HpKeys
    /\ hpOauth = [fresh |-> 0, expired |-> 0]
    /\ hpEvents = << >>
    /\ hpPaidKeys = {}
    /\ hpTotals = [u \in HpUsers |-> 0]
    /\ hpByDomain = [u \in HpUsers |-> [d \in HpDomains |-> 0]]
    /\ hpJobs = {}
    /\ hpZoneRecords = [z \in HpZones |-> [r \in HpDomains \X HpRecordKinds |-> 0]]

-----------------------------------------------------------------------------
(* Points. *)

PointsFor(reason) ==
    CASE reason = "install" -> 250 [] reason = "ns_verified" -> 120
      [] reason = "dns_actions" -> 80 [] reason = "worker_template" -> 20

(* addPoints: a grant whose key was used is refused. *)
GrantsOf(asked) == IF asked \in hpPaidKeys THEN << >> ELSE <<asked>>

PointsOf(grants, user, domains) ==
    SumFunction([i \in DOMAIN grants |->
                   IF grants[i].user = user /\ grants[i].domain \in domains
                   THEN PointsFor(grants[i].reason) ELSE 0])

AddPoints(grants) ==
    /\ hpEvents' = hpEvents \o grants
    /\ hpPaidKeys' = hpPaidKeys \cup ToSet(grants)
    /\ hpTotals' = [u \in HpUsers |-> hpTotals[u] + PointsOf(grants, u, HpDomains)]
    /\ hpByDomain' = [u \in HpUsers |-> [d \in HpDomains |->
                        hpByDomain[u][d] + PointsOf(grants, u, {d})]]

Grant(user, domain, reason, install) ==
    [user |-> user, domain |-> domain, reason |-> reason, install |-> install]

-----------------------------------------------------------------------------
(* Connections. *)

(* persistTokenSecrets: without a key nothing can be encrypted, and the file is *)
(* written with no token.                                                       *)
TokenFileOf(tokens) ==
    [key |-> hpKey, tokens |-> IF hpKey = HpNone THEN {} ELSE tokens]

SaveConnection(c, row, tokens) ==
    /\ hpConns' = [x \in DOMAIN hpConns \cup {c} |-> IF x = c THEN row ELSE hpConns[x]]
    /\ hpTokens' = tokens
    /\ hpTokenFile' = TokenFileOf(tokens)

(* GET /v1/cloudflare/oauth/start: old states are dropped before a new one is kept. *)
OauthStart ==
    /\ hpOauth.fresh < HpMaxStates
    /\ hpOauth' = [fresh |-> hpOauth.fresh + 1, expired |-> 0]
    /\ UNCHANGED <<hpConns, hpTokens, hpTokenFile, hpKey, hpPoints, hpJobs, hpZoneRecords>>

(* Ten minutes later a state is past its time; it stays until the next start. *)
OauthExpires ==
    /\ hpOauth.fresh > 0
    /\ hpOauth.expired < HpMaxStates
    /\ hpOauth' = [fresh |-> hpOauth.fresh - 1, expired |-> hpOauth.expired + 1]
    /\ UNCHANGED <<hpConns, hpTokens, hpTokenFile, hpKey, hpPoints, hpJobs, hpZoneRecords>>

(* POST /v1/cloudflare/connect. *)
Connect(c, user, token) ==
    /\ c \notin DOMAIN hpConns
    /\ SaveConnection(c, [user |-> user, zone |-> HpNone, domain |-> HpNone, token |-> token,
                          verified |-> FALSE, txt |-> HpNone],
                      hpTokens \cup {token})
    /\ UNCHANGED <<hpKey, hpOauth, hpPoints, hpJobs, hpZoneRecords>>

(* POST .../zone. *)
SelectZone(c, zone) ==
    /\ c \in DOMAIN hpConns
    /\ SaveConnection(c, [hpConns[c] EXCEPT !.zone = zone], hpTokens)
    /\ UNCHANGED <<hpKey, hpOauth, hpPoints, hpJobs, hpZoneRecords>>

(* The domain of a request: the one it names, or the one of the connection. *)
DomainOf(asked, c) == IF asked # HpNone THEN asked ELSE hpConns[c].domain

(* Requests in flight are told apart by a number, since two may be alike. *)
FreeIds == (1..HpMaxInFlight) \ {job.id : job \in hpJobs}

(* POST .../verify-domain, to the DNS queries: the row and the value that will  *)
(* be looked for are those of now.                                              *)
VerifyStart(c, asked, drawn) ==
    /\ c \in DOMAIN hpConns
    /\ DomainOf(asked, c) # HpNone
    /\ FreeIds # {}
    /\ hpJobs' = hpJobs \cup
         {[id |-> Min(FreeIds), kind |-> "verify", conn |-> c, row |-> hpConns[c], domain |-> DomainOf(asked, c),
           txt |-> IF hpConns[c].txt # HpNone THEN hpConns[c].txt ELSE drawn]}
    /\ UNCHANGED <<hpConns, hpTokens, hpTokenFile, hpKey, hpOauth, hpPoints, hpZoneRecords>>

(* The answers: the row read before the queries is written back with the result, *)
(* and a domain found verified earns its points once.                            *)
VerifyEnd(job, txtPresent, delegated) ==
    /\ job \in hpJobs
    /\ job.kind = "verify"
    /\ LET verified == txtPresent /\ delegated IN
       /\ SaveConnection(job.conn,
            [job.row EXCEPT !.domain = job.domain, !.txt = job.txt, !.verified = @ \/ verified],
            hpTokens)
       /\ AddPoints(IF verified
                    THEN GrantsOf(Grant(job.row.user, job.domain, "ns_verified", HpNone))
                    ELSE << >>)
    /\ hpJobs' = hpJobs \ {job}
    /\ UNCHANGED <<hpKey, hpOauth, hpZoneRecords>>

-----------------------------------------------------------------------------
(* DNS actions. *)

(* readConnectionToken: the token of the request's header, or the one kept. *)
TokenKnown(c, header) == header \/ hpConns[c].token \in hpTokens

(* POST .../actions, to the first Cloudflare call. *)
ActionsStart(c, asked, header, worker) ==
    /\ c \in DOMAIN hpConns
    /\ hpConns[c].zone # HpNone
    /\ DomainOf(asked, c) # HpNone
    /\ TokenKnown(c, header)
    /\ FreeIds # {}
    /\ hpJobs' = hpJobs \cup
         {[id |-> Min(FreeIds), kind |-> "actions", conn |-> c, row |-> hpConns[c], domain |-> DomainOf(asked, c),
           worker |-> worker, steps |-> [r \in HpRecordKinds |-> "look"]]}
    /\ UNCHANGED <<hpConns, hpTokens, hpTokenFile, hpKey, hpOauth, hpPoints, hpZoneRecords>>

(* upsertDnsRecord, first half: whether the zone has a record of the name and type. *)
LookUp(job, r) ==
    /\ job \in hpJobs
    /\ job.kind = "actions"
    /\ job.steps[r] = "look"
    /\ LET found == hpZoneRecords[job.row.zone][<<job.domain, r>>] > 0 IN
       hpJobs' = (hpJobs \ {job}) \cup {[job EXCEPT !.steps[r] = IF found THEN "put" ELSE "post"]}
    /\ UNCHANGED <<hpConns, hpTokens, hpTokenFile, hpKey, hpOauth, hpPoints, hpZoneRecords>>

(* upsertDnsRecord, second half: the record found is replaced, or one is added. *)
WriteRecord(job, r) ==
    /\ job \in hpJobs
    /\ job.kind = "actions"
    /\ job.steps[r] \in {"put", "post"}
    /\ hpJobs' = (hpJobs \ {job}) \cup {[job EXCEPT !.steps[r] = "done"]}
    /\ hpZoneRecords' = IF job.steps[r] = "put" THEN hpZoneRecords
                        ELSE [hpZoneRecords EXCEPT ![job.row.zone][<<job.domain, r>>] = @ + 1]
    /\ UNCHANGED <<hpConns, hpTokens, hpTokenFile, hpKey, hpOauth, hpPoints>>

(* A Cloudflare call that fails answers the whole request at once; the other  *)
(* updates go on and may still write their record, with nobody waiting.       *)
CallFails(job, r) ==
    /\ job \in hpJobs
    /\ job.kind = "actions"
    /\ job.steps[r] \notin {"done", "failed"}
    /\ hpJobs' = (hpJobs \ {job}) \cup {[job EXCEPT !.steps[r] = "failed"]}
    /\ UNCHANGED <<hpConns, hpTokens, hpTokenFile, hpKey, hpOauth, hpPoints, hpZoneRecords>>

(* All settled: only when every record was written are the points given. *)
ActionsEnd(job) ==
    /\ job \in hpJobs
    /\ job.kind = "actions"
    /\ \A r \in HpRecordKinds : job.steps[r] \in {"done", "failed"}
    /\ hpJobs' = hpJobs \ {job}
    /\ AddPoints(
         IF \E r \in HpRecordKinds : job.steps[r] = "failed" THEN << >>
         ELSE GrantsOf(Grant(job.row.user, job.domain, "dns_actions", HpNone)) \o
              (IF job.worker
               THEN GrantsOf(Grant(job.row.user, job.domain, "worker_template", HpNone))
               ELSE << >>))
    /\ UNCHANGED <<hpConns, hpTokens, hpTokenFile, hpKey, hpOauth, hpZoneRecords>>

(* POST /v1/points/install: the user and the domain of the request. *)
PointsInstall(user, domain, install) ==
    /\ AddPoints(GrantsOf(Grant(user, domain, "install", install)))
    /\ UNCHANGED <<hpConns, hpTokens, hpTokenFile, hpKey, hpOauth, hpJobs, hpZoneRecords>>

(* (For the mutation check: the idempotency keys are not read back.) *)
HpRestartMut(key) ==
    /\ hpKey' = key
    /\ hpTokens' = IF key # HpNone /\ key = hpTokenFile.key THEN hpTokenFile.tokens ELSE {}
    /\ hpOauth' = [fresh |-> 0, expired |-> 0]
    /\ hpJobs' = {}
    /\ hpPaidKeys' = {}
    /\ UNCHANGED <<hpConns, hpTokenFile, hpEvents, hpTotals, hpByDomain, hpZoneRecords>>

(* The process stops and starts again, maybe with another key: the requests and *)
(* the OAuth states are gone, and a token is back only if its file opens.       *)
HpRestart(key) ==
    /\ hpKey' = key
    /\ hpTokens' = IF key # HpNone /\ key = hpTokenFile.key THEN hpTokenFile.tokens ELSE {}
    /\ hpOauth' = [fresh |-> 0, expired |-> 0]
    /\ hpJobs' = {}
    /\ UNCHANGED <<hpConns, hpTokenFile, hpPoints, hpZoneRecords>>

HpNext ==
    \/ OauthStart
    \/ OauthExpires
    \/ \E c \in HpConns :
         \/ \E u \in HpUsers, t \in HpTokens : Connect(c, u, t)
         \/ \E z \in HpZones : SelectZone(c, z)
         \/ \E d \in HpDomains \cup {HpNone}, t \in HpTxts : VerifyStart(c, d, t)
         \/ \E d \in HpDomains \cup {HpNone}, h, w \in BOOLEAN : ActionsStart(c, d, h, w)
    \/ \E job \in hpJobs :
         \/ \E txt, ns \in BOOLEAN : VerifyEnd(job, txt, ns)
         \/ \E r \in HpRecordKinds : LookUp(job, r) \/ WriteRecord(job, r) \/ CallFails(job, r)
         \/ ActionsEnd(job)
    \/ \E u \in HpUsers, d \in HpDomains, i \in HpInstalls \cup {HpNone} : PointsInstall(u, d, i)
    \/ \E key \in HpKeys : HpRestart(key)

-----------------------------------------------------------------------------
(* The points a user has, in all and for a domain, are those of the events in   *)
(* the log, and no deed earned twice: whatever requests cross and however often *)
(* the service restarts.                                                        *)
PointsReconcile ==
    /\ \A u \in HpUsers :
         /\ hpTotals[u] = PointsOf(hpEvents, u, HpDomains)
         /\ \A d \in HpDomains : hpByDomain[u][d] = PointsOf(hpEvents, u, {d})
    /\ IsInjective(hpEvents)

(* Points for DNS records come only when a zone holds at least one record of   *)
(* each kind for the domain: an action that failed half-way earns nothing,      *)
(* whatever order its calls end in.                                            *)
ActionPointsEarned ==
    \A i \in DOMAIN hpEvents :
        hpEvents[i].reason \in {"dns_actions", "worker_template"} =>
            \E z \in HpZones : \A r \in HpRecordKinds :
                hpZoneRecords[z][<<hpEvents[i].domain, r>>] > 0
=============================================================================
