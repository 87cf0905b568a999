----------------------------- MODULE DemoGateway -----------------------------
(* services/cf-demo-gateway/src/index.ts: the public resolver run as a          *)
(* Cloudflare worker, and the page it serves. A request for a name not in the   *)
(* cache of the worker asks every upstream at once, waits for all of them or    *)
(* for the time limit, weighs the answers and caches the result with the TTL it *)
(* chose. Requests run side by side, also for the same name: the worker has no  *)
(* table of the lookups under way.                                              *)
EXTENDS Naturals, Sequences, SequencesExt

CONSTANTS
    DgUpstreams,    \* the upstream resolvers, in the order of UPSTREAMS: a sequence
    DgNames,        \* names that are not under .dns
    DgAddresses,    \* addresses an upstream may answer with
    DgUnparsed,     \* those of them the wire encoder cannot parse
    DgTtls,         \* TTLs of an upstream's answer
    DgZeroTtl,      \* 60 seconds: what a TTL of 0, or none, is taken for
    DgTimeout,      \* TIMEOUT_MS
    DgTtlCap,       \* TTL_CAP_S
    DgMediumCap,    \* 120 seconds
    DgLowCap,       \* 30 seconds: also the life of an answer with no record
    DgThreshold,    \* OVERLAP_RATIO in hundredths
    DgMaxInFlight, DgMaxPage, DgMaxNow

ASSUME DgAssumption ==
    /\ IsFiniteSet(DOMAIN DgUpstreams)
    /\ DgTtls \subseteq Nat /\ DgZeroTtl \in Nat \ {0}
    /\ DgTimeout \in Nat /\ DgTtlCap \in Nat
    /\ DgMediumCap \in Nat /\ DgLowCap \in Nat \ {0}

VARIABLES
    dgNow,          \* time
    dgJobs,         \* the lookups under way
    dgCache,        \* Cloudflare's cache: the payload kept for each name, or none
    dgAnswer,       \* the answer just given, over JSON or DNS
    dgPage          \* the demo page: the name typed, the requests sent, what it shows

dgVars == <<dgNow, dgJobs, dgCache, dgAnswer, dgPage>>

DgUncached == [kind |-> "uncached"]
DgNothing == [kind |-> "nothing"]
DgWaiting == [status |-> "waiting", data |-> {}, ttl |-> 1, at |-> 0]
DgFailed(t) == [status |-> "SERVFAIL", data |-> {}, ttl |-> 1, at |-> t]

DgIndexes == DOMAIN DgUpstreams

DgInit ==
    /\ dgNow = 0
    /\ dgJobs = {}
    /\ dgCache = [n \in DgNames |-> DgUncached]
    /\ dgAnswer = DgNothing
    /\ dgPage = [name |-> "", sent |-> {}, shown |-> DgNothing]

-----------------------------------------------------------------------------
(* Weighing the upstreams' answers: resolveName after Promise.all. *)

(* The answers that count, by position. *)
ValidHits(hits) == {i \in DgIndexes : hits[i].status = "NOERROR" /\ hits[i].data # {}}

(* The hits with the record set of hit i: the same hash. *)
SameSet(hits, i) == {j \in ValidHits(hits) : hits[j].data = hits[i].data}

(* The largest group; of equal ones, the one seen first. *)
LargestGroup(hits) ==
    LET valid == ValidHits(hits)
        size == Max({Cardinality(SameSet(hits, i)) : i \in valid})
    IN  SameSet(hits, Min({i \in valid : Cardinality(SameSet(hits, i)) = size}))

(* overlapRatio of two record sets reaches the threshold. *)
OverlapReached(left, right) ==
    100 * Cardinality(left \cap right)
        >= DgThreshold * Min({Cardinality(left), Cardinality(right)})

ConfidenceOf(hits) ==
    LET valid == ValidHits(hits)
        first == Min(valid)
    IN  CASE Cardinality(LargestGroup(hits)) >= 2 -> "high"
          [] Cardinality(LargestGroup(hits)) < 2 /\ Cardinality(valid) >= 2 ->
               IF OverlapReached(hits[first].data, hits[Min(valid \ {first})].data)
               THEN "medium" ELSE "low"
          [] OTHER -> "low"

ConfidenceCap(confidence) ==
    LET cap == Max({DgLowCap, DgTtlCap}) IN
    CASE confidence = "high" -> cap
      [] confidence = "medium" -> Min({cap, DgMediumCap})
      [] OTHER -> DgLowCap

Payload(name, hits, status, data, confidence, ttl) ==
    [kind |-> "payload", name |-> name, hits |-> hits, hit |-> FALSE, cachedAt |-> dgNow,
     age |-> 0, status |-> status, data |-> data, confidence |-> confidence, ttl |-> ttl]

(* The payload of a lookup; `fastest` is the member of the chosen group that was *)
(* the quickest to answer.                                                       *)
PayloadOf(name, hits, fastest) ==
    LET confidence == ConfidenceOf(hits)
        refused == {i \in DgIndexes : hits[i].status = "NXDOMAIN"}
    IN
    CASE ValidHits(hits) # {} ->
           Payload(name, hits, "NOERROR", hits[fastest].data, confidence,
                   Max({1, Min({hits[fastest].ttl, ConfidenceCap(confidence)})}))
      [] ValidHits(hits) = {} /\ refused # {} ->
           Payload(name, hits, "NXDOMAIN", {},
                   IF Cardinality(refused) >= 2 THEN "medium" ELSE "low", DgLowCap)
      [] OTHER -> Payload(name, hits, "SERVFAIL", {}, "low", DgLowCap)

FastestOf(hits) == IF ValidHits(hits) # {} THEN LargestGroup(hits) ELSE {1}

-----------------------------------------------------------------------------
(* Requests. *)

DgFresh(entry) == entry.kind = "payload"

(* What a client of each path gets: the JSON answer, or the DNS message, whose  *)
(* response code stands for the status and which drops what it cannot encode.   *)
DgAnswered(payload, wire) ==
    [payload EXCEPT !.kind = IF wire THEN "wire" ELSE "json",
                    !.data = IF wire THEN @ \ DgUnparsed ELSE @]

(* GET /v1/resolve and /dns-query for a name of the cache; `asked` is the page's *)
(* request, or none.                                                             *)
ServeCached(name, wire) ==
    /\ DgFresh(dgCache[name])
    /\ dgAnswer' = DgAnswered([dgCache[name] EXCEPT !.hit = TRUE,
                                                    !.age = dgNow - dgCache[name].cachedAt], wire)
    /\ UNCHANGED <<dgNow, dgJobs, dgCache, dgPage>>

(* A name under .dns is answered with NXDOMAIN, a type other than A and AAAA with *)
(* "not implemented", a message that does not parse with an error: nothing is asked. *)
RefuseUnsupported(status) ==
    /\ dgAnswer' = [kind |-> "refused", status |-> status]
    /\ UNCHANGED <<dgNow, dgJobs, dgCache, dgPage>>

(* The cache has nothing: every upstream is asked. *)
LookupStart(name, wire) ==
    /\ ~DgFresh(dgCache[name])
    /\ Cardinality(dgJobs) < DgMaxInFlight
    /\ dgJobs' = dgJobs \cup
         {[id |-> Min((1..DgMaxInFlight) \ {job.id : job \in dgJobs}), name |-> name,
           wire |-> wire, since |-> dgNow, hits |-> [i \in DgIndexes |-> DgWaiting]]}
    /\ dgAnswer' = DgNothing
    /\ UNCHANGED <<dgNow, dgCache, dgPage>>

(* queryUpstream: an upstream answers with records, with NXDOMAIN, or with a    *)
(* failure, which stands for every other status and for the time limit.         *)
UpstreamAnswers(job, i, status, data, ttl) ==
    /\ job \in dgJobs
    /\ job.hits[i].status = "waiting"
    /\ status # "NOERROR" => data = {}
    /\ dgJobs' = (dgJobs \ {job}) \cup
         {[job EXCEPT !.hits[i] =
             [status |-> status, data |-> data, at |-> dgNow,
              ttl |-> CASE status = "SERVFAIL" -> 1
                        [] status = "NXDOMAIN" \/ data = {} -> DgLowCap
                        [] status = "NOERROR" /\ data # {} /\ ttl = 0 -> DgZeroTtl
                        [] OTHER -> ttl]]}
    /\ dgAnswer' = DgNothing
    /\ UNCHANGED <<dgNow, dgCache, dgPage>>

UpstreamTimesOut(job, i) ==
    /\ job \in dgJobs
    /\ job.hits[i].status = "waiting"
    /\ dgNow >= job.since + DgTimeout
    /\ dgJobs' = (dgJobs \ {job}) \cup {[job EXCEPT !.hits[i] = DgFailed(dgNow)]}
    /\ dgAnswer' = DgNothing
    /\ UNCHANGED <<dgNow, dgCache, dgPage>>

(* Every upstream has answered: the result is cached, whatever the cache holds  *)
(* by now, and the client is answered.                                          *)
LookupEnd(job, fastest) ==
    /\ job \in dgJobs
    /\ \A i \in DgIndexes : job.hits[i].status # "waiting"
    /\ fastest \in FastestOf(job.hits)
    /\ LET payload == PayloadOf(job.name, job.hits, fastest) IN
       /\ dgCache' = [dgCache EXCEPT ![job.name] = payload]
       /\ dgAnswer' = DgAnswered(payload, job.wire)
    /\ dgJobs' = dgJobs \ {job}
    /\ UNCHANGED <<dgNow, dgPage>>

(* Cloudflare may drop what it caches at any time. *)
CacheEvicts(name) ==
    /\ dgCache[name].kind = "payload"
    /\ dgCache' = [dgCache EXCEPT ![name] = DgUncached]
    /\ dgAnswer' = DgNothing
    /\ UNCHANGED <<dgNow, dgJobs, dgPage>>

(* Time passes, but no upstream is waited for past its limit, and a lookup that *)
(* has all its answers ends before. What is past its life leaves the cache.     *)
DgTick ==
    /\ dgNow < DgMaxNow
    /\ \A job \in dgJobs :
         dgNow < job.since + DgTimeout /\ \E i \in DgIndexes : job.hits[i].status = "waiting"
    /\ dgNow' = dgNow + 1
    /\ dgCache' = [n \in DgNames |->
                      IF dgCache[n].kind = "payload" /\ dgNow' >= dgCache[n].cachedAt + dgCache[n].ttl
                      THEN DgUncached ELSE dgCache[n]]
    /\ dgAnswer' = DgNothing
    /\ UNCHANGED <<dgJobs, dgPage>>

-----------------------------------------------------------------------------
(* The page. *)

(* updateShare and runResolve: the name typed is asked for; a request under way *)
(* is not given up.                                                             *)
PageAsks(name) ==
    /\ Cardinality(dgPage.sent) < DgMaxPage
    /\ dgPage' = [dgPage EXCEPT !.name = name, !.sent = @ \cup {name}]
    /\ dgAnswer' = DgNothing
    /\ UNCHANGED <<dgNow, dgJobs, dgCache>>

(* The answer to a request of the page is shown when it comes, in whatever      *)
(* order; the name in the field may be another by then.                         *)
PageShows(name) ==
    /\ name \in dgPage.sent
    /\ dgAnswer.kind = "json"
    /\ dgAnswer.name = name
    /\ dgPage' = [dgPage EXCEPT !.sent = @ \ {name}, !.shown = name]
    /\ UNCHANGED <<dgNow, dgJobs, dgCache, dgAnswer>>

DgNext ==
    \/ \E n \in DgNames, wire \in BOOLEAN : ServeCached(n, wire) \/ LookupStart(n, wire)
    \/ \E status \in {"NXDOMAIN", "NOTIMP", "invalid"} : RefuseUnsupported(status)
    \/ \E job \in dgJobs :
         \/ \E i \in DgIndexes, status \in {"NOERROR", "NXDOMAIN", "SERVFAIL"},
               data \in SUBSET DgAddresses, ttl \in DgTtls :
              UpstreamAnswers(job, i, status, data, ttl)
         \/ \E i \in DgIndexes : UpstreamTimesOut(job, i)
         \/ \E fastest \in DgIndexes : LookupEnd(job, fastest)
    \/ \E n \in DgNames : CacheEvicts(n) \/ PageAsks(n) \/ PageShows(n)
    \/ DgTick

-----------------------------------------------------------------------------
(* What a client is told is what upstreams said: the records of an answer are   *)
(* those of one of them, given no longer ago than their TTL (a TTL of 0 counts  *)
(* as a minute) and the time limit of the lookup together; "high" means that    *)
(* two of them gave the same records, and an answer with less than high         *)
(* confidence is not kept past its cap.                                         *)
AnswersHonest ==
    (dgAnswer.kind \in {"json", "wire"} /\ dgAnswer.status = "NOERROR") =>
        LET hits == dgAnswer.hits
            giving == {i \in DgIndexes : hits[i].status = "NOERROR"
                                          /\ dgAnswer.data \subseteq hits[i].data
                                          /\ hits[i].data \ dgAnswer.data \subseteq DgUnparsed}
        IN  /\ \E i \in giving : dgAnswer.cachedAt + dgAnswer.age
                                    <= hits[i].at + hits[i].ttl + DgTimeout
            /\ dgAnswer.confidence = "high" => Cardinality(giving) >= 2
            /\ dgAnswer.confidence = "medium" => dgAnswer.age <= DgMediumCap
            /\ dgAnswer.confidence = "low" => dgAnswer.age <= DgLowCap
=============================================================================
