------------------------- MODULE RecursiveResolver -------------------------
(***************************************************************************)
(* The gateway's recursive resolver for ICANN names: one cache in memory,  *)
(* saved to a file, and refreshes that ask all upstreams and are shared by *)
(* the requests that wait for the same name and type                       *)
(* (gateway/src/adapters/recursive.ts).                                    *)
(*                                                                         *)
(* A request runs to its first await in one step (Request).  When the      *)
(* promise of a refresh settles, the code after it, the removal from       *)
(* inFlight and the answers of all requests that wait for it run as        *)
(* consecutive microtasks, between which no other request can start: one   *)
(* step (Settle).  Time is in seconds, as nowS() has it.                   *)
(*                                                                         *)
(* truth and trueAt are the world outside: what an upstream that does not  *)
(* lie says of a name, and when it last said so.  answers holds the answers given in    *)
(* the last step, for the properties.                                      *)
(***************************************************************************)
EXTENDS Integers, FiniteSets

-----------------------------------------------------------------------------
(***************************************************************************)
(* How the gateway's recursive resolver makes one answer of the replies of *)
(* its DNS-over-HTTPS upstreams: selectBest of                             *)
(* gateway/src/adapters/recursive.ts, as an operator.                      *)
(*                                                                         *)
(* selectBest takes the fastest of the upstreams it considers.  How fast   *)
(* each one is is left open, so the operator is the set of the answers it  *)
(* may give; it is empty when selectBest throws UPSTREAM_FAILED.           *)
(***************************************************************************)

CONSTANTS
  N,            \* the number of upstreams, in their configured order
  QuorumMin,
  OverlapNum, OverlapDen, \* the overlap ratio wanted of two address sets
  TtlCap, MediumTtlCap, LowTtlCap,
  Targets,      \* names an alias chain may end in
  Addresses,
  Ttls          \* the TTLs upstreams send

Upstreams == 1..N

ASSUME SelectionAssumption ==
  /\ N \in Nat \ {0} /\ QuorumMin \in Nat \ {0}
  /\ OverlapNum \in Nat /\ OverlapDen \in Nat \ {0}
  /\ TtlCap \in Nat \ {0} /\ MediumTtlCap \in Nat \ {0}
  /\ LowTtlCap \in Nat \ {0}
  /\ Ttls \subseteq Nat \ {0}
  /\ IsFiniteSet(Addresses)

\* A reply after normalizeAndExtract: the name the alias chain ends in and the
\* addresses found there.  NOERROR without addresses is a name without
\* records of the type.  A timeout, a refusal or a reply that is not JSON is
\* an ERROR.
Record == [status : {"NOERROR"}, target : Targets, ips : SUBSET Addresses]
NoRecord(status) == [status |-> status, target |-> "none", ips |-> {}]
Verdict == Record \cup {NoRecord("NXDOMAIN"), NoRecord("ERROR")}
Reply == [verdict : Verdict, ttl : Ttls]

Successful(rs) ==
  {u \in Upstreams : rs[u].verdict.status = "NOERROR" /\ rs[u].verdict.ips # {}}
Denying(rs) == {u \in Upstreams : rs[u].verdict.status = "NXDOMAIN"}

\* The upstreams whose rrset hash is that of u.
Agreeing(rs, u) == {v \in Successful(rs) : rs[v].verdict = rs[u].verdict}

\* The largest group; of two as large, the one that comes first.
StrongestMut(rs) == Successful(rs)
Strongest(rs) ==
  LET first == CHOOSE u \in Successful(rs) :
        \A v \in Successful(rs) :
          LET nu == Cardinality(Agreeing(rs, u))
              nv == Cardinality(Agreeing(rs, v))
          IN  nu > nv \/ (nu = nv /\ u <= v)
  IN  Agreeing(rs, first)

SmallerOf(m, n) == IF m < n THEN m ELSE n

Overlap(A, B) ==
  LET shared == Cardinality(A \cap B) IN
  \/ shared > 0
  \/ shared * OverlapDen >=
       OverlapNum * SmallerOf(Cardinality(A), Cardinality(B))
Overlapping(rs) ==
  {u \in Successful(rs) :
     \E v \in Successful(rs) \ {u} : Overlap(rs[u].verdict.ips, rs[v].verdict.ips)}

\* The upstreams whose TTL is the least of those considered.
Shortest(rs, considered) ==
  {u \in considered : \A v \in considered : rs[u].ttl <= rs[v].ttl}

CutMut(ttl, cap) == ttl
Cut(ttl, cap) == SmallerOf(ttl, cap)

\* The answers of which one is given: that of any upstream considered, for as
\* long as the least of the TTLs and the cap.
AnswersOf(rs, considered, confidence, cap) ==
  {[verdict |-> rs[u].verdict, confidence |-> confidence, ttl |-> Cut(rs[v].ttl, cap)] :
     u \in considered, v \in Shortest(rs, considered)}

\* The name does not exist, which is kept for the lowest of the caps.
Denial(rs) ==
  [verdict |-> NoRecord("NXDOMAIN"), ttl |-> LowTtlCap,
   confidence |-> IF Cardinality(Denying(rs)) >= QuorumMin THEN "medium"
                  ELSE "low"]

Selections(rs) ==
  LET agreed == Cardinality(Strongest(rs)) >= QuorumMin
      medium == SmallerOf(TtlCap, MediumTtlCap)
      low == SmallerOf(TtlCap, LowTtlCap)
  IN
  CASE Successful(rs) # {} /\ agreed ->
         AnswersOf(rs, Strongest(rs), "high", TtlCap)
    [] Successful(rs) # {} /\ ~agreed /\ Overlapping(rs) # {} ->
         AnswersOf(rs, Overlapping(rs), "medium", medium)
    [] Successful(rs) # {} /\ ~agreed /\ Overlapping(rs) = {} ->
         UNION {AnswersOf(rs, {u}, "low", low) : u \in Successful(rs)}
    [] Successful(rs) = {} /\ Denying(rs) # {} -> {Denial(rs)}
    [] OTHER -> {}

-----------------------------------------------------------------------------
(***************************************************************************)
(* The resolver.                                                           *)
(***************************************************************************)

CONSTANTS
  Keys,        \* name:type, the keys of the cache
  Requests,    \* names for concurrent calls of resolveRecursive
  Liars,       \* the upstreams that may say anything
  Truths,      \* what the others may say of a name
  StaleMaxS,   \* STALE_MAX_S; 0 means StaleDefault
  StaleDefault,
  PrefetchMin, PrefetchNum, PrefetchDen, \* max(5, ttl * prefetchFraction)
  CacheMaxEntries,
  FlightMax,   \* every upstream has answered or been aborted after this long
  MaxTime, MaxFaults, MaxChanges, \* bounds of the model
  Torn, None

ASSUME ResolverAssumption ==
  /\ Liars \subseteq Upstreams
  /\ Truths \subseteq Record \cup {NoRecord("NXDOMAIN")}
  /\ StaleMaxS \in Nat /\ StaleDefault \in Nat
  /\ PrefetchMin \in Nat /\ PrefetchNum \in Nat /\ PrefetchDen \in Nat \ {0}
  /\ CacheMaxEntries \in Nat \ {0} /\ FlightMax \in Nat
  /\ MaxTime \in Nat /\ MaxFaults \in Nat /\ MaxChanges \in Nat

VARIABLES
  now, truth, trueAt, changes, \* the world
  up, faults,                  \* the process, and what has gone wrong
  cache, order,    \* the Map: its entries, and which of them came first
  file,            \* the cache file
  flights,         \* the refreshes that wait for upstreams
  inFlight,        \* the Map of shared refreshes, from keys to their ids
  waiting,         \* requests that await a refresh
  answers

world == <<now, truth, trueAt, changes>>
memory == <<cache, order, flights, inFlight, waiting>>
vars == <<world, up, faults, memory, file, answers>>

-----------------------------------------------------------------------------

ExpiresAt(e) == e.fetchedAt + e.ttl
StaleMax == IF StaleMaxS = 0 THEN StaleDefault ELSE StaleMaxS
StaleUntil(e) == ExpiresAt(e) + StaleMax

EmptyMap == [x \in {} |-> x]
Put(f, k, v) == [x \in DOMAIN f \cup {k} |-> IF x = k THEN v ELSE f[x]]
Without(f, S) == [x \in DOMAIN f \ S |-> f[x]]

Cached(k) == IF k \in DOMAIN cache THEN cache[k] ELSE None

Answer(source, k, e, ttl, cause) ==
  [source |-> source, key |-> k, entry |-> e, ttl |-> ttl, cause |-> cause]

\* Old answers keep what is left of their TTL, if anything.
LeftMut(e) == e.ttl
Left(e) == IF now < ExpiresAt(e) THEN ExpiresAt(e) - now ELSE 0

PrefetchThreshold(ttl) ==
  LET part == (ttl * PrefetchNum) \div PrefetchDen
  IN  IF part > PrefetchMin THEN part ELSE PrefetchMin

\* A refresh that no other one has the id of.
NewId == CHOOSE i \in 1..(Cardinality(flights) + 1) : \A f \in flights : f.id # i
StartFlight(k, fallback) ==
  /\ flights' = flights \cup
       {[id |-> NewId, key |-> k, start |-> now, fallback |-> fallback]}
  /\ inFlight' = Put(inFlight, k, NewId)

\* Near its expiry a cached answer is refreshed in the background, unless a
\* refresh is in flight; if that fails, the answer itself stands in.
NearExpiryMut(k) == Left(cache[k]) < PrefetchThreshold(cache[k].ttl)
NearExpiry(k) ==
  /\ Left(cache[k]) < PrefetchThreshold(cache[k].ttl)
  /\ k \notin DOMAIN inFlight

Hit(k) ==
  /\ k \in DOMAIN cache /\ now < ExpiresAt(cache[k])
  /\ answers' = {Answer("cache", k, cache[k], Left(cache[k]), "none")}
  /\ IF NearExpiry(k) THEN StartFlight(k, cache[k])
     ELSE UNCHANGED <<flights, inFlight>>
  /\ UNCHANGED waiting

\* The caller remembers the time and the old entry of now.
Miss(q, k) ==
  /\ k \in DOMAIN cache => now >= ExpiresAt(cache[k])
  /\ IF k \in DOMAIN inFlight THEN UNCHANGED <<flights, inFlight>>
     ELSE StartFlight(k, None)
  /\ waiting' = waiting \cup
       {[req |-> q, key |-> k, at |-> now, existing |-> Cached(k),
         flight |-> inFlight'[k]]}
  /\ answers' = {}

Request(q, k) ==
  /\ up /\ \A w \in waiting : w.req # q
  /\ Hit(k) \/ Miss(q, k)
  /\ UNCHANGED <<world, up, faults, cache, order, file>>

-----------------------------------------------------------------------------
(* A refresh.                                                              *)

\* An upstream that does not lie says what was true while it was asked, or
\* fails; each upstream has replied or failed when the refresh settles.
Seen(f) == {v \in Truths : trueAt[f.key][v] >= f.start}
Replies(H) ==
  {rs \in [Upstreams -> Reply] :
     \A u \in Upstreams \ Liars : rs[u].verdict \in H \cup {NoRecord("ERROR")}}

\* What selectBest makes of the replies, for each set of verdicts that were
\* true; and why it throws UPSTREAM_FAILED: an upstream failed, or each says
\* that there are no records.
Cause(rs) ==
  IF \E u \in Upstreams : rs[u].verdict.status = "ERROR" THEN "upstream" ELSE "empty"
Successes ==
  UNION {UNION {{[seen |-> H, sel |-> sel] : sel \in Selections(rs)} : rs \in Replies(H)} :
           H \in SUBSET Truths}
Failures ==
  UNION {{[seen |-> H, cause |-> Cause(rs)] : rs \in {r \in Replies(H) : Selections(r) = {}}} :
           H \in SUBSET Truths}

\* Map.set keeps the place of a key that is there; a new one comes last.
Insert(k) ==
  IF k \in DOMAIN cache THEN order ELSE Put(order, k, Cardinality(DOMAIN cache) + 1)

\* The oldest entries go, of two of the same second the one inserted first.
Older(c, o, j, k) ==
  \/ c[j].fetchedAt < c[k].fetchedAt
  \/ c[j].fetchedAt = c[k].fetchedAt /\ o[j] < o[k]
Before(c, o, k) == {j \in DOMAIN c : Older(c, o, j, k)}
Excess(c) == Cardinality(DOMAIN c) - CacheMaxEntries
EvictedMut(c, o) == {}
Evicted(c, o) == {k \in DOMAIN c : Cardinality(Before(c, o, k)) < Excess(c)}

\* The places of those that are left.
UpTo(o, S, k) == {j \in S : o[j] <= o[k]}
Places(o, S) == [k \in S |-> Cardinality(UpTo(o, S, k))]

Store(k, e) ==
  LET c == Put(cache, k, e)
      o == Insert(k)
      gone == Evicted(c, o)
  IN
  /\ cache' = Without(c, gone)
  /\ order' = Places(o, DOMAIN o \ gone)

\* The end of flight f for everybody who waits for it.
Land(f) ==
  /\ flights' = flights \ {f}
  /\ inFlight' = Without(inFlight, {f.key})
  /\ waiting' = {w \in waiting : w.flight # f.id}

\* What the waiting requests get when the refresh rejects: of a prefetch its
\* fallback; otherwise each its own old entry, judged by the time it came.
Rejected(f, cause) ==
  LET waiters == {w \in waiting : w.flight = f.id} IN
  IF f.fallback # None
  THEN {Answer("stale", f.key, f.fallback, Left(f.fallback), cause) : w \in waiters}
  ELSE {IF w.existing # None /\ w.at <= StaleUntil(w.existing)
        THEN Answer("stale", f.key, w.existing,  0, cause)
        ELSE Answer("error", f.key, None, 0, cause) : w \in waiters}

\* The upstreams agree enough; the entry is cached, evicts and is saved.
Refreshed(f, sel) ==
  LET e == [verdict |-> sel.verdict, confidence |-> sel.confidence,
            ttl |-> sel.ttl, fetchedAt |-> now]
      saved == [entries |-> cache', order |-> order']
      answered == {Answer("upstream", f.key, e, e.ttl, "none") :
                     w \in {w \in waiting : w.flight = f.id}}
  IN
  /\ Store(f.key, e)
  /\ Land(f)
  /\ UNCHANGED up
  /\ \/ file' = saved /\ answers' = answered /\ UNCHANGED faults
     \/ /\ faults < MaxFaults /\ faults' = faults + 1
        /\ file' \in {file, Torn} /\ answers' = Rejected(f, "write")

Failed(f, cause) ==
  /\ Land(f)
  /\ answers' = Rejected(f, cause)
  /\ UNCHANGED <<cache, order, file, up, faults>>

Settle(f) ==
  /\ up
  /\ \/ \E r \in Successes : r.seen = Seen(f) /\ Refreshed(f, r.sel)
     \/ \E r \in Failures : r.seen = Seen(f) /\ Failed(f, r.cause)
  /\ UNCHANGED world

-----------------------------------------------------------------------------
(* The process and the world.                                              *)

\* The process dies, perhaps in the middle of the write of a refresh.
Crash ==
  /\ up /\ faults < MaxFaults
  /\ up' = FALSE /\ faults' = faults + 1
  /\ file' \in IF flights = {} THEN {file} ELSE {file, Torn}
  /\ cache' = EmptyMap /\ order' = EmptyMap
  /\ flights' = {} /\ inFlight' = EmptyMap /\ waiting' = {} /\ answers' = {}
  /\ UNCHANGED world

\* loadCache: a file that does not parse is an empty cache.
Restart ==
  /\ ~up /\ up' = TRUE
  /\ cache' = IF file = Torn THEN EmptyMap ELSE file.entries
  /\ order' = IF file = Torn THEN EmptyMap ELSE file.order
  /\ answers' = {}
  /\ UNCHANGED <<world, faults, file, flights, inFlight, waiting>>

\* The abort timers end each refresh in time.
Tick ==
  /\ now < MaxTime /\ now' = now + 1
  /\ \A f \in flights : now < f.start + FlightMax
  /\ trueAt' = [k \in Keys |-> [trueAt[k] EXCEPT ![truth[k]] = now + 1]]
  /\ answers' = {}
  /\ UNCHANGED <<truth, changes, up, faults, memory, file>>

Change(k, v) ==
  /\ changes < MaxChanges /\ changes' = changes + 1
  /\ v # truth[k]
  /\ truth' = [truth EXCEPT ![k] = v]
  /\ trueAt' = [trueAt EXCEPT ![k][v] = now]
  /\ answers' = {}
  /\ UNCHANGED <<now, up, faults, memory, file>>

Never == -1
Init ==
  /\ now = 0 /\ changes = 0 /\ faults = 0 /\ up = TRUE
  /\ truth \in [Keys -> Truths]
  /\ trueAt = [k \in Keys |-> [v \in Truths |-> IF v = truth[k] THEN 0 ELSE Never]]
  /\ cache = EmptyMap /\ order = EmptyMap
  /\ file = [entries |-> EmptyMap, order |-> EmptyMap]
  /\ flights = {} /\ inFlight = EmptyMap /\ waiting = {} /\ answers = {}

Next ==
  \/ \E q \in Requests, k \in Keys : Request(q, k)
  \/ \E f \in flights : Settle(f)
  \/ Crash \/ Restart \/ Tick
  \/ \E k \in Keys, v \in Truths : Change(k, v)

Spec == Init /\ [][Next]_vars

\* A refresh ends because each of its fetches does, by its reply or by its
\* abort timer.
SettleOf(k) == \E f \in flights : f.key = k /\ Settle(f)
FairnessMut == TRUE
Fairness == \A k \in Keys : WF_vars(SettleOf(k))
FairSpec == Spec /\ Fairness

-----------------------------------------------------------------------------
(* Properties.                                                             *)

Entry == [verdict : Verdict, confidence : {"high", "medium", "low"},
          ttl : 1..TtlCap \cup {LowTtlCap}, fetchedAt : 0..MaxTime]

\* The variables of the resolver keep their types; the order of the Map gives
\* each of its keys a place of its own.
TypeOK ==
  /\ now \in 0..MaxTime /\ truth \in [Keys -> Truths]
  /\ trueAt \in [Keys -> [Truths -> Never..MaxTime]]
  /\ changes \in 0..MaxChanges /\ faults \in 0..MaxFaults /\ up \in BOOLEAN
  /\ DOMAIN cache \subseteq Keys /\ \A k \in DOMAIN cache : cache[k] \in Entry
  /\ order \in [DOMAIN cache -> 1..Cardinality(DOMAIN cache)]
  /\ \A j, k \in DOMAIN cache : order[j] = order[k] => j = k
  /\ DOMAIN inFlight \subseteq Keys
  /\ \A f \in flights : f.key \in Keys /\ f.fallback \in Entry \cup {None}
  /\ \A w \in waiting : w.req \in Requests /\ w.existing \in Entry \cup {None}

\* A refresh is shared: no key has two at a time, inFlight knows each one, and
\* whoever waits, waits for the refresh of the name and type it asked for,
\* which is still to come.  Prefetches (recursive.ts:470) and misses (497)
\* start refreshes and any of them may be joined.
RefreshIsShared ==
  /\ \A f \in flights : f.key \in DOMAIN inFlight /\ inFlight[f.key] = f.id
  /\ \A k \in DOMAIN inFlight : \E f \in flights : f.key = k
  /\ \A w \in waiting : \E f \in flights : f.id = w.flight /\ f.key = w.key

Served == {a \in answers : a.source # "error"}

\* An answer called "high" was true: with fewer liars than quorumMin, an
\* upstream that does not lie said it, and if it is not a stale one no client
\* keeps it for longer than the TTL cap after that, however long the answer
\* has been cached, saved and loaded again (selectBest, refresh, the cache hit).
HighIsTrue ==
  \A a \in Served :
    a.entry.confidence = "high" /\ Cardinality(Liars) < QuorumMin =>
      /\ a.entry.verdict \in Truths
      /\ trueAt[a.key][a.entry.verdict] >= a.entry.fetchedAt - FlightMax
      /\ a.source # "stale" =>
           now + a.ttl <= trueAt[a.key][a.entry.verdict] + FlightMax + TtlCap

\* However a request was answered, by a hit, by the refresh it joined or in
\* its place by an old entry, it got nothing older than staleUntil and one
\* refresh, and never a TTL beyond the expiry of the entry.
AgeBounded ==
  \A a \in Served :
    /\ now <= StaleUntil(a.entry) + FlightMax
    /\ a.ttl > 0 => now + a.ttl <= ExpiresAt(a.entry)

\* The cache keeps its limit, and what a refresh has just fetched for the
\* requests that wait is in it (evictIfNeeded).
CacheBounded ==
  /\ Cardinality(DOMAIN cache) <= CacheMaxEntries
  /\ \A a \in answers : a.source = "upstream" => Cached(a.key) = a.entry

\* A request that waits for a refresh is answered, or the process dies
\* (the abort timer of queryOneUpstream; the fallback of a prefetch).
Waits(q) == \E w \in waiting : w.req = q
EveryRequestEnds == \A q \in Requests : Waits(q) ~> ~Waits(q)

\* gateway/README.md says of STALE_MAX_S: "Serve expired cache for up to this
\* many seconds only on upstream error."
StaleOnlyOnUpstreamError ==
  \A a \in answers : a.source = "stale" => a.cause = "upstream"
=============================================================================
