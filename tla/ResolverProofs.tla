--------------------------- MODULE ResolverProofs ---------------------------
(***************************************************************************)
(* What the recursive resolver promises about its answers, proved for any  *)
(* number of upstreams, liars, names and requests: an answer called "high" *)
(* was true, answers have a bounded age, and refreshes are shared.         *)
(***************************************************************************)
EXTENDS RecursiveResolver, FiniteSetTheorems, TLAPS

-----------------------------------------------------------------------------
(* selectBest.                                                             *)

\* What selectBest returns has a positive TTL.
LEMMA CutPositive ==
  ASSUME NEW ttl \in Nat \ {0}, NEW cap \in Nat \ {0}
  PROVE  Cut(ttl, cap) \in Nat \ {0} /\ Cut(ttl, cap) <= cap
BY DEF Cut, SmallerOf

\* What it returns of a set of considered upstreams is the verdict of one.
LEMMA AnswersConsidered ==
  ASSUME NEW rs \in [Upstreams -> Reply], NEW S \in SUBSET Upstreams,
         NEW confidence, NEW cap \in Nat \ {0},
         NEW sel \in AnswersOf(rs, S, confidence, cap)
  PROVE  /\ sel.ttl \in Nat \ {0} /\ sel.ttl <= cap
         /\ sel.confidence = confidence
         /\ \E u \in S : sel.verdict = rs[u].verdict
<1>1. PICK u \in S, v \in Shortest(rs, S) :
        sel = [verdict |-> rs[u].verdict, confidence |-> confidence,
               ttl |-> Cut(rs[v].ttl, cap)]
  BY DEF AnswersOf
<1>2. rs[v].ttl \in Nat \ {0}
  BY SelectionAssumption DEF Shortest, Reply
<1>3. QED
  BY <1>1, <1>2, CutPositive

\* An answer with high confidence is that of quorumMin upstreams and is kept
\* no longer than the TTL cap.
LEMMA HighIsQuorum ==
  ASSUME NEW rs \in [Upstreams -> Reply], NEW sel \in Selections(rs)
  PROVE  /\ sel.ttl \in Nat \ {0}
         /\ sel.confidence = "high" =>
              /\ sel.ttl <= TtlCap
              /\ Cardinality(Strongest(rs)) >= QuorumMin
              /\ \A u \in Strongest(rs) : sel.verdict = rs[u].verdict
<1> DEFINE agreed == Cardinality(Strongest(rs)) >= QuorumMin
           medium == SmallerOf(TtlCap, MediumTtlCap)
           low == SmallerOf(TtlCap, LowTtlCap)
<1>1. medium \in Nat \ {0} /\ low \in Nat \ {0} /\ TtlCap \in Nat \ {0}
  BY SelectionAssumption DEF SmallerOf
<1>2. /\ Successful(rs) \subseteq Upstreams /\ Strongest(rs) \subseteq Upstreams
      /\ Overlapping(rs) \subseteq Upstreams
  BY DEF Successful, Strongest, Agreeing, Overlapping
<1>3. CASE Successful(rs) # {} /\ agreed
  <2>1. sel \in AnswersOf(rs, Strongest(rs), "high", TtlCap)
    BY <1>3 DEF Selections
  <2>2. PICK u \in Strongest(rs) : sel.verdict = rs[u].verdict
    BY <1>1, <1>2, <2>1, AnswersConsidered
  <2>3. \A v \in Strongest(rs) : rs[v].verdict = rs[u].verdict
    BY DEF Strongest, Agreeing
  <2>4. sel.ttl \in Nat \ {0} /\ sel.ttl <= TtlCap
    BY <1>1, <1>2, <2>1, AnswersConsidered
  <2>5. QED
    BY <1>3, <2>2, <2>3, <2>4
<1>4. CASE Successful(rs) # {} /\ ~agreed /\ Overlapping(rs) # {}
  <2>1. sel \in AnswersOf(rs, Overlapping(rs), "medium", medium)
    BY <1>4 DEF Selections
  <2>2. QED
    BY <1>1, <1>2, <2>1, AnswersConsidered
<1>5. CASE Successful(rs) # {} /\ ~agreed /\ Overlapping(rs) = {}
  <2>1. PICK u \in Successful(rs) : sel \in AnswersOf(rs, {u}, "low", low)
    BY <1>5 DEF Selections
  <2>2. {u} \in SUBSET Upstreams
    BY <1>2
  <2>3. QED
    BY <1>1, <2>1, <2>2, AnswersConsidered
<1>6. CASE Successful(rs) = {}
  <2>1. sel = Denial(rs)
    BY <1>6 DEF Selections
  <2>2. QED
    BY <2>1, SelectionAssumption DEF Denial
<1>7. QED
  BY <1>3, <1>4, <1>5, <1>6

\* Of quorumMin upstreams that agree, one does not lie, if the liars are fewer.
LEMMA QuorumHasHonest ==
  ASSUME NEW S \in SUBSET Upstreams, Cardinality(S) >= QuorumMin,
         Cardinality(Liars) < QuorumMin
  PROVE  \E u \in S : u \in Upstreams \ Liars
<1>1. IsFiniteSet(Upstreams)
  BY FS_Interval, SelectionAssumption DEF Upstreams
<1>2. IsFiniteSet(Liars) /\ Cardinality(Liars) \in Nat
  BY <1>1, FS_Subset, FS_CardinalityType, ResolverAssumption
<1>3. IsFiniteSet(S) /\ Cardinality(S) \in Nat
  BY <1>1, FS_Subset, FS_CardinalityType
<1>4. ~(S \subseteq Liars)
  <2>1. SUFFICES ASSUME S \in SUBSET Liars PROVE FALSE
    OBVIOUS
  <2>2. Cardinality(S) <= Cardinality(Liars)
    BY <1>2, <2>1, FS_Subset
  <2>3. QED
    BY <1>2, <1>3, <2>2, SelectionAssumption
<1>5. QED
  BY <1>4

\* So a refresh that gives high confidence gives what was true meanwhile.
LEMMA HighWasSeen ==
  ASSUME NEW H \in SUBSET Truths, NEW rs \in Replies(H), NEW sel \in Selections(rs),
         sel.confidence = "high", Cardinality(Liars) < QuorumMin
  PROVE  sel.verdict \in H
<1>1. rs \in [Upstreams -> Reply]
  BY DEF Replies
<1>2. /\ Cardinality(Strongest(rs)) >= QuorumMin
      /\ \A u \in Strongest(rs) : sel.verdict = rs[u].verdict
  BY <1>1, HighIsQuorum
<1>3. Strongest(rs) \in SUBSET Successful(rs) /\ Successful(rs) \subseteq Upstreams
  BY DEF Strongest, Agreeing, Successful
<1>4. PICK u \in Strongest(rs) : u \in Upstreams \ Liars
  BY <1>2, <1>3, QuorumHasHonest
<1>5. rs[u].verdict.status = "NOERROR"
  BY <1>3 DEF Successful
<1>6. rs[u].verdict \in H \cup {NoRecord("ERROR")}
  BY <1>4 DEF Replies
<1>7. rs[u].verdict # NoRecord("ERROR")
  BY <1>5 DEF NoRecord
<1>8. QED
  BY <1>2, <1>6, <1>7

-----------------------------------------------------------------------------
(* The inductive invariant: every entry anywhere, in memory, in the file,  *)
(* behind a prefetch or with a request that waits, is sound; and whoever   *)
(* waits came while the refresh it waits for was under way.                *)

Sound(k, e) ==
  /\ e.ttl \in Nat \ {0} /\ e.fetchedAt \in Nat /\ e.fetchedAt <= now
  /\ e.confidence = "high" /\ Cardinality(Liars) < QuorumMin =>
       /\ e.ttl <= TtlCap
       /\ e.verdict \in Truths
       /\ trueAt[k][e.verdict] >= e.fetchedAt - FlightMax

WorldInv ==
  /\ now \in Nat /\ truth \in [Keys -> Truths]
  /\ trueAt \in [Keys -> [Truths -> Int]]
  /\ \A k \in Keys, v \in Truths : trueAt[k][v] <= now

FlightOK(f) ==
  /\ f.key \in Keys
  /\ f.start \in Nat /\ f.start <= now /\ now <= f.start + FlightMax
  /\ f.fallback # None =>
       Sound(f.key, f.fallback) /\ f.start < ExpiresAt(f.fallback)
FlightsInv ==
  /\ IsFiniteSet(flights)
  /\ \A f \in flights : FlightOK(f)
  /\ \A f, g \in flights : f.id = g.id => f = g
  /\ \A f \in flights : f.key \in DOMAIN inFlight /\ inFlight[f.key] = f.id
  /\ \A k \in DOMAIN inFlight : \E f \in flights : f.key = k

WaiterOK(w) ==
  /\ w.key \in Keys /\ w.at \in Nat /\ w.at <= now
  /\ w.existing # None => Sound(w.key, w.existing)
WaitsFor(w, f) == f.id = w.flight /\ f.key = w.key /\ f.start <= w.at
WaitingInv ==
  /\ \A w \in waiting : WaiterOK(w)
  /\ \A w \in waiting : \E f \in flights : WaitsFor(w, f)

AllSound(entries) ==
  DOMAIN entries \subseteq Keys /\ \A k \in DOMAIN entries : Sound(k, entries[k])
StoredInv == AllSound(cache) /\ (file # Torn => AllSound(file.entries))

AnswersInv == HighIsTrue /\ AgeBounded

ResolverInv == WorldInv /\ FlightsInv /\ WaitingInv /\ StoredInv /\ AnswersInv

\* Time passes and what was true at some time stays so.
WorldStep ==
  /\ WorldInv /\ WorldInv' /\ now <= now'
  /\ \A k \in Keys, v \in Truths : trueAt[k][v] <= trueAt'[k][v]

\* The constants that bound times are natural numbers.
LEMMA TimeConstants ==
  FlightMax \in Nat /\ StaleMax \in Nat /\ TtlCap \in Nat /\ QuorumMin \in Nat
BY SelectionAssumption, ResolverAssumption DEF StaleMax

\* What was sound stays sound.
LEMMA SoundStays ==
  ASSUME WorldStep, NEW k \in Keys, NEW e, Sound(k, e)
  PROVE  Sound(k, e)'
<1>1. /\ e.fetchedAt \in Nat /\ e.fetchedAt <= now /\ now <= now'
      /\ now \in Nat /\ now' \in Nat /\ FlightMax \in Nat
  BY TimeConstants DEF Sound, WorldStep, WorldInv
<1>2. ASSUME e.verdict \in Truths, trueAt[k][e.verdict] >= e.fetchedAt - FlightMax
      PROVE  trueAt'[k][e.verdict] >= e.fetchedAt - FlightMax
  <2>1. trueAt[k][e.verdict] \in Int /\ trueAt'[k][e.verdict] \in Int
    BY <1>2 DEF WorldStep, WorldInv
  <2>2. trueAt[k][e.verdict] <= trueAt'[k][e.verdict]
    BY <1>2 DEF WorldStep
  <2>3. QED
    BY <1>1, <1>2, <2>1, <2>2
<1>3. QED
  BY <1>1, <1>2 DEF Sound

\* The sound entries of a map that does not change, too.
LEMMA AllSoundStays ==
  ASSUME WorldStep, NEW entries, AllSound(entries)
  PROVE  AllSound(entries)'
BY SoundStays DEF AllSound

\* A step that leaves the world alone.
LEMMA WorldStands ==
  ASSUME WorldInv, UNCHANGED world
  PROVE  WorldStep /\ \A k, e : Sound(k, e) <=> Sound(k, e)'
BY DEF WorldInv, WorldStep, world, Sound

-----------------------------------------------------------------------------
(* Requests.                                                               *)

\* There is an id for a new refresh that no other has.
LEMMA NewIdIsNew ==
  ASSUME IsFiniteSet(flights)
  PROVE  \A f \in flights : f.id # NewId
<1> DEFINE ids == {f.id : f \in flights}
           n == Cardinality(flights)
<1>1. n \in Nat
  BY FS_CardinalityType
<1>2. [f \in flights |-> f.id] \in Surjection(flights, ids)
  BY DEF Surjection
<1>3. IsFiniteSet(ids) /\ Cardinality(ids) <= n
  BY <1>2, FS_Surjection
<1>4. Cardinality(ids) \in Nat
  BY <1>3, FS_CardinalityType
<1>5. \E i \in 1..(n + 1) : i \notin ids
  <2>1. SUFFICES ASSUME 1..(n + 1) \in SUBSET ids PROVE FALSE
    OBVIOUS
  <2>2. Cardinality(1..(n + 1)) <= Cardinality(ids)
    BY <1>3, <2>1, FS_Subset
  <2>3. Cardinality(1..(n + 1)) = n + 1
    BY <1>1, FS_Interval
  <2>4. QED
    BY <1>1, <1>3, <1>4, <2>2, <2>3
<1>6. \E i \in 1..(Cardinality(flights) + 1) : \A f \in flights : f.id # i
  BY <1>5
<1>7. QED
  BY <1>6 DEF NewId

\* A refresh is started only for a key that has none.
LEMMA StartKeeps ==
  ASSUME WorldInv, FlightsInv, UNCHANGED world, NEW k \in Keys, NEW fallback,
         k \notin DOMAIN inFlight, StartFlight(k, fallback),
         fallback # None => Sound(k, fallback) /\ now < ExpiresAt(fallback)
  PROVE  /\ FlightsInv' /\ flights \subseteq flights'
         /\ \E f \in flights' : f.id = inFlight'[k] /\ f.key = k /\ f.start = now
<1>1. PICK new : new = [id |-> NewId, key |-> k, start |-> now, fallback |-> fallback]
  OBVIOUS
<1>2. /\ flights' = flights \cup {new} /\ inFlight' = Put(inFlight, k, NewId)
      /\ new.id = NewId /\ new.key = k /\ new.start = now /\ new.fallback = fallback
  BY <1>1 DEF StartFlight
<1>3. \A f \in flights : f.id # NewId /\ f.key # k
  BY NewIdIsNew DEF FlightsInv
<1>4. /\ DOMAIN inFlight' = DOMAIN inFlight \cup {k} /\ inFlight'[k] = NewId
      /\ \A j \in DOMAIN inFlight \ {k} : inFlight'[j] = inFlight[j]
  BY <1>2 DEF Put
<1>5. IsFiniteSet(flights')
  BY <1>2, FS_AddElement DEF FlightsInv
<1>6. \A f \in flights' : FlightOK(f)'
  <2>1. \A f \in flights : FlightOK(f)'
    BY WorldStands DEF FlightsInv, FlightOK, world
  <2>2. FlightOK(new)'
    BY <1>2, WorldStands, TimeConstants DEF FlightOK, WorldInv, world
  <2>3. QED
    BY <1>2, <2>1, <2>2
<1>7. \A f, g \in flights' : f.id = g.id => f = g
  BY <1>2, <1>3 DEF FlightsInv
<1>8. \A f \in flights' : f.key \in DOMAIN inFlight' /\ inFlight'[f.key] = f.id
  BY <1>2, <1>3, <1>4 DEF FlightsInv
<1>9. \A j \in DOMAIN inFlight' : \E f \in flights' : f.key = j
  BY <1>2, <1>4 DEF FlightsInv
<1>10. QED
  BY <1>2, <1>4, <1>5, <1>6, <1>7, <1>8, <1>9 DEF FlightsInv

\* What the requests waiting get stays right while refreshes are only added.
LEMMA WaitingStays ==
  ASSUME WorldInv, WaitingInv, UNCHANGED world, flights \subseteq flights',
         waiting' \subseteq waiting
  PROVE  WaitingInv'
<1>1. \A w \in waiting : WaiterOK(w)'
  BY WorldStands DEF WaitingInv, WaiterOK, world
<1>2. QED
  BY <1>1 DEF WaitingInv, WaitsFor

\* No answers, nothing to be wrong about.
LEMMA NoAnswers ==
  ASSUME answers' = {}
  PROVE  AnswersInv'
BY DEF AnswersInv, HighIsTrue, AgeBounded, Served

\* What is stored stays sound while the world and the store stand.
LEMMA StoredStays ==
  ASSUME WorldInv, StoredInv, UNCHANGED world, UNCHANGED <<cache, file>>
  PROVE  StoredInv'
BY WorldStands DEF StoredInv, AllSound

\* A cached answer is served within its time.
LEMMA HitKeeps ==
  ASSUME ResolverInv, UNCHANGED <<world, cache, order, file>>, NEW k \in Keys, Hit(k)
  PROVE  ResolverInv'
<1>1. /\ k \in DOMAIN cache /\ now < ExpiresAt(cache[k]) /\ UNCHANGED waiting
      /\ answers' = {Answer("cache", k, cache[k], Left(cache[k]), "none")}
  BY DEF Hit
<1>2. Sound(k, cache[k]) /\ Sound(k, cache[k])'
  BY <1>1, WorldStands DEF ResolverInv, StoredInv, AllSound
<1>3. WorldInv' /\ StoredInv'
  BY WorldStands, StoredStays DEF ResolverInv, WorldStep
<1>4. FlightsInv' /\ flights \subseteq flights'
  <2>1. CASE NearExpiry(k)
    <3>1. StartFlight(k, cache[k]) /\ k \notin DOMAIN inFlight
      BY <2>1 DEF Hit, NearExpiry
    <3>2. QED
      BY <1>1, <1>2, <3>1, StartKeeps DEF ResolverInv
  <2>2. CASE ~NearExpiry(k)
    BY <2>2, WorldStands DEF ResolverInv, FlightsInv, FlightOK, Hit, world
  <2>3. QED
    BY <2>1, <2>2
<1>5. WaitingInv'
  BY <1>1, <1>4, WaitingStays DEF ResolverInv
<1>6. AnswersInv'
  <2>1. PICK e : e = cache[k]
    OBVIOUS
  <2>2. /\ Sound(k, e) /\ now < ExpiresAt(e) /\ now' = now /\ trueAt' = trueAt
        /\ answers' = {[source |-> "cache", key |-> k, entry |-> e,
                        ttl |-> ExpiresAt(e) - now, cause |-> "none"]}
    BY <1>1, <1>2, <2>1 DEF Answer, Left, world
  <2>3. AgeBounded'
    BY <2>2, TimeConstants DEF AgeBounded, Served, Sound, ExpiresAt, StaleUntil,
      ResolverInv, WorldInv
  <2>4. HighIsTrue'
    <3>1. SUFFICES ASSUME e.confidence = "high", Cardinality(Liars) < QuorumMin
                   PROVE  /\ e.verdict \in Truths
                          /\ trueAt[k][e.verdict] >= e.fetchedAt - FlightMax
                          /\ now + (ExpiresAt(e) - now) <=
                               trueAt[k][e.verdict] + FlightMax + TtlCap
      BY <2>2 DEF HighIsTrue, Served
    <3>2. trueAt[k][e.verdict] \in Int /\ now \in Nat
      BY <2>2, <3>1 DEF Sound, ResolverInv, WorldInv
    <3>3. QED
      BY <2>2, <3>1, <3>2, TimeConstants DEF Sound, ExpiresAt
  <2>5. QED
    BY <2>3, <2>4 DEF AnswersInv
<1>7. QED
  BY <1>3, <1>4, <1>5, <1>6 DEF ResolverInv

\* A request that has to wait joins a refresh that has started.
LEMMA MissKeeps ==
  ASSUME ResolverInv, UNCHANGED <<world, cache, order, file>>, NEW k \in Keys, NEW q,
         Miss(q, k)
  PROVE  ResolverInv'
<1>1. WorldInv' /\ StoredInv' /\ AnswersInv'
  BY WorldStands, StoredStays, NoAnswers DEF ResolverInv, WorldStep, Miss
<1>2. /\ FlightsInv' /\ flights \subseteq flights'
      /\ \E f \in flights' : f.id = inFlight'[k] /\ f.key = k /\ f.start <= now
  <2>1. CASE k \in DOMAIN inFlight
    <3>1. UNCHANGED <<flights, inFlight>>
      BY <2>1 DEF Miss
    <3>2. FlightsInv'
      BY <3>1, WorldStands DEF ResolverInv, FlightsInv, FlightOK, world
    <3>3. PICK f \in flights : f.key = k
      BY <2>1 DEF ResolverInv, FlightsInv
    <3>4. f.id = inFlight'[k] /\ f.start <= now
      BY <3>1, <3>3 DEF ResolverInv, FlightsInv, FlightOK
    <3>5. QED
      BY <3>1, <3>2, <3>3, <3>4
  <2>2. CASE k \notin DOMAIN inFlight
    <3>1. StartFlight(k, None)
      BY <2>2 DEF Miss
    <3>2. now <= now
      BY DEF ResolverInv, WorldInv
    <3>3. QED
      BY <2>2, <3>1, <3>2, StartKeeps DEF ResolverInv
  <2>3. QED
    BY <2>1, <2>2
<1>3. PICK new : new = [req |-> q, key |-> k, at |-> now, existing |-> Cached(k),
                        flight |-> inFlight'[k]]
  OBVIOUS
<1>4. /\ waiting' = waiting \cup {new} /\ new.key = k /\ new.at = now
      /\ new.existing = Cached(k) /\ new.flight = inFlight'[k]
  BY <1>3 DEF Miss
<1>5. WaiterOK(new)'
  BY <1>4, WorldStands DEF WaiterOK, Cached, ResolverInv, StoredInv, AllSound, WorldInv,
    world
<1>6. \A w \in waiting' : WaiterOK(w)'
  BY <1>4, <1>5, WorldStands DEF ResolverInv, WaitingInv, WaiterOK, world
<1>7. \A w \in waiting' : \E f \in flights' : WaitsFor(w, f)
  BY <1>2, <1>4 DEF ResolverInv, WaitingInv, WaitsFor
<1>8. QED
  BY <1>1, <1>2, <1>6, <1>7 DEF ResolverInv, WaitingInv

-----------------------------------------------------------------------------
(* Refreshes.                                                              *)

\* The end of one refresh leaves those of other keys and who waits for them.
LEMMA LandKeeps ==
  ASSUME ResolverInv, UNCHANGED world, NEW f \in flights, Land(f)
  PROVE  FlightsInv' /\ WaitingInv'
<1>1. /\ flights' = flights \ {f} /\ inFlight' = Without(inFlight, {f.key})
      /\ waiting' = {w \in waiting : w.flight # f.id}
  BY DEF Land
<1>2. \A g \in flights' : g.key # f.key
  BY <1>1 DEF ResolverInv, FlightsInv
<1>3. /\ DOMAIN inFlight' = DOMAIN inFlight \ {f.key}
      /\ \A k \in DOMAIN inFlight' : inFlight'[k] = inFlight[k]
  BY <1>1 DEF Without
<1>4. \A g \in flights' : FlightOK(g)'
  BY <1>1, WorldStands DEF ResolverInv, FlightsInv, FlightOK, world
<1>5. IsFiniteSet(flights')
  BY <1>1, FS_RemoveElement DEF ResolverInv, FlightsInv
<1>6. FlightsInv'
  BY <1>1, <1>2, <1>3, <1>4, <1>5 DEF ResolverInv, FlightsInv
<1>7. \A w \in waiting' : WaiterOK(w)'
  BY <1>1, WorldStands DEF ResolverInv, WaitingInv, WaiterOK, world
<1>8. \A w \in waiting' : \E g \in flights' : WaitsFor(w, g)
  BY <1>1 DEF ResolverInv, WaitingInv, WaitsFor
<1>9. QED
  BY <1>6, <1>7, <1>8 DEF WaitingInv

\* A sound entry that is not given a TTL, or what is left of it, is right.
LEMMA StaleAnswer ==
  ASSUME ResolverInv, UNCHANGED world, NEW k \in Keys, NEW e, Sound(k, e), NEW a,
         a.source = "stale", a.key = k, a.entry = e,
         a.ttl = 0 \/ (a.ttl = ExpiresAt(e) - now),
         now <= StaleUntil(e) + FlightMax
  PROVE  /\ a.entry.confidence = "high" /\ Cardinality(Liars) < QuorumMin =>
              /\ a.entry.verdict \in Truths
              /\ trueAt'[a.key][a.entry.verdict] >= a.entry.fetchedAt - FlightMax
         /\ now' <= StaleUntil(a.entry) + FlightMax
         /\ a.ttl > 0 => now' + a.ttl <= ExpiresAt(a.entry)
<1>1. now \in Nat /\ now' = now /\ trueAt' = trueAt
  BY DEF ResolverInv, WorldInv, world
<1>2. ExpiresAt(e) \in Nat
  BY DEF Sound, ExpiresAt
<1>3. QED
  BY <1>1, <1>2 DEF Sound

\* The requests that wait for a refresh that rejects get an old entry that was
\* not too old when they came, or an error.
LEMMA RejectedKeeps ==
  ASSUME ResolverInv, UNCHANGED world, NEW f \in flights, NEW cause,
         answers' = Rejected(f, cause)
  PROVE  AnswersInv'
<1>1. SUFFICES ASSUME NEW a \in answers', a.source # "error"
               PROVE  /\ a.source = "stale"
                      /\ \E e : /\ a.entry = e /\ Sound(a.key, e) /\ a.key \in Keys
                                /\ a.ttl = 0 \/ (a.ttl = ExpiresAt(e) - now)
                                /\ now <= StaleUntil(e) + FlightMax
  BY StaleAnswer DEF AnswersInv, HighIsTrue, AgeBounded, Served
<1>2. FlightOK(f) /\ now \in Nat
  BY DEF ResolverInv, FlightsInv, WorldInv
<1>3. CASE f.fallback # None
  <2>1. /\ a.source = "stale" /\ a.key = f.key /\ a.entry = f.fallback
        /\ a.ttl = Left(f.fallback)
    BY <1>1, <1>3 DEF Rejected, Answer
  <2>2. Sound(f.key, f.fallback) /\ f.start < ExpiresAt(f.fallback) /\ f.key \in Keys
    BY <1>2, <1>3 DEF FlightOK
  <2>3. ExpiresAt(f.fallback) \in Nat
    BY <2>2 DEF Sound, ExpiresAt
  <2>4. now <= StaleUntil(f.fallback) + FlightMax
    BY <1>2, <2>2, <2>3, TimeConstants DEF FlightOK, StaleUntil
  <2>5. QED
    BY <2>1, <2>2, <2>4 DEF Left
<1>4. CASE f.fallback = None
  <2>1. PICK w \in waiting :
          /\ w.flight = f.id
          /\ a = IF w.existing # None /\ w.at <= StaleUntil(w.existing)
                 THEN Answer("stale", f.key, w.existing,  0, cause)
                 ELSE Answer("error", f.key, None, 0, cause)
    BY <1>1, <1>4 DEF Rejected
  <2>2. w.existing # None /\ w.at <= StaleUntil(w.existing)
    BY <1>1, <2>1 DEF Answer
  <2>3. a.source = "stale" /\ a.key = f.key /\ a.entry = w.existing /\ a.ttl = 0
    BY <2>1, <2>2 DEF Answer
  <2>4. WaiterOK(w) /\ WaitsFor(w, f)
    BY <2>1 DEF ResolverInv, WaitingInv, FlightsInv, WaitsFor
  <2>5. Sound(f.key, w.existing) /\ f.key \in Keys
    BY <2>2, <2>4 DEF WaiterOK, WaitsFor
  <2>6. StaleUntil(w.existing) \in Nat
    BY <2>5, TimeConstants DEF Sound, StaleUntil, ExpiresAt
  <2>7. now <= StaleUntil(w.existing) + FlightMax
    BY <1>2, <2>2, <2>4, <2>6, TimeConstants DEF FlightOK, WaiterOK, WaitsFor
  <2>8. QED
    BY <2>3, <2>5, <2>7
<1>5. QED
  BY <1>3, <1>4

\* What a refresh fetches is sound.
LEMMA FetchedIsSound ==
  ASSUME ResolverInv, NEW f \in flights, NEW r \in Successes, r.seen = Seen(f), NEW e,
         e = [verdict |-> r.sel.verdict, confidence |-> r.sel.confidence,
              ttl |-> r.sel.ttl, fetchedAt |-> now]
  PROVE  Sound(f.key, e)
<1>1. PICK H \in SUBSET Truths :
        \E rs \in Replies(H) : \E sel \in Selections(rs) : r = [seen |-> H, sel |-> sel]
  BY DEF Successes
<1>2. PICK rs \in Replies(H) : \E sel \in Selections(rs) : r = [seen |-> H, sel |-> sel]
  BY <1>1
<1>3. PICK sel \in Selections(rs) : r = [seen |-> H, sel |-> sel]
  BY <1>2
<1>4. H = Seen(f) /\ r.sel = sel
  BY <1>3
<1>5. rs \in [Upstreams -> Reply]
  BY DEF Replies
<1>6. sel.ttl \in Nat \ {0}
  BY <1>5, HighIsQuorum
<1>7. now \in Nat /\ FlightOK(f)
  BY DEF ResolverInv, WorldInv, FlightsInv
<1>8. ASSUME sel.confidence = "high", Cardinality(Liars) < QuorumMin
      PROVE  /\ sel.ttl <= TtlCap /\ sel.verdict \in Truths
             /\ trueAt[f.key][sel.verdict] >= now - FlightMax
  <2>1. sel.ttl <= TtlCap
    BY <1>5, <1>8, HighIsQuorum
  <2>2. sel.verdict \in Truths /\ trueAt[f.key][sel.verdict] >= f.start
    BY <1>4, <1>8, HighWasSeen DEF Seen
  <2>3. trueAt[f.key][sel.verdict] \in Int
    BY <1>7, <2>2 DEF ResolverInv, WorldInv, FlightOK
  <2>4. QED
    BY <1>7, <2>1, <2>2, <2>3, TimeConstants DEF FlightOK
<1>9. QED
  BY <1>4, <1>6, <1>7, <1>8 DEF Sound

\* A refresh that succeeds stores a sound entry and hands it to all who wait,
\* or, if it cannot be saved, rejects.
LEMMA RefreshedKeeps ==
  ASSUME ResolverInv, UNCHANGED world, NEW f \in flights, NEW r \in Successes,
         r.seen = Seen(f), Refreshed(f, r.sel)
  PROVE  ResolverInv'
<1>1. PICK e : e = [verdict |-> r.sel.verdict, confidence |-> r.sel.confidence,
                    ttl |-> r.sel.ttl, fetchedAt |-> now]
  OBVIOUS
<1>2. PICK saved : saved = [entries |-> cache', order |-> order']
  OBVIOUS
<1>3. /\ Store(f.key, e) /\ Land(f)
      /\ \/ /\ file' = saved
            /\ answers' = {Answer("upstream", f.key, e, e.ttl, "none") :
                             w \in {w \in waiting : w.flight = f.id}}
         \/ file' \in {file, Torn} /\ answers' = Rejected(f, "write")
  BY <1>1, <1>2 DEF Refreshed
<1>4. f.key \in Keys /\ Sound(f.key, e) /\ Sound(f.key, e)'
  BY <1>1, FetchedIsSound, WorldStands DEF ResolverInv, FlightsInv, FlightOK
<1>5. WorldInv' /\ FlightsInv' /\ WaitingInv'
  BY <1>3, LandKeeps, WorldStands DEF ResolverInv, WorldStep
<1>6. AllSound(cache)'
  <2>1. PICK gone : cache' = Without(Put(cache, f.key, e), gone)
    BY <1>3 DEF Store
  <2>2. /\ DOMAIN cache' \subseteq DOMAIN cache \cup {f.key}
        /\ \A k \in DOMAIN cache' : cache'[k] = IF k = f.key THEN e ELSE cache[k]
    BY <2>1 DEF Without, Put
  <2>3. QED
    BY <1>4, <2>2, WorldStands DEF ResolverInv, StoredInv, AllSound
<1>7. StoredInv'
  <2>1. AllSound(file.entries)' \/ file' = Torn \/ file' = file
    BY <1>2, <1>3, <1>6 DEF AllSound
  <2>2. file' = file => (file' # Torn => AllSound(file.entries)')
    BY WorldStands DEF ResolverInv, StoredInv, AllSound
  <2>3. QED
    BY <1>6, <2>1, <2>2 DEF StoredInv
<1>8. AnswersInv'
  <2>1. CASE answers' = Rejected(f, "write")
    BY <2>1, RejectedKeeps
  <2>2. CASE answers' = {Answer("upstream", f.key, e, e.ttl, "none") :
                           w \in {w \in waiting : w.flight = f.id}}
    <3>1. /\ \A a \in answers' : a.key = f.key /\ a.entry = e /\ a.ttl = e.ttl
          /\ now' = now /\ now \in Nat /\ trueAt' = trueAt
          /\ e.fetchedAt = now /\ e.ttl \in Nat
      BY <1>1, <1>4, <2>2 DEF Answer, world, ResolverInv, WorldInv, Sound
    <3>2. AgeBounded'
      BY <3>1, TimeConstants DEF AgeBounded, Served, StaleUntil, ExpiresAt
    <3>3. ASSUME e.confidence = "high", Cardinality(Liars) < QuorumMin
          PROVE  /\ e.verdict \in Truths
                 /\ trueAt[f.key][e.verdict] >= e.fetchedAt - FlightMax
                 /\ now + e.ttl <= trueAt[f.key][e.verdict] + FlightMax + TtlCap
      <4>1. e.verdict \in Truths /\ trueAt[f.key][e.verdict] \in Int
        BY <1>4, <3>3 DEF Sound, ResolverInv, WorldInv
      <4>2. QED
        BY <1>4, <3>1, <3>3, <4>1, TimeConstants DEF Sound
    <3>4. HighIsTrue'
      BY <3>1, <3>3 DEF HighIsTrue, Served
    <3>5. QED
      BY <3>2, <3>4 DEF AnswersInv
  <2>3. QED
    BY <1>3, <2>1, <2>2
<1>9. QED
  BY <1>5, <1>7, <1>8 DEF ResolverInv

\* A refresh that fails stores nothing.
LEMMA SettleKeeps ==
  ASSUME ResolverInv, NEW f \in flights, Settle(f)
  PROVE  ResolverInv'
<1>1. UNCHANGED world
  BY DEF Settle
<1>2. CASE \E r \in Successes : r.seen = Seen(f) /\ Refreshed(f, r.sel)
  BY <1>1, <1>2, RefreshedKeeps
<1>3. CASE \E r \in Failures : r.seen = Seen(f) /\ Failed(f, r.cause)
  <2>1. PICK cause : Failed(f, cause)
    BY <1>3
  <2>2. Land(f) /\ answers' = Rejected(f, cause) /\ UNCHANGED <<cache, file>>
    BY <2>1 DEF Failed
  <2>3. FlightsInv' /\ WaitingInv' /\ AnswersInv'
    BY <1>1, <2>2, LandKeeps, RejectedKeeps
  <2>4. WorldInv' /\ StoredInv'
    BY <1>1, <2>2, WorldStands, StoredStays DEF ResolverInv, WorldStep
  <2>5. QED
    BY <2>3, <2>4 DEF ResolverInv
<1>4. QED
  BY <1>2, <1>3 DEF Settle

-----------------------------------------------------------------------------
(* The process and the world.                                              *)

\* A crash leaves the file, or nothing that can be read.
LEMMA CrashKeeps ==
  ASSUME ResolverInv, Crash
  PROVE  ResolverInv'
<1>1. WorldStep /\ WorldInv' /\ AnswersInv'
  BY WorldStands, NoAnswers DEF Crash, ResolverInv, WorldStep
<1>2. FlightsInv' /\ WaitingInv'
  BY FS_EmptySet DEF Crash, FlightsInv, WaitingInv, EmptyMap
<1>3. AllSound(cache)'
  BY DEF Crash, AllSound, EmptyMap
<1>4. file' = file \/ file' = Torn
  BY DEF Crash
<1>5. file' # Torn => AllSound(file.entries)'
  <2>1. UNCHANGED world
    BY DEF Crash
  <2>2. QED
    BY <1>4, <2>1, WorldStands DEF ResolverInv, StoredInv, AllSound
<1>6. QED
  BY <1>1, <1>2, <1>3, <1>4, <1>5 DEF ResolverInv, StoredInv

\* A restart reads back what was sound.
LEMMA RestartKeeps ==
  ASSUME ResolverInv, Restart
  PROVE  ResolverInv'
<1>1. WorldInv' /\ AnswersInv' /\ UNCHANGED <<world, file, flights, inFlight, waiting>>
  BY WorldStands, NoAnswers DEF Restart, ResolverInv, WorldStep
<1>2. FlightsInv' /\ WaitingInv'
  BY <1>1, WorldStands, WaitingStays
    DEF ResolverInv, FlightsInv, FlightOK, world
<1>3. cache' = IF file = Torn THEN EmptyMap ELSE file.entries
  BY DEF Restart
<1>4. AllSound(cache)' /\ (file' # Torn => AllSound(file.entries)')
  BY <1>1, <1>3, WorldStands DEF ResolverInv, StoredInv, AllSound, EmptyMap
<1>5. QED
  BY <1>1, <1>2, <1>4 DEF ResolverInv, StoredInv

\* Time passes for everybody who waits, but no refresh outlasts its timers.
LEMMA LaterKeeps ==
  ASSUME ResolverInv, WorldStep, UNCHANGED <<memory, file>>, answers' = {},
         \A f \in flights : now' <= f.start + FlightMax
  PROVE  ResolverInv'
<1>1. UNCHANGED <<cache, flights, inFlight, waiting, file>>
  BY DEF memory
<1>2. now \in Nat /\ now' \in Nat /\ now <= now'
  BY DEF WorldStep, WorldInv
<1>3. \A f \in flights : FlightOK(f)'
  BY <1>2, SoundStays DEF ResolverInv, FlightsInv, FlightOK
<1>4. FlightsInv'
  BY <1>1, <1>3 DEF ResolverInv, FlightsInv
<1>5. \A w \in waiting : WaiterOK(w)'
  BY <1>2, SoundStays DEF ResolverInv, WaitingInv, WaiterOK
<1>6. WaitingInv'
  BY <1>1, <1>5 DEF ResolverInv, WaitingInv, WaitsFor
<1>7. StoredInv'
  <2>1. PICK c : c = cache
    OBVIOUS
  <2>2. PICK d : d = file.entries
    OBVIOUS
  <2>3. AllSound(c) /\ (file # Torn => AllSound(d))
    BY <2>1, <2>2 DEF ResolverInv, StoredInv
  <2>4. AllSound(c)' /\ (file # Torn => AllSound(d)')
    BY <2>3, AllSoundStays
  <2>5. c = cache' /\ d = file'.entries /\ file' = file
    BY <1>1, <2>1, <2>2
  <2>6. QED
    BY <2>4, <2>5 DEF StoredInv, AllSound
<1>8. QED
  BY <1>4, <1>6, <1>7, NoAnswers DEF ResolverInv, WorldStep

\* A second later what is true now still is.
LEMMA TickKeeps ==
  ASSUME ResolverInv, Tick
  PROVE  ResolverInv'
<1>1. /\ now' = now + 1 /\ truth' = truth /\ now \in Nat
      /\ trueAt' = [k \in Keys |-> [trueAt[k] EXCEPT ![truth[k]] = now + 1]]
  BY DEF Tick, ResolverInv, WorldInv
<1>2. \A k \in Keys : trueAt[k] \in [Truths -> Int] /\ truth[k] \in Truths
  BY DEF ResolverInv, WorldInv
<1>3. \A k \in Keys, v \in Truths :
        trueAt'[k][v] = IF v = truth[k] THEN now + 1 ELSE trueAt[k][v]
  BY <1>1, <1>2
<1>4. trueAt' \in [Keys -> [Truths -> Int]]
  BY <1>1, <1>2
<1>5. \A k \in Keys, v \in Truths : trueAt[k][v] \in Int /\ trueAt[k][v] <= now
  BY DEF ResolverInv, WorldInv
<1>6. WorldStep
  BY <1>1, <1>3, <1>4, <1>5 DEF WorldStep, WorldInv, ResolverInv
<1>7. \A f \in flights : now' <= f.start + FlightMax
  <2>1. \A f \in flights : now < f.start + FlightMax /\ f.start \in Nat
    BY DEF Tick, ResolverInv, FlightsInv, FlightOK
  <2>2. QED
    BY <1>1, <2>1, TimeConstants
<1>8. UNCHANGED <<memory, file>> /\ answers' = {}
  BY DEF Tick
<1>9. QED
  BY <1>6, <1>7, <1>8, LaterKeeps

\* A name changes: what was true until now was true until now.
LEMMA ChangeKeeps ==
  ASSUME ResolverInv, NEW k \in Keys, NEW v \in Truths, Change(k, v)
  PROVE  ResolverInv'
<1>1. /\ now' = now /\ truth' = [truth EXCEPT ![k] = v] /\ now \in Nat
      /\ trueAt' = [trueAt EXCEPT ![k][v] = now]
  BY DEF Change, ResolverInv, WorldInv
<1>2. /\ trueAt \in [Keys -> [Truths -> Int]] /\ truth \in [Keys -> Truths]
      /\ \A j \in Keys, u \in Truths : trueAt[j][u] \in Int /\ trueAt[j][u] <= now
  BY DEF ResolverInv, WorldInv
<1>3. \A j \in Keys, u \in Truths :
        trueAt'[j][u] = IF j = k /\ u = v THEN now ELSE trueAt[j][u]
  BY <1>1, <1>2
<1>4. trueAt' \in [Keys -> [Truths -> Int]] /\ truth' \in [Keys -> Truths]
  BY <1>1, <1>2
<1>5. WorldStep
  BY <1>1, <1>2, <1>3, <1>4 DEF WorldStep, WorldInv
<1>6. \A f \in flights : now' <= f.start + FlightMax
  BY <1>1 DEF ResolverInv, FlightsInv, FlightOK
<1>7. UNCHANGED <<memory, file>> /\ answers' = {}
  BY DEF Change
<1>8. QED
  BY <1>5, <1>6, <1>7, LaterKeeps

\* Every step keeps the invariant.
LEMMA StepKeeps ==
  ASSUME ResolverInv, [Next]_vars
  PROVE  ResolverInv'
<1>1. ASSUME NEW q \in Requests, NEW k \in Keys, Request(q, k)
      PROVE  ResolverInv'
  BY <1>1, HitKeeps, MissKeeps DEF Request
<1>2. ASSUME NEW f \in flights, Settle(f)
      PROVE  ResolverInv'
  BY <1>2, SettleKeeps
<1>3. CASE Crash
  BY <1>3, CrashKeeps
<1>4. CASE Restart
  BY <1>4, RestartKeeps
<1>5. CASE Tick
  BY <1>5, TickKeeps
<1>6. ASSUME NEW k \in Keys, NEW v \in Truths, Change(k, v)
      PROVE  ResolverInv'
  BY <1>6, ChangeKeeps
<1>7. CASE UNCHANGED vars
  <2>1. UNCHANGED <<now, truth, trueAt, cache, file, flights, inFlight, waiting, answers>>
    BY <1>7 DEF vars, world, memory
  <2>2. QED
    BY <2>1 DEF ResolverInv, WorldInv, FlightsInv, FlightOK, WaitingInv, WaiterOK,
      StoredInv, AllSound, Sound, AnswersInv, HighIsTrue, AgeBounded, Served
<1>8. QED
  BY <1>1, <1>2, <1>3, <1>4, <1>5, <1>6, <1>7 DEF Next

\* It holds in the beginning, when everything is empty.
LEMMA InitKeeps ==
  ASSUME Init
  PROVE  ResolverInv
<1>1. WorldInv
  BY DEF Init, WorldInv, Never
<1>2. FlightsInv /\ WaitingInv
  BY FS_EmptySet DEF Init, FlightsInv, WaitingInv, EmptyMap
<1>3. StoredInv
  BY DEF Init, StoredInv, AllSound, EmptyMap
<1>4. AnswersInv
  BY DEF Init, AnswersInv, HighIsTrue, AgeBounded, Served
<1>5. QED
  BY <1>1, <1>2, <1>3, <1>4 DEF ResolverInv

\* The invariant of all reachable states.
THEOREM ResolverCorrect == Spec => []ResolverInv
<1>1. Init => ResolverInv
  BY InitKeeps
<1>2. ResolverInv /\ [Next]_vars => ResolverInv'
  BY StepKeeps
<1>3. QED
  BY <1>1, <1>2, PTL DEF Spec

\* An answer that selectBest calls "high" was true while the refresh ran, and
\* is used no later than the TTL cap after that, as long as there are fewer
\* liars than quorumMin, through caching, saving, crashes and restarts.
THEOREM HighCorrect == Spec => []HighIsTrue
<1>1. ResolverInv => HighIsTrue
  BY DEF ResolverInv, AnswersInv
<1>2. QED
  BY <1>1, ResolverCorrect, PTL

\* No answer is older than its staleUntil and one refresh, and no TTL is
\* longer than what is left (resolveRecursive).
THEOREM AgeCorrect == Spec => []AgeBounded
<1>1. ResolverInv => AgeBounded
  BY DEF ResolverInv, AnswersInv
<1>2. QED
  BY <1>1, ResolverCorrect, PTL

\* Each name and type has at most one refresh, and no request waits for one
\* that is gone (inFlight).
THEOREM SharedCorrect == Spec => []RefreshIsShared
<1>1. ResolverInv => RefreshIsShared
  BY DEF ResolverInv, FlightsInv, WaitingInv, WaitsFor, RefreshIsShared
<1>2. QED
  BY <1>1, ResolverCorrect, PTL

-----------------------------------------------------------------------------
(***************************************************************************)
(* The cache: its types, its limit, and what it keeps.                     *)
(***************************************************************************)

\* Finite sets of which each is strictly within the other or the other way
\* round have different sizes.
LEMMA NestedSizes ==
  ASSUME NEW S, IsFiniteSet(S), NEW A \in SUBSET S, NEW B \in SUBSET S,
         A \subseteq B, A # B
  PROVE  Cardinality(A) < Cardinality(B)
<1>1. IsFiniteSet(B)
  BY FS_Subset
<1>2. Cardinality(A) <= Cardinality(B) /\ (Cardinality(A) = Cardinality(B) => A = B)
  BY <1>1, FS_Subset
<1>3. Cardinality(A) \in Nat /\ Cardinality(B) \in Nat
  BY <1>1, FS_Subset, FS_CardinalityType
<1> QED  BY <1>2, <1>3

\* As many as come within a range of numbers, if no two come at the same one.
LEMMA NumberedApart ==
  ASSUME NEW S, NEW f \in [S -> Nat], NEW m \in Nat, NEW n \in Nat, m <= n + 1,
         \A k \in S : f[k] \in m..n,
         \A j, k \in S : f[j] = f[k] => j = k
  PROVE  Cardinality(S) <= n + 1 - m
<1>1. f \in Injection(S, m..n)
  BY DEF Injection, IsInjective
<1>2. IsFiniteSet(m..n) /\ Cardinality(m..n) = n + 1 - m
  <2>1. m \in Int /\ n \in Int
    OBVIOUS
  <2>2. Cardinality(m..n) = IF m > n THEN 0 ELSE n - m + 1
    BY <2>1, FS_Interval
  <2>3. IsFiniteSet(m..n)
    BY <2>1, FS_Interval
  <2> QED  BY <2>2, <2>3
<1> QED  BY <1>1, <1>2, FS_Injection

\* A map and the places of its keys, as memory and the file hold them.
Placed(c, o) ==
  /\ DOMAIN c \subseteq Keys /\ IsFiniteSet(DOMAIN c)
  /\ \A k \in DOMAIN c : c[k] \in Entry
  /\ o \in [DOMAIN c -> 1..Cardinality(DOMAIN c)]
  /\ \A j, k \in DOMAIN c : o[j] = o[k] => j = k

LEMMA EmptyPlaced == Placed(EmptyMap, EmptyMap) /\ Cardinality(DOMAIN EmptyMap) = 0
BY FS_EmptySet DEF Placed, EmptyMap

\* Of two entries one is the older, and then fewer come before it.
LEMMA AgesApart ==
  ASSUME NEW c, NEW o, Placed(c, o), NEW j \in DOMAIN c, NEW k \in DOMAIN c, j # k
  PROVE  Cardinality(Before(c, o, j)) # Cardinality(Before(c, o, k))
<1>1. \A x \in DOMAIN c : c[x].fetchedAt \in Int /\ o[x] \in Int
  <2>1. Cardinality(DOMAIN c) \in Nat
    BY FS_CardinalityType DEF Placed
  <2> QED  BY <2>1, ResolverAssumption DEF Placed, Entry
<1>2. ASSUME NEW x \in DOMAIN c, NEW y \in DOMAIN c, Older(c, o, x, y)
      PROVE  Cardinality(Before(c, o, x)) < Cardinality(Before(c, o, y))
  <2>1. Before(c, o, x) \subseteq Before(c, o, y)
    BY <1>1, <1>2 DEF Before, Older
  <2>2. x \in Before(c, o, y) /\ x \notin Before(c, o, x)
    BY <1>1, <1>2 DEF Before, Older
  <2>3. Before(c, o, x) \in SUBSET DOMAIN c /\ Before(c, o, y) \in SUBSET DOMAIN c
    BY DEF Before
  <2> QED  BY <2>1, <2>2, <2>3, NestedSizes DEF Placed
<1>3. Older(c, o, j, k) \/ Older(c, o, k, j)
  BY <1>1 DEF Older, Placed
<1>4. Cardinality(Before(c, o, j)) \in Nat /\ Cardinality(Before(c, o, k)) \in Nat
  BY FS_Subset, FS_CardinalityType DEF Before, Placed
<1> QED  BY <1>2, <1>3, <1>4

\* Everyone comes after less than all.
LEMMA BeforeFewer ==
  ASSUME NEW c, NEW o, Placed(c, o), NEW k \in DOMAIN c
  PROVE  Cardinality(Before(c, o, k)) \in 0..(Cardinality(DOMAIN c) - 1)
<1>1. Before(c, o, k) \in SUBSET DOMAIN c /\ DOMAIN c \in SUBSET DOMAIN c
  BY DEF Before
<1>2. k \notin Before(c, o, k)
  <2>1. Cardinality(DOMAIN c) \in Nat
    BY FS_CardinalityType DEF Placed
  <2>2. c[k].fetchedAt \in Int /\ o[k] \in Int
    BY <2>1, ResolverAssumption DEF Placed, Entry
  <2> QED  BY <2>2 DEF Before, Older
<1>3. Cardinality(Before(c, o, k)) < Cardinality(DOMAIN c)
  BY <1>1, <1>2, NestedSizes DEF Placed
<1>4. Cardinality(Before(c, o, k)) \in Nat /\ Cardinality(DOMAIN c) \in Nat
  BY <1>1, FS_Subset, FS_CardinalityType DEF Placed
<1> QED  BY <1>3, <1>4

\* evictIfNeeded leaves no more than the limit.
LEMMA EvictionBounds ==
  ASSUME NEW c, NEW o, Placed(c, o)
  PROVE  Cardinality(DOMAIN c \ Evicted(c, o)) <= CacheMaxEntries
<1>1. PICK n : n = Cardinality(DOMAIN c)
  OBVIOUS
<1>2. n \in Nat /\ CacheMaxEntries \in Nat
  BY <1>1, FS_CardinalityType, ResolverAssumption DEF Placed
<1>3. PICK left : left = DOMAIN c \ Evicted(c, o)
  OBVIOUS
<1>4. CASE n <= CacheMaxEntries
  <2>1. left \in SUBSET DOMAIN c
    BY <1>3
  <2>2. Cardinality(left) <= n /\ Cardinality(left) \in Nat
    BY <1>1, <2>1, FS_Subset, FS_CardinalityType DEF Placed
  <2> QED  BY <1>2, <1>3, <1>4, <2>2
<1>5. CASE n > CacheMaxEntries
  <2>1. PICK f : f = [k \in left |-> Cardinality(Before(c, o, k))]
    OBVIOUS
  <2>2. ASSUME NEW k \in left
        PROVE  f[k] \in (n - CacheMaxEntries)..(n - 1)
    <3>1. k \in DOMAIN c /\ ~(f[k] < n - CacheMaxEntries)
      BY <1>1, <1>3, <2>1 DEF Evicted, Excess
    <3>2. f[k] \in 0..(n - 1)
      BY <1>1, <2>1, <3>1, BeforeFewer
    <3> QED  BY <1>2, <1>5, <3>1, <3>2
  <2>3. \A j, k \in left : f[j] = f[k] => j = k
    BY <1>3, <2>1, AgesApart
  <2>4. f \in [left -> Nat]
    BY <1>2, <1>5, <2>1, <2>2
  <2>5. n - CacheMaxEntries \in Nat /\ n - 1 \in Nat
    BY <1>2, <1>5
  <2>6. Cardinality(left) <= (n - 1) + 1 - (n - CacheMaxEntries)
    BY <1>2, <2>2, <2>3, <2>4, <2>5, NumberedApart
  <2>7. (n - 1) + 1 - (n - CacheMaxEntries) = CacheMaxEntries
    BY <1>2
  <2> QED  BY <1>3, <2>6, <2>7
<1> QED  BY <1>2, <1>4, <1>5

\* What is left has places again.
LEMMA EvictionPlaces ==
  ASSUME NEW c, NEW o, Placed(c, o), NEW S \in SUBSET DOMAIN c
  PROVE  Placed([k \in S |-> c[k]], Places(o, S))
<1>1. IsFiniteSet(S) /\ Cardinality(S) \in Nat
  BY FS_Subset, FS_CardinalityType DEF Placed
<1>2. \A k \in S : o[k] \in Int
  <2>1. Cardinality(DOMAIN c) \in Nat
    BY FS_CardinalityType DEF Placed
  <2> QED  BY <2>1 DEF Placed
<1>3. ASSUME NEW k \in S
      PROVE  Cardinality(UpTo(o, S, k)) \in 1..Cardinality(S)
  <2>1. UpTo(o, S, k) \in SUBSET S /\ {} \in SUBSET S /\ k \in UpTo(o, S, k)
    BY <1>2 DEF UpTo
  <2>2. Cardinality({}) < Cardinality(UpTo(o, S, k))
    BY <1>1, <2>1, NestedSizes
  <2>3. /\ Cardinality(UpTo(o, S, k)) \in Nat
        /\ Cardinality(UpTo(o, S, k)) <= Cardinality(S)
    BY <1>1, <2>1, FS_Subset, FS_CardinalityType
  <2> QED  BY <1>1, <2>2, <2>3, FS_EmptySet
<1>4. ASSUME NEW j \in S, NEW k \in S, o[j] < o[k]
      PROVE  Cardinality(UpTo(o, S, j)) < Cardinality(UpTo(o, S, k))
  <2>1. UpTo(o, S, j) \in SUBSET S /\ UpTo(o, S, k) \in SUBSET S
    BY DEF UpTo
  <2>2. UpTo(o, S, j) \subseteq UpTo(o, S, k)
    BY <1>2, <1>4 DEF UpTo
  <2>3. k \in UpTo(o, S, k) /\ k \notin UpTo(o, S, j)
    BY <1>2, <1>4 DEF UpTo
  <2> QED  BY <1>1, <2>1, <2>2, <2>3, NestedSizes
<1>5. ASSUME NEW j \in S, NEW k \in S,
             Cardinality(UpTo(o, S, j)) = Cardinality(UpTo(o, S, k))
      PROVE  j = k
  <2>1. Cardinality(UpTo(o, S, j)) \in Int /\ Cardinality(UpTo(o, S, k)) \in Int
    BY <1>1, <1>3
  <2>2. o[j] = o[k]
    BY <1>2, <1>4, <1>5, <2>1
  <2> QED  BY <2>2 DEF Placed
<1> QED  BY <1>1, <1>3, <1>5 DEF Placed, Places

\* What selectBest returns is a verdict some upstream may give, called by one
\* of three names and kept no longer than a cap.
LEMMA SelectionTyped ==
  ASSUME NEW rs \in [Upstreams -> Reply], NEW sel \in Selections(rs)
  PROVE  /\ sel.verdict \in Verdict
         /\ sel.confidence \in {"high", "medium", "low"}
         /\ sel.ttl \in 1..TtlCap \cup {LowTtlCap}
<1> DEFINE agreed == Cardinality(Strongest(rs)) >= QuorumMin
           medium == SmallerOf(TtlCap, MediumTtlCap)
           low == SmallerOf(TtlCap, LowTtlCap)
<1>1. /\ medium \in Nat \ {0} /\ low \in Nat \ {0} /\ TtlCap \in Nat \ {0}
      /\ medium <= TtlCap /\ low <= TtlCap
  BY SelectionAssumption DEF SmallerOf
<1>2. /\ Successful(rs) \in SUBSET Upstreams /\ Strongest(rs) \in SUBSET Upstreams
      /\ Overlapping(rs) \in SUBSET Upstreams
  BY DEF Successful, Strongest, Agreeing, Overlapping
<1>3. ASSUME NEW S \in SUBSET Upstreams, NEW confidence \in {"high", "medium", "low"},
             NEW cap \in Nat \ {0}, cap <= TtlCap, sel \in AnswersOf(rs, S, confidence, cap)
      PROVE  /\ sel.verdict \in Verdict
             /\ sel.confidence \in {"high", "medium", "low"}
             /\ sel.ttl \in 1..TtlCap \cup {LowTtlCap}
  <2>1. /\ sel.ttl \in Nat \ {0} /\ sel.ttl <= cap /\ sel.confidence = confidence
        /\ \E u \in S : sel.verdict = rs[u].verdict
    BY <1>3, AnswersConsidered
  <2>2. sel.verdict \in Verdict
    BY <2>1 DEF Reply
  <2>3. sel.ttl \in 1..TtlCap
    BY <1>1, <1>3, <2>1
  <2> QED  BY <2>1, <2>2, <2>3
<1>4. CASE Successful(rs) # {} /\ agreed
  <2>1. sel \in AnswersOf(rs, Strongest(rs), "high", TtlCap)
    BY <1>4 DEF Selections
  <2> QED  BY <1>1, <1>2, <1>3, <2>1
<1>5. CASE Successful(rs) # {} /\ ~agreed /\ Overlapping(rs) # {}
  <2>1. sel \in AnswersOf(rs, Overlapping(rs), "medium", medium)
    BY <1>5 DEF Selections
  <2> QED  BY <1>1, <1>2, <1>3, <2>1
<1>6. CASE Successful(rs) # {} /\ ~agreed /\ Overlapping(rs) = {}
  <2>1. PICK u \in Successful(rs) : sel \in AnswersOf(rs, {u}, "low", low)
    BY <1>6 DEF Selections
  <2>2. PICK S \in SUBSET Upstreams : S = {u}
    BY <1>2
  <2> QED  BY <1>1, <1>3, <2>1, <2>2
<1>7. CASE Successful(rs) = {}
  <2>1. sel = Denial(rs)
    BY <1>7 DEF Selections
  <2>2. /\ sel.verdict = NoRecord("NXDOMAIN") /\ sel.ttl = LowTtlCap
        /\ sel.confidence \in {"medium", "low"}
    BY <2>1 DEF Denial
  <2> QED  BY <2>2 DEF Verdict
<1> QED  BY <1>4, <1>5, <1>6, <1>7

\* What a refresh fetches has the type of an entry.
LEMMA FetchedTyped ==
  ASSUME now \in 0..MaxTime, NEW r \in Successes, NEW e,
         e = [verdict |-> r.sel.verdict, confidence |-> r.sel.confidence,
              ttl |-> r.sel.ttl, fetchedAt |-> now]
  PROVE  e \in Entry
<1>1. PICK H \in SUBSET Truths :
        \E rs \in Replies(H) : \E sel \in Selections(rs) : r = [seen |-> H, sel |-> sel]
  BY DEF Successes
<1>2. PICK rs \in Replies(H) : \E sel \in Selections(rs) : r = [seen |-> H, sel |-> sel]
  BY <1>1
<1>3. PICK sel \in Selections(rs) : r = [seen |-> H, sel |-> sel]
  BY <1>2
<1>4. rs \in [Upstreams -> Reply] /\ r.sel = sel
  BY <1>3 DEF Replies
<1>5. /\ sel.verdict \in Verdict /\ sel.confidence \in {"high", "medium", "low"}
      /\ sel.ttl \in 1..TtlCap \cup {LowTtlCap}
  BY <1>4, SelectionTyped
<1> QED  BY <1>4, <1>5 DEF Entry

\* Beside ResolverInv: the types, the limit, in memory as in the file, and
\* that who got an answer from the upstreams finds it in the cache.
WorldTyped ==
  /\ now \in 0..MaxTime /\ truth \in [Keys -> Truths]
  /\ trueAt \in [Keys -> [Truths -> Never..MaxTime]]
  /\ changes \in 0..MaxChanges /\ faults \in 0..MaxFaults /\ up \in BOOLEAN
WaitersTyped ==
  /\ DOMAIN inFlight \subseteq Keys
  /\ \A f \in flights : f.key \in Keys /\ f.fallback \in Entry \cup {None}
  /\ \A w \in waiting : w.req \in Requests /\ w.existing \in Entry \cup {None}
Limited(c, o) == Placed(c, o) /\ Cardinality(DOMAIN c) <= CacheMaxEntries
CacheLimited ==
  /\ Limited(cache, order)
  /\ file # Torn => Limited(file.entries, file.order)
FetchedIsCached == \A a \in answers : a.source = "upstream" => Cached(a.key) = a.entry

CacheInv == WorldTyped /\ WaitersTyped /\ CacheLimited /\ FetchedIsCached

LEMMA RefreshStarts ==
  ASSUME WaitersTyped, NEW k \in Keys, NEW fallback \in Entry \cup {None},
         StartFlight(k, fallback)
  PROVE  /\ DOMAIN inFlight' \subseteq Keys
         /\ \A f \in flights' : f.key \in Keys /\ f.fallback \in Entry \cup {None}
<1>1. PICK new : new = [id |-> NewId, key |-> k, start |-> now, fallback |-> fallback]
  OBVIOUS
<1>2. /\ flights' = flights \cup {new} /\ inFlight' = Put(inFlight, k, NewId)
      /\ new.key = k /\ new.fallback = fallback
  BY <1>1 DEF StartFlight
<1>3. DOMAIN inFlight' = DOMAIN inFlight \cup {k}
  BY <1>2 DEF Put
<1> QED  BY <1>2, <1>3 DEF WaitersTyped

LEMMA RequestTyped ==
  ASSUME CacheInv, NEW q \in Requests, NEW k \in Keys, Request(q, k)
  PROVE  CacheInv'
<1>1. UNCHANGED <<world, up, faults, cache, order, file>> /\ (Hit(k) \/ Miss(q, k))
  BY DEF Request
<1>2. WorldTyped' /\ CacheLimited'
  BY <1>1 DEF CacheInv, WorldTyped, CacheLimited, world
<1>3. Cached(k) \in Entry \cup {None} /\ (k \in DOMAIN cache => cache[k] \in Entry)
  BY DEF CacheInv, CacheLimited, Limited, Placed, Cached
<1>4. CASE Hit(k)
  <2>1. /\ k \in DOMAIN cache /\ UNCHANGED waiting
        /\ answers' = {Answer("cache", k, cache[k], Left(cache[k]), "none")}
        /\ StartFlight(k, cache[k]) \/ UNCHANGED <<flights, inFlight>>
    BY <1>4 DEF Hit
  <2>2. FetchedIsCached'
    BY <2>1 DEF FetchedIsCached, Answer
  <2>3. CASE StartFlight(k, cache[k])
    <3>1. WaitersTyped'
      BY <1>3, <2>1, <2>3, RefreshStarts DEF CacheInv, WaitersTyped
    <3> QED  BY <1>2, <2>2, <3>1 DEF CacheInv
  <2>4. CASE UNCHANGED <<flights, inFlight>>
    <3>1. WaitersTyped'
      BY <2>1, <2>4 DEF CacheInv, WaitersTyped
    <3> QED  BY <1>2, <2>2, <3>1 DEF CacheInv
  <2> QED  BY <2>1, <2>3, <2>4
<1>5. CASE Miss(q, k)
  <2>1. /\ answers' = {}
        /\ StartFlight(k, None) \/ UNCHANGED <<flights, inFlight>>
        /\ waiting' = waiting \cup
             {[req |-> q, key |-> k, at |-> now, existing |-> Cached(k),
               flight |-> inFlight'[k]]}
    BY <1>5 DEF Miss
  <2>2. \A w \in waiting' : w.req \in Requests /\ w.existing \in Entry \cup {None}
    BY <1>3, <2>1 DEF CacheInv, WaitersTyped
  <2>3. /\ DOMAIN inFlight' \subseteq Keys
        /\ \A f \in flights' : f.key \in Keys /\ f.fallback \in Entry \cup {None}
    <3>1. CASE StartFlight(k, None)
      BY <3>1, RefreshStarts DEF CacheInv
    <3>2. CASE UNCHANGED <<flights, inFlight>>
      BY <3>2 DEF CacheInv, WaitersTyped
    <3> QED  BY <2>1, <3>1, <3>2
  <2>4. FetchedIsCached'
    BY <2>1 DEF FetchedIsCached
  <2> QED  BY <1>2, <2>2, <2>3, <2>4 DEF CacheInv, WaitersTyped
<1> QED  BY <1>1, <1>4, <1>5

\* cache.set and evictIfNeeded: the limit holds, and what is stored stays, for
\* it is the youngest, or nothing has to go.
LEMMA StoreKeepsLimit ==
  ASSUME Limited(cache, order), \A x \in DOMAIN cache : cache[x].fetchedAt <= now,
         NEW k \in Keys, NEW e \in Entry, e.fetchedAt = now, Store(k, e)
  PROVE  Limited(cache', order') /\ k \in DOMAIN cache' /\ cache'[k] = e
<1>1. PICK c, o : c = Put(cache, k, e) /\ o = Insert(k)
  OBVIOUS
<1>2. PICK gone : gone = Evicted(c, o)
  OBVIOUS
<1>3. PICK n : n = Cardinality(DOMAIN cache)
  OBVIOUS
<1>4. PICK D : D = DOMAIN cache
  OBVIOUS
<1>5. /\ n \in Nat /\ CacheMaxEntries \in Nat \ {0} /\ n <= CacheMaxEntries
      /\ D \subseteq Keys /\ IsFiniteSet(D) /\ n = Cardinality(D)
      /\ \A x \in D : cache[x] \in Entry
      /\ order \in [D -> 1..n] /\ \A i, j \in D : order[i] = order[j] => i = j
  BY <1>3, <1>4, FS_CardinalityType, ResolverAssumption DEF Limited, Placed
<1>6. /\ DOMAIN c = D \cup {k} /\ c[k] = e
      /\ \A x \in D : x # k => c[x] = cache[x]
  BY <1>1, <1>4 DEF Put
<1>7. Placed(c, o) /\ k \notin gone
  <2>1. CASE k \in D
    <3>1. o = order /\ DOMAIN c = D
      BY <1>1, <1>4, <1>6, <2>1 DEF Insert
    <3>2. \A x \in DOMAIN c : c[x] \in Entry
      BY <1>5, <1>6, <3>1
    <3>3. Placed(c, o)
      BY <1>5, <3>1, <3>2 DEF Placed
    <3>4. Excess(c) \in Int /\ Excess(c) <= 0
      BY <1>5, <3>1 DEF Excess
    <3>5. Cardinality(Before(c, o, k)) \in Nat
      BY <3>1, <2>1, <3>3, BeforeFewer
    <3> QED  BY <1>2, <3>3, <3>4, <3>5 DEF Evicted
  <2>2. CASE k \notin D
    <3>1. /\ DOMAIN o = D \cup {k} /\ o[k] = n + 1
          /\ \A x \in D : o[x] = order[x] /\ o[x] \in 1..n
      BY <1>1, <1>3, <1>4, <1>5, <2>2 DEF Insert, Put
    <3>2. IsFiniteSet(DOMAIN c) /\ Cardinality(DOMAIN c) = n + 1
      BY <1>5, <1>6, <2>2, FS_AddElement
    <3>3. \A x \in DOMAIN c : c[x] \in Entry
      BY <1>5, <1>6
    <3>4. \A x \in DOMAIN c : o[x] \in 1..(n + 1)
      BY <1>5, <1>6, <3>1
    <3>5. o = [x \in DOMAIN c |-> o[x]]
      <4>1. o = [x \in DOMAIN order \cup {k} |-> IF x = k THEN n + 1 ELSE order[x]]
        BY <1>1, <1>3, <1>4, <2>2 DEF Insert, Put
      <4>2. DOMAIN order = D
        BY <1>5
      <4> QED  BY <1>6, <4>1, <4>2
    <3>6. \A i, j \in DOMAIN c : o[i] = o[j] => i = j
      BY <1>5, <1>6, <3>1
    <3>7. Placed(c, o)
      BY <1>5, <1>6, <3>2, <3>3, <3>4, <3>5, <3>6 DEF Placed
    <3>8. Before(c, o, k) = D
      <4>1. ASSUME NEW x \in D PROVE Older(c, o, x, k)
        <5>1. c[x] = cache[x] /\ x \in DOMAIN cache
          BY <1>4, <1>6, <2>2
        <5>2. c[x].fetchedAt <= now /\ c[x].fetchedAt \in Int /\ e.fetchedAt \in Int
          BY <1>5, <5>1, ResolverAssumption DEF Entry
        <5>3. o[x] < o[k]
          BY <1>5, <3>1
        <5> QED  BY <1>6, <5>2, <5>3 DEF Older
      <4>2. ~Older(c, o, k, k)
        BY <1>5, <1>6, <3>1, ResolverAssumption DEF Older, Entry
      <4> QED  BY <1>6, <4>1, <4>2 DEF Before
    <3>9. Excess(c) <= n /\ Excess(c) \in Int
      BY <1>5, <3>2 DEF Excess
    <3>10. ~(Cardinality(Before(c, o, k)) < Excess(c))
      BY <1>5, <3>8, <3>9
    <3> QED  BY <1>2, <3>7, <3>10 DEF Evicted
  <2> QED  BY <2>1, <2>2
<1>8. PICK S : S = DOMAIN c \ gone
  OBVIOUS
<1>9. cache' = [x \in S |-> c[x]] /\ order' = Places(o, S)
  <2>1. DOMAIN o = DOMAIN c
    BY <1>7 DEF Placed
  <2> QED  BY <1>1, <1>2, <1>8, <2>1 DEF Store, Without
<1>10. S \in SUBSET DOMAIN c /\ Placed(cache', order')
  BY <1>7, <1>8, <1>9, EvictionPlaces
<1>11. Cardinality(S) <= CacheMaxEntries
  BY <1>2, <1>7, <1>8, EvictionBounds
<1>12. k \in S
  BY <1>6, <1>7, <1>8
<1> QED  BY <1>6, <1>9, <1>10, <1>11, <1>12 DEF Limited

\* Nobody is told that an upstream answered when it did not.
LEMMA RejectedFetchedNothing ==
  ASSUME NEW f, NEW cause, answers' = Rejected(f, cause) PROVE FetchedIsCached'
BY DEF FetchedIsCached, Rejected, Answer

LEMMA LandTyped ==
  ASSUME WaitersTyped, NEW f, Land(f) PROVE WaitersTyped'
BY DEF WaitersTyped, Land, Without

LEMMA SettleTyped ==
  ASSUME CacheInv, ResolverInv, NEW f \in flights, Settle(f)
  PROVE  CacheInv'
<1>1. UNCHANGED world /\ up
  BY DEF Settle
<1>2. now \in 0..MaxTime /\ now' = now
  BY <1>1 DEF CacheInv, WorldTyped, world
<1>3. CASE \E r \in Successes : r.seen = Seen(f) /\ Refreshed(f, r.sel)
  <2>1. PICK r \in Successes : r.seen = Seen(f) /\ Refreshed(f, r.sel)
    BY <1>3
  <2>2. PICK e : e = [verdict |-> r.sel.verdict, confidence |-> r.sel.confidence,
                      ttl |-> r.sel.ttl, fetchedAt |-> now]
    OBVIOUS
  <2>3. e \in Entry /\ e.fetchedAt = now /\ f.key \in Keys
    BY <1>2, <2>2, FetchedTyped DEF CacheInv, WaitersTyped
  <2>4. PICK saved : saved = [entries |-> cache', order |-> order']
    OBVIOUS
  <2>5. /\ Store(f.key, e) /\ Land(f) /\ UNCHANGED up
        /\ \/ /\ file' = saved /\ UNCHANGED faults
              /\ answers' = {Answer("upstream", f.key, e, e.ttl, "none") :
                               w \in {w \in waiting : w.flight = f.id}}
           \/ /\ faults < MaxFaults /\ faults' = faults + 1
              /\ file' \in {file, Torn} /\ answers' = Rejected(f, "write")
    BY <2>1, <2>2, <2>4 DEF Refreshed
  <2>6. \A x \in DOMAIN cache : cache[x].fetchedAt <= now
    BY DEF ResolverInv, StoredInv, AllSound, Sound
  <2>7. Limited(cache', order') /\ f.key \in DOMAIN cache' /\ cache'[f.key] = e
    BY <2>3, <2>5, <2>6, StoreKeepsLimit DEF CacheInv, CacheLimited
  <2>8. WorldTyped'
    <3>1. faults' \in 0..MaxFaults
      BY <2>5, ResolverAssumption DEF CacheInv, WorldTyped
    <3> QED  BY <1>1, <2>5, <3>1 DEF CacheInv, WorldTyped, world
  <2>9. WaitersTyped'
    BY <2>5, LandTyped DEF CacheInv
  <2>10. CacheLimited'
    <3>1. CASE file' = saved
      BY <2>4, <2>7, <3>1 DEF CacheLimited
    <3>2. CASE file' \in {file, Torn}
      BY <2>7, <3>2 DEF CacheInv, CacheLimited
    <3> QED  BY <2>5, <3>1, <3>2
  <2>11. FetchedIsCached'
    <3>1. CASE answers' = Rejected(f, "write")
      BY <3>1, RejectedFetchedNothing
    <3>2. CASE answers' = {Answer("upstream", f.key, e, e.ttl, "none") :
                             w \in {w \in waiting : w.flight = f.id}}
      BY <2>7, <3>2 DEF FetchedIsCached, Answer, Cached
    <3> QED  BY <2>5, <3>1, <3>2
  <2> QED  BY <2>8, <2>9, <2>10, <2>11 DEF CacheInv
<1>4. CASE \E r \in Failures : r.seen = Seen(f) /\ Failed(f, r.cause)
  <2>1. PICK cause : Failed(f, cause)
    BY <1>4
  <2>2. /\ Land(f) /\ answers' = Rejected(f, cause)
        /\ UNCHANGED <<cache, order, file, up, faults>>
    BY <2>1 DEF Failed
  <2>3. WorldTyped' /\ CacheLimited'
    BY <1>1, <2>2 DEF CacheInv, WorldTyped, CacheLimited, world
  <2> QED  BY <2>2, <2>3, LandTyped, RejectedFetchedNothing DEF CacheInv
<1> QED  BY <1>3, <1>4 DEF Settle

LEMMA ProcessTyped ==
  ASSUME CacheInv, Crash \/ Restart
  PROVE  CacheInv'
<1>1. CASE Crash
  <2>1. /\ UNCHANGED world /\ up' = FALSE /\ faults < MaxFaults /\ faults' = faults + 1
        /\ file' \in {file, Torn} /\ cache' = EmptyMap /\ order' = EmptyMap
        /\ flights' = {} /\ inFlight' = EmptyMap /\ waiting' = {} /\ answers' = {}
    BY <1>1 DEF Crash
  <2>2. faults' \in 0..MaxFaults
    BY <2>1, ResolverAssumption DEF CacheInv, WorldTyped
  <2>3. WorldTyped'
    BY <2>1, <2>2 DEF CacheInv, WorldTyped, world
  <2>4. WaitersTyped' /\ FetchedIsCached'
    BY <2>1 DEF WaitersTyped, FetchedIsCached, EmptyMap
  <2>5. Limited(cache', order')
    BY <2>1, EmptyPlaced, ResolverAssumption DEF Limited
  <2>6. CacheLimited'
    BY <2>1, <2>5 DEF CacheInv, CacheLimited
  <2> QED  BY <2>3, <2>4, <2>6 DEF CacheInv
<1>2. CASE Restart
  <2>1. /\ up' = TRUE /\ answers' = {}
        /\ UNCHANGED <<world, faults, file, flights, inFlight, waiting>>
        /\ \/ file = Torn /\ cache' = EmptyMap /\ order' = EmptyMap
           \/ file # Torn /\ cache' = file.entries /\ order' = file.order
    BY <1>2 DEF Restart
  <2>2. WorldTyped' /\ WaitersTyped' /\ FetchedIsCached'
    BY <2>1 DEF CacheInv, WorldTyped, WaitersTyped, FetchedIsCached, world
  <2>3. Limited(EmptyMap, EmptyMap)
    BY EmptyPlaced, ResolverAssumption DEF Limited
  <2>4. Limited(cache', order')
    BY <2>1, <2>3 DEF CacheInv, CacheLimited
  <2>5. CacheLimited'
    BY <2>1, <2>4 DEF CacheInv, CacheLimited
  <2> QED  BY <2>2, <2>5 DEF CacheInv
<1> QED  BY <1>1, <1>2

LEMMA WorldTypes ==
  ASSUME CacheInv, Tick \/ (\E k \in Keys, v \in Truths : Change(k, v))
  PROVE  CacheInv'
<1>1. /\ now \in 0..MaxTime /\ truth \in [Keys -> Truths] /\ MaxTime \in Nat
      /\ trueAt \in [Keys -> [Truths -> Never..MaxTime]] /\ Never = -1
      /\ changes \in 0..MaxChanges /\ MaxChanges \in Nat
  BY ResolverAssumption DEF CacheInv, WorldTyped, Never
<1>2. UNCHANGED <<up, faults, memory, file>> /\ answers' = {}
  BY DEF Tick, Change
<1>3. WaitersTyped' /\ CacheLimited' /\ FetchedIsCached'
  BY <1>2 DEF CacheInv, WaitersTyped, CacheLimited, FetchedIsCached, memory
<1>4. CASE Tick
  <2>1. /\ now < MaxTime /\ now' = now + 1 /\ UNCHANGED <<truth, changes>>
        /\ trueAt' = [k \in Keys |-> [trueAt[k] EXCEPT ![truth[k]] = now + 1]]
    BY <1>4 DEF Tick
  <2>2. now' \in 0..MaxTime /\ now + 1 \in Never..MaxTime
    BY <1>1, <2>1
  <2>3. \A k \in Keys : [trueAt[k] EXCEPT ![truth[k]] = now + 1] \in [Truths -> Never..MaxTime]
    BY <1>1, <2>2
  <2>4. trueAt' \in [Keys -> [Truths -> Never..MaxTime]]
    BY <2>1, <2>3
  <2> QED  BY <1>1, <1>2, <1>3, <2>1, <2>2, <2>4 DEF CacheInv, WorldTyped
<1>5. CASE \E k \in Keys, v \in Truths : Change(k, v)
  <2>1. PICK k \in Keys, v \in Truths : Change(k, v)
    BY <1>5
  <2>2. /\ changes < MaxChanges /\ changes' = changes + 1 /\ UNCHANGED now
        /\ truth' = [truth EXCEPT ![k] = v]
        /\ trueAt' = [trueAt EXCEPT ![k][v] = now]
    BY <2>1 DEF Change
  <2>3. changes' \in 0..MaxChanges /\ now \in Never..MaxTime
    BY <1>1, <2>2
  <2>4. truth' \in [Keys -> Truths]
    BY <1>1, <2>2
  <2>5. [trueAt[k] EXCEPT ![v] = now] \in [Truths -> Never..MaxTime]
    BY <1>1, <2>3
  <2>6. trueAt' \in [Keys -> [Truths -> Never..MaxTime]]
    BY <1>1, <2>2, <2>5
  <2> QED  BY <1>1, <1>2, <1>3, <2>2, <2>3, <2>4, <2>6 DEF CacheInv, WorldTyped
<1> QED  BY <1>4, <1>5

LEMMA InitTyped ==
  ASSUME Init
  PROVE  CacheInv
<1>1. WorldTyped
  <2>1. MaxTime \in Nat /\ 0 \in Never..MaxTime /\ Never \in Never..MaxTime
    BY ResolverAssumption DEF Never
  <2>2. trueAt = [k \in Keys |-> [v \in Truths |-> IF v = truth[k] THEN 0 ELSE Never]]
    BY DEF Init
  <2>3. trueAt \in [Keys -> [Truths -> Never..MaxTime]]
    BY <2>1, <2>2
  <2> QED  BY <2>1, <2>3, ResolverAssumption DEF Init, WorldTyped
<1>2. WaitersTyped /\ FetchedIsCached
  BY DEF Init, WaitersTyped, FetchedIsCached, EmptyMap
<1>3. Limited(EmptyMap, EmptyMap)
  BY EmptyPlaced, ResolverAssumption DEF Limited
<1>4. CacheLimited
  BY <1>3 DEF Init, CacheLimited
<1> QED  BY <1>1, <1>2, <1>4 DEF CacheInv

LEMMA StepTyped ==
  ASSUME CacheInv, ResolverInv, [Next]_vars
  PROVE  CacheInv'
<1>1. CASE UNCHANGED vars
  BY <1>1 DEF vars, world, memory, CacheInv, WorldTyped, WaitersTyped, CacheLimited,
              FetchedIsCached, Cached
<1> QED  BY <1>1, RequestTyped, SettleTyped, ProcessTyped, WorldTypes DEF Next

LEMMA CacheCorrect == Spec => []CacheInv
<1>1. Init => CacheInv
  BY InitTyped
<1>2. CacheInv /\ ResolverInv /\ [Next]_vars => CacheInv'
  BY StepTyped
<1> QED  BY <1>1, <1>2, ResolverCorrect, PTL DEF Spec

\* The variables of the resolver keep their types, and the order in which the
\* Map was filled is one of the keys it holds, through evictions and restarts.
THEOREM ResolverTyped == Spec => []TypeOK
<1>1. CacheInv => TypeOK
  BY DEF CacheInv, WorldTyped, WaitersTyped, CacheLimited, Limited, Placed, TypeOK
<1> QED  BY <1>1, CacheCorrect, PTL

\* The cache never has more entries than its limit, and evictIfNeeded never
\* drops what a refresh has just stored, also where everything was stored in
\* the same second.
THEOREM CacheStaysBounded == Spec => []CacheBounded
<1>1. CacheInv => CacheBounded
  BY DEF CacheInv, CacheLimited, Limited, FetchedIsCached, CacheBounded
<1> QED  BY <1>1, CacheCorrect, PTL

=============================================================================
