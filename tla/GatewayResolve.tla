--------------------------- MODULE GatewayResolve ---------------------------
(* The resolution endpoints of the gateway: /resolve with its voucher gate,  *)
(* cache and node quorum, the .dns answers verified against the chain, the   *)
(* DNS-over-HTTPS door, the signed cache entries and the attack mode that    *)
(* every request re-evaluates.  Requests are handled concurrently: the chain *)
(* and the upstream change between the steps of one.                         *)
EXTENDS AttackMode, Sequences, FiniteSetsExt

CONSTANTS
  GrConfigs,  \* records: attackOn, aggregator, quorum, requireOwner, vouchers
  GrNames,    \* the names of the DNS that are asked for
  GrGated,    \* those of them with a gated suffix
  GrVouchers, \* the vouchers presented: records genuine, exp
  GrRequests, \* the requests that may be in flight at a time
  GrRecords,  \* the record sets the upstream and the nodes may return: {} too
  GrTtls,     \* the times to live the upstream may give: 0 too
  GrTtlMax,   \* CACHE_TTL_MAX_S
  GrDests,    \* the destinations of the .dns name
  GrNodes,    \* the nodes that may be listed
  GrWindow,   \* ATTACK_WINDOW_SECS
  GrMaxSlot,  \* bound: the slots of the chain
  GrMaxTotal, \* bound: requests and remote calls counted in a window
  GrJumps,    \* by how much time may pass at once, in seconds
  GrMaxNow    \* bound: the last second

ASSUME GrAssumption ==
  GrTtlMax \in Nat /\ GrTtls \subseteq Nat /\ GrJumps \subseteq Nat

VARIABLES grConfig, grNow, grAttack, grCounters, grCache, grMints, grInFlight,
          grChain, grAnswer
grVars == <<grConfig, grNow, grAttack, grCounters, grCache, grMints,
            grInFlight, grChain, grAnswer>>

Idle == [at |-> "idle"]
NoGrAnswer == [kind |-> "none"]
NoCounts(now) == [start |-> now, total |-> 0, gatewayErr |-> 0,
                  rpcTotal |-> 0, rpcErr |-> 0]

GrInit ==
  /\ grConfig \in GrConfigs
  /\ grNow = 0
  /\ grAttack = [mode |-> "NORMAL", memory |-> AmNever]
  /\ grCounters = NoCounts(0)
  /\ grCache = <<>>
  /\ grMints = {}
  /\ grInFlight = [r \in GrRequests |-> Idle]
  /\ grChain = <<>>
  /\ grAnswer = NoGrAnswer

--------------------------------------------------------------------------
(* The attack mode: currentAttackPolicy *)

ResetAttackWindow ==
  IF grNow - grCounters.start >= GrWindow THEN NoCounts(grNow) ELSE grCounters

AttackAfter(attack, counters) ==
  LET signals == [QuietSignals EXCEPT
                    !.rpcFail = Share(counters.rpcErr, counters.rpcTotal),
                    !.gatewayErr = Share(counters.gatewayErr, counters.total)]
  IN IF ~grConfig.attackOn THEN [attack EXCEPT !.mode = "NORMAL"]
     ELSE EvaluateAttackMode(attack.mode, signals, grNow, attack.memory)
CurrentAttack == AttackAfter(grAttack, ResetAttackWindow)

\* The middleware evaluates the mode for every request.
Judge == grAttack' = CurrentAttack

CountedBelowBound ==
  grCounters.total < GrMaxTotal /\ grCounters.rpcTotal < GrMaxTotal

AttackModeStatus ==
  /\ Judge
  /\ grCounters' = ResetAttackWindow
  /\ UNCHANGED <<grConfig, grNow, grCache, grMints, grInFlight, grChain, grAnswer>>

--------------------------------------------------------------------------
(* GET /resolve of a name of the DNS *)

\* verifyVoucherHeader: neither the nonce nor the amount is looked at, and an
\* exp of 0 never expires.
VoucherAccepted(v) ==
  grConfig.vouchers /\ v.genuine /\ (v.exp = 0 \/ grNow <= v.exp)

\* Counted, and refused by the gate, or answered by ENS, SNS or the registry;
\* for the registry's answer the mode is evaluated once more.
ResolveElsewhere ==
  /\ CountedBelowBound
  /\ grCounters' = [ResetAttackWindow EXCEPT !.total = @ + 1]
  /\ Judge \/ grAttack' = AttackAfter(CurrentAttack, grCounters')
  /\ UNCHANGED <<grConfig, grNow, grCache, grMints, grInFlight, grChain, grAnswer>>

\* A hit has not expired, and may be an answer without records.
CacheHit(name) == name \in DOMAIN grCache /\ grNow <= grCache[name].expires
CacheWithout(name) == [n \in DOMAIN grCache \ {name} |-> grCache[n]]

\* A hit is answered at once, a miss drops the entry and waits for the upstream.
Resolve(r, name) ==
  /\ grInFlight[r] = Idle /\ CountedBelowBound
  /\ name \in GrGated => \E v \in GrVouchers : VoucherAccepted(v)
  /\ Judge
  /\ grCounters' = [ResetAttackWindow EXCEPT !.total = @ + 1]
  /\ IF CacheHit(name)
     THEN /\ grAnswer' = [kind |-> "icann", name |-> name,
                          records |-> grCache[name].records]
          /\ UNCHANGED <<grCache, grInFlight>>
     ELSE /\ grInFlight' = [grInFlight EXCEPT ![r] = [at |-> "doh", name |-> name]]
          /\ grCache' = CacheWithout(name)
          /\ UNCHANGED grAnswer
  /\ UNCHANGED <<grConfig, grNow, grMints, grChain>>

\* (For the mutation check: no maximum.)
DohTtlMut(records, ttl) == IF records = {} \/ ttl = 0 THEN 60
                           ELSE IF ttl < 30 THEN 30 ELSE ttl

\* resolveViaDoh takes a time to live of 0 for a minute, keeps it at or below
\* the maximum but never below 30 seconds, and keeps an answer without records
\* for a minute whatever the maximum; the mode clamps it further.
DohTtl(records, ttl) ==
  LET given == IF ttl = 0 THEN 60 ELSE ttl
  IN CASE records = {} -> 60
       [] records # {} /\ (given < 30 \/ GrTtlMax < 30) -> 30
       [] OTHER -> IF given > GrTtlMax THEN GrTtlMax ELSE given
Clamped(ttl) ==
  LET clamp == PolicyForMode(CurrentAttack.mode).ttlClamp
  IN IF clamp > 0 /\ clamp < ttl THEN clamp ELSE ttl

\* cacheSet, at the time the answer is ready.
Answered(r, request) ==
  /\ grCache' = [n \in DOMAIN grCache \union {request.name} |->
                   IF n # request.name THEN grCache[n]
                   ELSE [records |-> request.records, expires |-> grNow + request.ttl]]
  /\ grAnswer' = [kind |-> "icann", name |-> request.name,
                  records |-> request.records]
  /\ grInFlight' = [grInFlight EXCEPT ![r] = Idle]

DohAnswers(r, records, ttl) ==
  LET request == [at |-> "nodes", name |-> grInFlight[r].name,
                  records |-> records, ttl |-> Clamped(DohTtl(records, ttl))]
  IN /\ grInFlight[r].at = "doh"
     /\ Judge
     /\ grCounters' = ResetAttackWindow
     /\ IF grConfig.aggregator
        THEN /\ grInFlight' = [grInFlight EXCEPT ![r] = request]
             /\ UNCHANGED <<grCache, grAnswer>>
        ELSE Answered(r, request)
     /\ UNCHANGED <<grConfig, grNow, grMints, grChain>>

DohFails(r) ==
  /\ grInFlight[r].at = "doh"
  /\ grInFlight' = [grInFlight EXCEPT ![r] = Idle]
  /\ grCounters' = [grCounters EXCEPT !.gatewayErr = @ + 1]
  /\ UNCHANGED <<grConfig, grNow, grAttack, grCache, grMints, grChain, grAnswer>>

\* verifyWithNodes: enough of the listed nodes returned the same records.  An
\* empty list asks nobody; a list shorter than the quorum lowers it.
NodeQuorumMet(answers, records) ==
  LET agreeing == {n \in DOMAIN answers : answers[n] = records}
  IN Cardinality(agreeing) >= Min({grConfig.quorum, Cardinality(DOMAIN answers)})

NodesAnswer(r) ==
  /\ grInFlight[r].at = "nodes"
  /\ \E listed \in SUBSET GrNodes :
       \E answers \in [listed -> GrRecords \union {{}}] :
         IF NodeQuorumMet(answers, grInFlight[r].records)
         THEN Answered(r, grInFlight[r])
         ELSE /\ grInFlight' = [grInFlight EXCEPT ![r] = Idle]
              /\ UNCHANGED <<grCache, grAnswer>>
  /\ UNCHANGED <<grConfig, grNow, grAttack, grCounters, grMints, grChain>>

--------------------------------------------------------------------------
(* GET /v1/route, /v1/resolve and /dns-query of a .dns name *)

\* The chain: each slot has a canonical destination; the last one is current.
ChainMoves ==
  /\ Len(grChain) < GrMaxSlot
  /\ \E dest \in GrDests : grChain' = Append(grChain, dest)
  /\ UNCHANGED <<grConfig, grNow, grAttack, grCounters, grCache, grMints,
                 grInFlight, grAnswer>>

\* getCanonicalDestHash returns the route with the slot it was read at.
GetCanonicalDestHash == [slot |-> Len(grChain), dest |-> grChain[Len(grChain)]]

DnsRequested(r) ==
  /\ grInFlight[r] = Idle /\ grChain # <<>>
  /\ Judge
  /\ grCounters' = ResetAttackWindow
  /\ grInFlight' = [grInFlight EXCEPT ![r] =
                      [at |-> "witness", canonical |-> GetCanonicalDestHash]]
  /\ UNCHANGED <<grConfig, grNow, grCache, grMints, grChain, grAnswer>>

\* verifyCandidateDest compares with the route read at the start.  Without a
\* candidate the answer is not verified.
VerifyCandidateDest(canonical, candidate) ==
  [kind |-> "dns", slot |-> canonical.slot,
   verified |-> candidate = {canonical.dest},
   dest |-> IF candidate = {canonical.dest} THEN candidate ELSE {}]

\* The candidate is the caller's, or what the witness answers, or missing.
DnsAnswered(r) ==
  /\ grInFlight[r].at = "witness"
  /\ \E candidate \in {{}} \union {{d} : d \in GrDests} :
       grAnswer' = VerifyCandidateDest(grInFlight[r].canonical, candidate)
  /\ grInFlight' = [grInFlight EXCEPT ![r] = Idle]
  /\ UNCHANGED <<grConfig, grNow, grAttack, grCounters, grCache, grMints, grChain>>

\* resolveDohAnswers of a .dns name passes no candidate: the name of a
\* canonical route has no destination, and the reply is "no such name".
DnsQuery ==
  /\ Judge
  /\ grCounters' = ResetAttackWindow
  /\ grAnswer' =
       IF grChain = <<>> THEN [kind |-> "wire", rcode |-> 2]
       ELSE [kind |-> "wire",
             rcode |-> IF VerifyCandidateDest(GetCanonicalDestHash, {}).dest = {}
                       THEN 3 ELSE 0]
  /\ UNCHANGED <<grConfig, grNow, grCache, grMints, grInFlight, grChain>>

--------------------------------------------------------------------------
(* POST /cache/upsert *)

\* fetchJsonRpc counts the call as it is made, and later an error for a bad reply
\* but none for a lost one.
AfterRpc(counters) == [counters EXCEPT !.rpcTotal = @ + 1]
AfterReply(reply) ==
  [grCounters EXCEPT !.rpcErr = @ + IF reply = "error" THEN 1 ELSE 0]

\* A write is refused while the mode freezes writes.
UpsertAsked(r) ==
  /\ grInFlight[r] = Idle /\ CountedBelowBound
  /\ Judge
  /\ IF PolicyForMode(CurrentAttack.mode).freezeWrites
     THEN grCounters' = ResetAttackWindow /\ UNCHANGED grInFlight
     ELSE /\ grCounters' = AfterRpc(ResetAttackWindow)
          /\ grInFlight' = [grInFlight EXCEPT ![r] = [at |-> "mint"]]
  /\ UNCHANGED <<grConfig, grNow, grCache, grMints, grChain, grAnswer>>

\* The mint must exist and, when asked for, its largest account must be held by
\* the wallet.
UpsertNext(at) == CASE at = "mint" /\ grConfig.requireOwner -> "largest"
                    [] at = "largest" -> "holder"
                    [] OTHER -> "idle"

\* After the last call the signature is verified and the entry written; its time
\* is not compared with that of the entry it replaces.
UpsertContinues(r) ==
  /\ grInFlight[r].at \in {"mint", "largest", "holder"}
  /\ \E reply \in {"found", "absent", "error", "lost"} :
       LET next == IF reply = "found" THEN UpsertNext(grInFlight[r].at) ELSE "idle"
       IN /\ grInFlight' = [grInFlight EXCEPT ![r] = [at |-> next]]
          /\ grCounters' = IF next = "idle" THEN AfterReply(reply) ELSE AfterRpc(grCounters)
          /\ \/ UNCHANGED grMints
             \/ reply = "found" /\ next = "idle" /\ grMints' \in GrRecords \ {{}}
  /\ UNCHANGED <<grConfig, grNow, grAttack, grCache, grChain, grAnswer>>

GrTick ==
  /\ \E d \in GrJumps : grNow + d <= GrMaxNow /\ grNow' = grNow + d
  /\ UNCHANGED <<grConfig, grAttack, grCounters, grCache, grMints, grInFlight,
                 grChain, grAnswer>>

GrNext ==
  \/ AttackModeStatus \/ ResolveElsewhere \/ ChainMoves \/ DnsQuery \/ GrTick
  \/ \E r \in GrRequests :
       \/ DohFails(r) \/ NodesAnswer(r) \/ DnsRequested(r) \/ DnsAnswered(r)
       \/ UpsertAsked(r) \/ UpsertContinues(r)
       \/ \E name \in GrNames : Resolve(r, name)
       \/ \E records \in GrRecords, ttl \in GrTtls : DohAnswers(r, records, ttl)
GrSpec == GrInit /\ [][GrNext]_grVars

--------------------------------------------------------------------------
\* A verified answer names the destination the chain held at the very slot the
\* answer reports, though the chain may have moved on while the gateway waited
\* for the watchdog policy and for the witness: a client that replays the proof
\* at that slot finds the answer right.
VerifiedAtSlot ==
  grAnswer.kind = "dns" =>
    /\ grAnswer.slot \in DOMAIN grChain
    /\ grAnswer.verified <=> grAnswer.dest = {grChain[grAnswer.slot]}

\* A record set is not served for longer than the maximum, or 30 seconds if that
\* is more, from the moment it was confirmed, whatever time to live the upstream
\* claimed and however the mode moved while the nodes were being asked; an answer
\* without records, to which the maximum is not applied, for no longer than 60.
LongestLife(records) == IF records = {} THEN 60
                        ELSE IF GrTtlMax < 30 THEN 30 ELSE GrTtlMax
CacheLifeBounded ==
  \A n \in DOMAIN grCache : grCache[n].expires <= grNow + LongestLife(grCache[n].records)
=============================================================================
