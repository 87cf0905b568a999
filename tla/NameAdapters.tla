---------------------------- MODULE NameAdapters ----------------------------
(* The name adapters of the gateway: which adapter a name goes to, and what  *)
(* each makes of the records it finds.  A record value is [kind, id]: kind   *)
(* is what the value parses as, "ipfs", "ar" or "plain".  The requests pass  *)
(* the middleware of GatewayResolve first; they keep no other state.         *)
EXTENDS Integers, Sequences, FiniteSets, FiniteSetsExt

CONSTANTS
  NaEns,      \* what the calls to the ENS contracts may find
  NaSns,      \* what the name service account may hold
  NaReplies,  \* how a content gateway may reply: status, size, timeout
  NaGateways, \* the gateways the ipfs adapter probes, in order
  NaMaxBytes  \* SITE_MAX_BYTES

\* An address or an owner never parses as content.
ASSUME NaAssumption ==
  /\ \A f \in NaEns : \A v \in f.addr : v.kind = "plain"
  /\ \A f \in NaSns : \A v \in f.owner \cup f.program : v.kind = "plain"

VARIABLE naAnswer  \* the last answer

\* resolveAuto: the suffix, then the scheme, decides; everything else goes to
\* the recursive resolver.  No adapter is tried after another fails.
AdapterOf(suffix) ==
  CASE suffix = ".dns"    -> "pkdns"
    [] suffix = "ipfs://" -> "ipfs"
    [] suffix = ".eth"    -> "ens"
    [] suffix = ".sol"    -> "sns"
    [] OTHER              -> "recursive"

\* resolveWithSource: the named adapter, or none; an adapter answers the
\* suffix it supports only (the recursive one everything but .dns).
AnswersFor(kind, suffix) ==
  IF kind = "recursive" THEN suffix # ".dns" ELSE AdapterOf(suffix) = kind

\* parseHostingTarget: a content identifier or a transaction, or nothing.
ParseHostingTarget(value) == IF value.kind \in {"ipfs", "ar"} THEN {value} ELSE {}

\* selectPreferredTextRecord: the first key of this order that has a value,
\* whether or not the value parses.
TextOrder == <<"content", "ipfs", "arweave", "url">>
SelectPreferredText(texts) ==
  LET hits == {i \in DOMAIN TextOrder : TextOrder[i] \in DOMAIN texts}
  IN IF hits = {} THEN {} ELSE {texts[TextOrder[Min(hits)]]}

\* resolveEns: found is [resolver, addr, content, texts]; a set stands for an
\* optional value.  Without a resolver, or without a record, no answer.
EnsHasRecords(found) ==
  found.resolver /\ (found.addr # {} \/ found.content # {} \/ DOMAIN found.texts # {})

\* createEnsAdapter: the content hash when it decodes, the preferred text,
\* parsed or raw, the address, and "ens:records" when nothing else is there:
\* the content hash alone, not decoded.
EnsRecords == [kind |-> "plain", id |-> 0]
EnsDest(found) ==
  LET content == UNION {ParseHostingTarget(c) : c \in found.content}
      text == SelectPreferredText(found.texts)
  IN CASE content # {}    -> content
       [] content = {} /\ text # {} -> text
       [] OTHER -> IF found.addr = {} THEN {EnsRecords} ELSE found.addr

\* resolveSns: the registry's owner and texts when the account parses, else
\* the owner of the account itself, which is the name program.
SnsDest(found) ==
  LET text == SelectPreferredText(found.texts)
  IN IF found.parses /\ text # {} THEN text
     ELSE IF found.parses THEN found.owner ELSE found.program

\* createIpfsAdapter: with the HEAD probe, the first gateway that answers.
HeadAny(gateways, answering) ==
  LET up == {i \in DOMAIN gateways : gateways[i] \in answering}
  IN IF up = {} THEN {} ELSE {gateways[Min(up)]}

\* enrichContent: an answer that leads to ipfs gets the ipfs adapter's proof.
Enriched(kind, dest) == kind # "ipfs" /\ \E d \in dest : d.kind = "ipfs"

\* fetchIpfsSite and fetchArweaveSite: the status of a site request.  Only a
\* missing index of an arweave bundle is asked for again, at its root.
FetchWithLimit(reply, maxBytes) ==
  CASE reply.timeout -> 504
    [] ~reply.timeout /\ reply.status # 200 -> reply.status
    [] OTHER -> IF reply.size > maxBytes THEN 413 ELSE 200
FetchSite(scheme, path, first, second, maxBytes) ==
  CASE path = "dotdot" -> 400
    [] path # "dotdot" /\ scheme = "ar" /\ path = "index"
         /\ FetchWithLimit(first, maxBytes) = 404 -> FetchWithLimit(second, maxBytes)
    [] OTHER -> FetchWithLimit(first, maxBytes)

--------------------------------------------------------------------------
(* The endpoints *)

NoNaAnswer == [kind |-> "none", dest |-> {}, enriched |-> FALSE, probe |-> {},
               status |-> 0]

\* What an adapter finds for a name, as a set: no answer, or a destination.
NaFound(suffix) ==
  CASE AdapterOf(suffix) = "ens" ->
         {IF EnsHasRecords(f) THEN EnsDest(f) ELSE {} : f \in NaEns}
    [] AdapterOf(suffix) = "sns" -> {SnsDest(f) : f \in NaSns}
    [] AdapterOf(suffix) = "ipfs" -> {{[kind |-> "ipfs", id |-> 0]}, {}}

Gateways == {NaGateways[i] : i \in DOMAIN NaGateways}
RouteOf(suffix, dest, up) ==
  [NoNaAnswer EXCEPT
     !.kind = IF dest = {} THEN "not_found" ELSE AdapterOf(suffix),
     !.dest = dest,
     !.enriched = Enriched(AdapterOf(suffix), dest),
     !.probe = IF AdapterOf(suffix) = "ipfs" /\ dest # {}
               THEN HeadAny(NaGateways, up) ELSE {}]

\* GET /v1/route: resolveAuto.
RouteAnswered ==
  \E suffix \in {".eth", ".sol", "ipfs://"}, up \in SUBSET Gateways :
    \E dest \in NaFound(suffix) : naAnswer' = RouteOf(suffix, dest, up)

\* The command line asks an adapter by its name: resolveWithSource.
RouteAskedFor ==
  \E suffix \in {".eth", ".sol", "ipfs://"}, source \in {"ens", "sns", "ipfs"},
     up \in SUBSET Gateways :
    \E dest \in IF AnswersFor(source, suffix) THEN NaFound(suffix) ELSE {{}} :
      naAnswer' = RouteOf(suffix, dest, up)

\* GET /v1/site: fetched for a destination that parses as content only; that no
\* adapter found the name is an internal error.
SiteServed ==
  \E suffix \in {".eth", ".sol"}, path \in {"index", "page", "dotdot"},
     first, second \in NaReplies :
    \E dest \in NaFound(suffix) :
      LET target == UNION {ParseHostingTarget(d) : d \in dest}
      IN naAnswer' =
           [NoNaAnswer EXCEPT
              !.kind = "site", !.dest = dest,
              !.status = CASE dest = {} -> 500
                           [] dest # {} /\ target = {} -> 400
                           [] OTHER -> FetchSite((CHOOSE t \in target : TRUE).kind, path,
                                                 first, second, NaMaxBytes)]

NaInit == naAnswer = NoNaAnswer
NaNext == RouteAnswered \/ RouteAskedFor \/ SiteServed
NaSpec == NaInit /\ [][NaNext]_naAnswer

--------------------------------------------------------------------------
\* A site is served only for content that a record of the name itself names:
\* never for an address or an owner that stands in for a missing record, nor
\* for a text of an account that does not parse.
SitesFromRecords ==
  naAnswer.kind = "site" /\ naAnswer.status = 200 =>
    \A d \in naAnswer.dest :
      \/ \E f \in NaEns : f.resolver /\ d \in f.content \cup {f.texts[k] : k \in DOMAIN f.texts}
      \/ \E f \in NaSns : f.parses /\ d \in {f.texts[k] : k \in DOMAIN f.texts}
=============================================================================
