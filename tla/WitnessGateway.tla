---------------------------- MODULE WitnessGateway ----------------------------
(* services/witness-gateway/src/index.ts: a resolver that signs a receipt for   *)
(* every answer, appends it to a spool file and, on a flush, moves the spool to *)
(* a batch file. Each handler runs without interruption, but the process may    *)
(* stop between two writes of a flush. (services/cf-worker-miner observes the   *)
(* same way from a Cloudflare worker and keeps nothing.)                        *)
EXTENDS Naturals, Sequences, SequencesExt

CONSTANTS
    WgNames,        \* names that pass normalizeAndValidateName
    WgDests,        \* destinations
    WgTtls,         \* TTLs asked for
    WgMaxTtl,       \* 86400
    WgDefaultTtl,   \* 300
    WgBucket,       \* ten minutes
    WgShown,        \* the last receipts /v1/receipts shows: 200
    WgMaxReceipts, WgMaxBatches, WgMaxNow

VARIABLES
    wgNow,
    wgRoutes,       \* DDNS_ROUTES_JSON of the running process
    wgSpool,        \* receipts.jsonl
    wgBatches,      \* the batch files
    wgFlushing,     \* whether a flush has written its batch and not yet removed the spool
    wgSigned,       \* every receipt handed out
    wgShown         \* what /v1/receipts showed last

wgVars == <<wgNow, wgRoutes, wgSpool, wgBatches, wgFlushing, wgSigned, wgShown>>

WgRoutesOf == UNION {[N -> WgDests] : N \in SUBSET WgNames}

WgInit ==
    /\ wgNow = 0
    /\ wgRoutes \in WgRoutesOf
    /\ wgSpool = << >>
    /\ wgBatches = {}
    /\ wgFlushing = FALSE
    /\ wgSigned = {}
    /\ wgShown = << >>

WgTtlOf(asked) == IF asked = 0 THEN WgDefaultTtl ELSE Max({1, Min({WgMaxTtl, asked})})

(* emitReceipt: the time of observation is known to the bucket. *)
ReceiptFor(n, ttl) ==
    [name |-> n, rrset |-> wgRoutes[n], ttl |-> ttl, bucket |-> (wgNow \div WgBucket) * WgBucket]

(* GET /v1/resolve for a name the process has a route for. *)
WitnessResolve(n, asked) ==
    /\ ~wgFlushing
    /\ n \in DOMAIN wgRoutes
    /\ Len(wgSpool) < WgMaxReceipts
    /\ wgSpool' = Append(wgSpool, ReceiptFor(n, WgTtlOf(asked)))
    /\ wgSigned' = wgSigned \cup {ReceiptFor(n, WgTtlOf(asked))}
    /\ UNCHANGED <<wgNow, wgRoutes, wgBatches, wgFlushing, wgShown>>

(* GET /v1/receipts: the receipts of a name among the last of the spool. *)
ShowReceipts(n) ==
    /\ ~wgFlushing
    /\ wgShown' = SelectSeq(SubSeq(wgSpool, Max({1, Len(wgSpool) - WgShown + 1}), Len(wgSpool)),
                            LAMBDA r : r.name = n)
    /\ UNCHANGED <<wgNow, wgRoutes, wgSpool, wgBatches, wgFlushing, wgSigned>>

(* (For the mutation check: a batch of the same time is overwritten.) *)
FlushWriteMut ==
    /\ ~wgFlushing
    /\ wgSpool # << >>
    /\ Cardinality(wgBatches) < WgMaxBatches
    /\ wgBatches' = {b \in wgBatches : b.at # wgNow} \cup {[at |-> wgNow, receipts |-> wgSpool]}
    /\ wgFlushing' = TRUE
    /\ UNCHANGED <<wgNow, wgRoutes, wgSpool, wgSigned, wgShown>>

(* POST /v1/flush, first write: the batch. *)
FlushWrite ==
    /\ ~wgFlushing
    /\ wgSpool # << >>
    /\ Cardinality(wgBatches) < WgMaxBatches
    /\ wgBatches' = wgBatches \cup {[at |-> wgNow, receipts |-> wgSpool]}
    /\ wgFlushing' = TRUE
    /\ UNCHANGED <<wgNow, wgRoutes, wgSpool, wgSigned, wgShown>>

(* Second write: the spool is removed. *)
FlushRemove ==
    /\ wgFlushing
    /\ wgFlushing' = FALSE
    /\ wgSpool' = << >>
    /\ UNCHANGED <<wgNow, wgRoutes, wgBatches, wgSigned, wgShown>>

(* The process stops, in a flush or not, and starts with the routes it is given. *)
WgRestart(routes) ==
    /\ wgFlushing' = FALSE
    /\ wgRoutes' = routes
    /\ UNCHANGED <<wgNow, wgSpool, wgBatches, wgSigned, wgShown>>

WgTick ==
    /\ ~wgFlushing
    /\ wgNow < WgMaxNow
    /\ wgNow' = wgNow + 1
    /\ UNCHANGED <<wgRoutes, wgSpool, wgBatches, wgFlushing, wgSigned, wgShown>>

WgNext ==
    \/ \E n \in WgNames : (\E t \in WgTtls : WitnessResolve(n, t)) \/ ShowReceipts(n)
    \/ FlushWrite
    \/ FlushRemove
    \/ \E routes \in WgRoutesOf : WgRestart(routes)
    \/ WgTick

-----------------------------------------------------------------------------
(* A receipt handed out to a client is in the spool or in a batch, wherever the *)
(* process stopped: none is lost between the two writes of a flush.             *)
ReceiptsKept ==
    \A r \in wgSigned :
        \/ r \in ToSet(wgSpool)
        \/ \E b \in wgBatches : r \in ToSet(b.receipts)
=============================================================================
