----------------------------- MODULE CacheRollup -----------------------------
(* From the gateway's cache log (gateway/src/cache_log.ts) to the head of a  *)
(* domain's cache on the chain: a resolved subdomain is logged in a spool    *)
(* and sent, once and without a retry, to the roll-up service, which keeps   *)
(* it and, when asked, publishes the root of everything it keeps for a       *)
(* parent, moves the head and awards reputation (services/cache-rollup).     *)
EXTENDS Anchor, Sequences, SequencesExt

CONSTANTS
  RollupSigner, \* the key of the service: parent owner and rep authority
  CrEntries,    \* entries: name, parent (None for a name without one), rrset,
                \* bucket, confidence, witness
  CrBatches,    \* batches that are posted: sequences of [ok, entry]
  CrEpochs,     \* epochs a roll-up is asked for
  CrOptions,    \* what is configured: records onchain, rep
  CrMaxKept     \* bound on the entries spooled and kept

CrEntryType ==
  [name: Nat, parent: AnNames \cup {None}, rrset: Nat, bucket: Nat, confidence: Nat,
   witness: Keys]

ASSUME CrAssumption ==
  CrBatches \subseteq Seq([ok: BOOLEAN, entry: CrEntryType]) /\ RollupSigner \in Keys

VARIABLES crOptions, crSpool, crKept, crDocs, crJobs
crVars == <<crOptions, crSpool, crKept, crDocs, crJobs>>

NoJob == [stage |-> "none"]

CrInit ==
  /\ crOptions \in CrOptions
  /\ crSpool = <<>>
  /\ crKept = [p \in AnNames |-> <<>>]
  /\ crDocs = NoAccounts
  /\ crJobs = [j \in {1, 2} |-> NoJob]

-----------------------------------------------------------------------------
\* The entries at these places of a batch, in the batch's order.
EntriesAt(batch, places) ==
  [k \in 1 .. Cardinality(places) |->
     batch[CHOOSE i \in places : Cardinality({j \in places : j <= i}) = k].entry]

\* Append to the file of each parent in the batch.
Kept(batch) ==
  [p \in AnNames |-> crKept[p] \o
     EntriesAt(batch, {i \in DOMAIN batch : batch[i].ok /\ batch[i].entry.parent = p})]

KeptFits(batch) == \A p \in AnNames : Len(Kept(batch)[p]) <= CrMaxKept

\* POST /v1/ingest: the valid entries of the batch; the signature of an entry
\* is not checked, and the same entry is kept as often as it comes.
Ingest(batch) ==
  /\ KeptFits(batch) /\ crKept' = Kept(batch)
  /\ UNCHANGED <<crOptions, crSpool, crDocs, crJobs>>

\* logEntry: a name with a premium parent goes to the spool, then to the
\* service; a lost call is not repeated.
ExtractPremiumParent(e) == e.parent

LogEntry(e, delivered) ==
  LET batch == <<[ok |-> TRUE, entry |-> e]>>
  IN /\ ExtractPremiumParent(e) # None
     /\ Len(crSpool) < CrMaxKept /\ KeptFits(batch)
     /\ crSpool' = Append(crSpool, e)
     /\ crKept' = IF delivered THEN Kept(batch) ELSE crKept
     /\ UNCHANGED <<crOptions, crDocs, crJobs>>

-----------------------------------------------------------------------------
\* merkleRoot: the last of an odd level is paired with itself.  A hash is the
\* term it is computed from.
CrLevelAbove(level, i) ==
  IF Len(level) = 1 THEN level
  ELSE [k \in 1 .. (Len(level) + 1) \div 2 |->
         <<level[2 * k - 1],
           level[IF 2 * k <= Len(level) THEN 2 * k ELSE 2 * k - 1]>>]
CrMerkleRoot(level) ==
  FoldLeft(CrLevelAbove, level, [i \in DOMAIN level |-> i])[1]

\* The order of a roll-up: bucket, name, record set, then order of arrival.
CrSorted(entries) ==
  LET Key(i) == <<entries[i].bucket, entries[i].name, entries[i].rrset, i>>
      Before(i, j) ==
        \E k \in 1 .. 4 : /\ Key(i)[k] < Key(j)[k]
                          /\ \A l \in 1 .. k - 1 : Key(i)[l] = Key(j)[l]
      order == SetToSortSeq(DOMAIN entries, Before)
  IN [k \in DOMAIN entries |-> entries[order[k]]]
CacheRoot(entries) == CrMerkleRoot(CrSorted(entries))

\* POST /v1/rollup: everything kept for the parent, whatever the epoch; the
\* document is written before it is published.
StartRollup(j, p, e) ==
  /\ crJobs[j] = NoJob /\ crKept[p] # <<>>
  /\ crDocs' = Created(crDocs, <<p, e>>, CacheRoot(crKept[p]))
  /\ crJobs' = [crJobs EXCEPT ![j] =
       [stage |-> "publish", parent |-> p, epoch |-> e, entries |-> crKept[p],
        left |-> {crKept[p][i].witness : i \in DOMAIN crKept[p]}]]
  /\ UNCHANGED <<crOptions, crSpool, crKept>>

\* publishToIpfsOrStub, which may fail and end the request.
Publish(j, works) ==
  /\ crJobs[j].stage = "publish"
  /\ crJobs' = [crJobs EXCEPT ![j] =
       IF ~works THEN NoJob
       ELSE [@ EXCEPT !.stage = IF crOptions.onchain THEN "head" ELSE "award"]]
  /\ UNCHANGED <<crOptions, crSpool, crKept, crDocs>>

\* setCacheHeadOnChain: the transaction lands, or the request ends with it; one
\* that failed on the chain is confirmed like one that succeeded.
MoveHead(j) ==
  /\ crJobs[j].stage = "head"
  /\ \/ /\ Exists(cacheHeads, crJobs[j].parent)
        /\ SetCacheHead(crJobs[j].parent, RollupSigner,
                        CacheRoot(crJobs[j].entries), crJobs[j].epoch)
        /\ crJobs' = [crJobs EXCEPT ![j].stage = "award"]
     \/ crJobs' = [crJobs EXCEPT ![j].stage = "award"] /\ UNCHANGED cacheHeads
     \/ crJobs' = [crJobs EXCEPT ![j] = NoJob] /\ UNCHANGED cacheHeads
  /\ UNCHANGED <<crOptions, crSpool, crKept, crDocs>>

\* maybeAwardRep: one transaction for each witness, best effort.
AverageConfidence(entries, places) ==
  FoldSet(LAMBDA i, s : s + entries[i].confidence, 0, places) \div Cardinality(places)

RepAward(entries, witness) ==
  LET mine == {i \in DOMAIN entries : entries[i].witness = witness}
      average == AverageConfidence(entries, mine)
  IN <<Cardinality(mine), Cardinality({entries[i].name : i \in mine}), 1,
       CASE average >= 9000 -> 2 [] average \in 7000 .. 8999 -> 1 [] OTHER -> 0>>

AwardWitness(j, w) ==
  /\ crJobs[j].stage = "award" /\ w \in crJobs[j].left
  /\ crJobs' = [crJobs EXCEPT ![j].left = @ \ {w}]
  /\ \/ /\ crOptions.rep
        /\ AwardRep(RollupSigner, crJobs[j].epoch, w, RepAward(crJobs[j].entries, w))
     \/ UNCHANGED repVars
  /\ UNCHANGED <<crOptions, crSpool, crKept, crDocs>>

RollupDone(j) ==
  /\ crJobs[j].stage = "award" /\ (crJobs[j].left = {} \/ ~crOptions.rep)
  /\ crJobs' = [crJobs EXCEPT ![j] = NoJob]
  /\ UNCHANGED <<crOptions, crSpool, crKept, crDocs>>

\* The service restarts: the files stay, the requests are lost.
RollupRestart ==
  /\ crJobs' = [j \in DOMAIN crJobs |-> NoJob]
  /\ UNCHANGED <<crOptions, crSpool, crKept, crDocs>>

\* The command line client cache_head.ts: a wallet makes a head for itself or
\* for another owner, and the owner sets it to any root.
CliInitHead(n, owner) == InitCacheHead(n, owner)
CliSetHead(n, k, root, e) == k # RollupSigner /\ SetCacheHead(n, k, root, e)

CrNext ==
  \/ /\ UNCHANGED <<repVars, cacheHeads>>
     /\ \/ \E b \in CrBatches : Ingest(b)
        \/ \E e \in CrEntries, d \in BOOLEAN : LogEntry(e, d)
        \/ RollupRestart
        \/ \E j \in DOMAIN crJobs :
             \/ \E p \in AnNames, e \in CrEpochs : StartRollup(j, p, e)
             \/ \E works \in BOOLEAN : Publish(j, works)
             \/ RollupDone(j)
  \/ UNCHANGED repVars /\ \E j \in DOMAIN crJobs : MoveHead(j)
  \/ /\ UNCHANGED cacheHeads
     /\ \E j \in DOMAIN crJobs, w \in Keys : AwardWitness(j, w)
  \/ /\ UNCHANGED <<crVars, repVars>>
     /\ \E n \in AnNames, k \in Keys :
          \/ CliInitHead(n, k)
          \/ \E root \in HeadRoots, e \in CrEpochs : CliSetHead(n, k, root, e)
  \/ /\ UNCHANGED <<crVars, cacheHeads>>
     /\ \E c \in RepConfigs : InitRepConfig(RollupSigner, c)

-----------------------------------------------------------------------------
\* The head that the service keeps on the chain is always the root of what it
\* had kept for the parent at some time: with two roll-ups of a parent under
\* way, new entries coming in between their steps and restarts, no head is set
\* that the published entries, read from the front, do not reproduce.
HeadRootOfKept ==
  \A n \in DOMAIN cacheHeads :
    cacheHeads[n].owner = RollupSigner /\ cacheHeads[n].root # None =>
      \E len \in 1 .. Len(crKept[n]) :
        cacheHeads[n].root = CacheRoot(SubSeq(crKept[n], 1, len))
=============================================================================
