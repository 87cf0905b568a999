--------------------------- MODULE GatewayRegistry --------------------------
(* The .dns registry of the gateway: a snapshot file another program writes, *)
(* the copy of it the process keeps for two seconds, the Merkle root over    *)
(* its records, the anchored root, and the endpoints that answer from them.  *)
(* A hash is the term it is computed from, so different inputs hash apart.   *)
EXTENDS Integers, Sequences, FiniteSets, SequencesExt, FiniteSetsExt

CONSTANTS
  RgNames,     \* the names that are asked for, as numbers in sorting order
  RgSnapshots, \* the snapshots: sequences of [name, data] records
  RgCacheTtl,  \* CACHE_TTL_MS, in ticks
  RgMaxNow     \* bound: the last tick

\* A snapshot is a list of records with names that sort.
ASSUME RgAssumption ==
  \A records \in RgSnapshots :
    /\ records \in Seq({records[i] : i \in DOMAIN records})
    /\ \A i \in DOMAIN records : records[i].name \in Nat

VARIABLES rgNow, rgFile, rgCached, rgAnchor, rgAnswer
rgVars == <<rgNow, rgFile, rgCached, rgAnchor, rgAnswer>>

--------------------------------------------------------------------------
(* The Merkle tree *)

HashLeaf(record) == <<"leaf", record.name, record.data>>
HashPair(left, right) == <<"node", left, right>>
EmptyRoot == <<"empty">>

\* buildLeaves: the records sorted by name, equal names in file order.  The
\* k-th is the one that k - 1 others come before.
SortsBefore(records, i) ==
  {j \in DOMAIN records : \/ records[j].name < records[i].name
                          \/ records[j].name = records[i].name /\ j < i}
Sorted(records, k) ==
  CHOOSE i \in DOMAIN records : Cardinality(SortsBefore(records, i)) = k - 1
BuildLeaves(records) ==
  [k \in DOMAIN records |-> [name |-> records[Sorted(records, k)].name,
                             hash |-> HashLeaf(records[Sorted(records, k)])]]

\* The level above: neighbours are paired, the last is paired with itself.
LevelAbove(level) ==
  [i \in 1 .. (Len(level) + 1) \div 2 |->
     HashPair(level[2 * i - 1],
              level[IF 2 * i <= Len(level) THEN 2 * i ELSE 2 * i - 1])]

\* All levels, from the leaves up to the root.
BuildTree(level) ==
  FoldLeft(LAMBDA tree, i : IF Len(Last(tree)) <= 1 THEN tree
                            ELSE Append(tree, LevelAbove(Last(tree))),
           <<level>>, [i \in DOMAIN level |-> i])

TreeOf(leaves) == BuildTree([i \in DOMAIN leaves |-> leaves[i].hash])
BuildMerkleRoot(records) ==
  IF records = <<>> THEN EmptyRoot ELSE Last(TreeOf(BuildLeaves(records)))[1]

\* buildProof: the neighbour at each level, and its side.
Sibling(layer, i) ==
  LET pair == IF i % 2 = 0 THEN i - 1 ELSE i + 1
  IN [hash |-> layer[IF pair <= Len(layer) THEN pair ELSE i],
      left |-> i % 2 = 0]
BuildProof(records, name) ==
  LET leaves == BuildLeaves(records)
      tree == TreeOf(leaves)
      found == {k \in DOMAIN leaves : leaves[k].name = name}
      PlaceAt(level) == (Min(found) - 1) \div (2 ^ (level - 1)) + 1
  IN IF found = {} THEN [leaf |-> "", path |-> <<>>]
     ELSE [leaf |-> leaves[Min(found)].hash,
           path |-> [l \in 1 .. Len(tree) - 1 |-> Sibling(tree[l], PlaceAt(l))]]

VerifyProof(root, proof) ==
  root = FoldLeft(LAMBDA h, s : IF s.left THEN HashPair(s.hash, h)
                                          ELSE HashPair(h, s.hash),
                  proof.leaf, proof.path)

--------------------------------------------------------------------------
(* The process *)

NothingCached == [at |-> -RgCacheTtl, records |-> <<>>]
NoRgAnswer == [records |-> {}, root |-> EmptyRoot, proof |-> <<>>, name |-> 0]

RgInit ==
  /\ rgNow = 0
  /\ rgFile \in RgSnapshots
  /\ rgCached = NothingCached
  /\ rgAnchor = {}
  /\ rgAnswer = NoRgAnswer

\* loadSnapshot: the copy while it is fresh, else the file.
LoadSnapshot == IF rgNow - rgCached.at < RgCacheTtl THEN rgCached
                ELSE [at |-> rgNow, records |-> rgFile]

\* (For the mutation check: the last entry.)
FirstEntryMut(records, name) ==
  records[CHOOSE i \in DOMAIN records :
            /\ records[i].name = name
            /\ \A j \in DOMAIN records : records[j].name = name => j <= i]

\* The records of the first entry of the name.
FirstEntry(records, name) ==
  records[Min({i \in DOMAIN records : records[i].name = name})]

\* GET /resolve of a .dns name: answered when the snapshot has the name and
\* its root is the anchored one, or nothing is anchored.
ResolveDns ==
  /\ rgCached' = LoadSnapshot
  /\ \E name \in RgNames :
       LET records == LoadSnapshot.records
           root == BuildMerkleRoot(records)
           proof == BuildProof(records, name)
       IN rgAnswer' =
            IF /\ \E i \in DOMAIN records : records[i].name = name
               /\ rgAnchor \subseteq {root}
               /\ VerifyProof(root, proof)
            THEN [records |-> {FirstEntry(records, name)}, root |-> root,
                  proof |-> <<proof>>, name |-> name]
            ELSE NoRgAnswer
  /\ UNCHANGED <<rgNow, rgFile, rgAnchor>>

\* GET /registry/root and /registry/proof read, and refresh the copy.
RegistryRoot ==
  /\ rgCached' = LoadSnapshot
  /\ UNCHANGED <<rgNow, rgFile, rgAnchor, rgAnswer>>

RegistryProof ==
  /\ rgCached' = LoadSnapshot
  /\ \E name \in RgNames :
       rgAnswer' = [records |-> {}, root |-> BuildMerkleRoot(LoadSnapshot.records),
                    proof |-> <<BuildProof(LoadSnapshot.records, name)>>,
                    name |-> name]
  /\ UNCHANGED <<rgNow, rgFile, rgAnchor>>

\* POST /registry/anchor: the administrator anchors a root, of this snapshot
\* or of another.
RegistryAnchor ==
  /\ \E records \in RgSnapshots : rgAnchor' = {BuildMerkleRoot(records)}
  /\ UNCHANGED <<rgNow, rgFile, rgCached, rgAnswer>>

\* Another program replaces the file; the process starts anew; time passes.
SnapshotWritten ==
  /\ rgFile' \in RgSnapshots
  /\ UNCHANGED <<rgNow, rgCached, rgAnchor, rgAnswer>>
RgRestart ==
  /\ rgCached' = NothingCached
  /\ rgAnswer' = NoRgAnswer
  /\ UNCHANGED <<rgNow, rgFile, rgAnchor>>
RgTick ==
  /\ rgNow < RgMaxNow
  /\ rgNow' = rgNow + 1
  /\ UNCHANGED <<rgFile, rgCached, rgAnchor, rgAnswer>>

RgNext == ResolveDns \/ RegistryRoot \/ RegistryProof \/ RegistryAnchor
          \/ SnapshotWritten \/ RgRestart \/ RgTick
RgSpec == RgInit /\ [][RgNext]_rgVars

\* The records of an answer are those its proof proves: whoever holds the
\* root can check the answer, however stale the copy, whatever the number of
\* records and whether or not a name occurs twice.
AnswersProvable ==
  rgAnswer.records # {} =>
    /\ rgAnswer.proof[1].leaf \in {HashLeaf(r) : r \in rgAnswer.records}
    /\ VerifyProof(rgAnswer.root, rgAnswer.proof[1])
=============================================================================
