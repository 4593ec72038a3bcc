---------------------------- MODULE ScanPipeline ----------------------------
(***************************************************************************)
(* runScanJob of apps/api (scans.ts): what a connector found is written to *)
(* the repository in up to four transactions, assets, relationships,       *)
(* findings and scores, each built from the ids the one before returned.   *)
(*                                                                         *)
(* A client is one execution of runScanJob.  Executions overlap (several   *)
(* workers, or a lease that ran out), and a job is executed again after    *)
(* one that was cut short; so two clients may have the same scan.  An      *)
(* execution may be cut at any step: an exception of the connector, of the *)
(* enrichment or of the database, or the end of the process.               *)
(*                                                                         *)
(* The five kinds of scan differ in which parts are empty: vendor has no   *)
(* edges, service no findings but references to assets stored before.      *)
(***************************************************************************)
EXTENDS Repository, Selections

CONSTANT Scans   \* what connectors may find

\* assets: natural keys; edges: pairs of places in assets; links: from a place
\* in assets to the key of an asset found before (service manifests);
\* findings: the place of the asset and the source.
Scan == [assets : Seq(AssetKeys),
         edges : Seq([from : 1..BatchCap, to : 1..BatchCap]),
         links : Seq([from : 1..BatchCap, key : AssetKeys]),
         findings : Seq([on : 1..BatchCap, source : Sources])]

ASSUME ScanAssumption ==
  \A s \in Scans :
    /\ s \in Scan
    /\ Len(s.assets) <= BatchCap /\ Len(s.findings) <= BatchCap
    /\ Len(s.edges) + Len(s.links) <= BatchCap
    /\ \A i \in 1..Len(s.edges) : {s.edges[i].from, s.edges[i].to} \subseteq 1..Len(s.assets)
    /\ \A i \in 1..Len(s.links) : s.links[i].from \in 1..Len(s.assets)
    /\ \A i \in 1..Len(s.findings) : s.findings[i].on \in 1..Len(s.assets)

VARIABLES
  pc,            \* client -> the transaction it is at
  scan,          \* client -> what its connector found
  links,         \* client -> [from, to], the links that were resolved
  assets,        \* client -> ids upsertAssets returned
  found          \* client -> ids upsertFindings returned

vars == <<repository, pc, scan, links, assets, found>>

Steps == {"scan", "list", "asset", "edge", "finding", "score"}

Ended(c) == pc[c] \in {"returned", "thrown"}

NoScan == [assets |-> <<>>, edges |-> <<>>, links |-> <<>>, findings |-> <<>>]

TypeOK ==
  /\ RepositoryTypeOK
  /\ pc \in [Clients -> Steps \cup {"returned", "thrown"}]
  /\ scan \in [Clients -> Scans \cup {NoScan}]
  /\ links \in [Clients -> Seq([from : 1..BatchCap, to : Id])]
  /\ assets \in [Clients -> Seq(Id)]
  /\ found \in [Clients -> Seq(Id)]

Init ==
  /\ RepositoryInit
  /\ pc = [c \in Clients |-> "scan"]
  /\ scan = [c \in Clients |-> NoScan]
  /\ links = [c \in Clients |-> <<>>]
  /\ assets = [c \in Clients |-> <<>>]
  /\ found = [c \in Clients |-> <<>>]

-----------------------------------------------------------------------------
(* The batches.                                                            *)

AssetBatch(c) ==
  [i \in 1..Len(scan[c].assets) |->
     [row |-> AssetRow(scan[c].assets[i]), id |-> newId(c, "asset", i)]]

\* Mutant of idMap: the ends of an edge keep the ids made by the connector.
idMapMissing(c, i) == newId(c, "asset", i)

\* The stored id of the asset at a place of the scan.
idMap(c, i) == assets[c][i]

\* Mutant of EdgeBatch: the ends are swapped.
EdgeBatchSwapped(c) ==
  LET ends == [i \in 1..Len(scan[c].edges) |->
                 EdgeRow(idMap(c, scan[c].edges[i].to), idMap(c, scan[c].edges[i].from))]
  IN  [i \in 1..Len(ends) |-> [row |-> ends[i], id |-> newId(c, "edge", i)]]

EdgeBatch(c) ==
  LET ends == [i \in 1..Len(scan[c].edges) |->
                 EdgeRow(idMap(c, scan[c].edges[i].from), idMap(c, scan[c].edges[i].to))]
              \o [i \in 1..Len(links[c]) |-> EdgeRow(idMap(c, links[c][i].from), links[c][i].to)]
  IN  [i \in 1..Len(ends) |-> [row |-> ends[i], id |-> newId(c, "edge", i)]]

FindingBatch(c) ==
  [i \in 1..Len(scan[c].findings) |->
     [row |-> FindingRow(assets[c][scan[c].findings[i].on], scan[c].findings[i].source),
      id |-> newId(c, "finding", i)]]

\* Mutant of ScoreBatch: the asset of a finding is looked up among those the
\* connector made, so findings of assets stored before are passed over.
ScoreBatchScanned(c) ==
  LET on(i) == scan[c].findings[i].on
      fresh == ItemsAt(found[c], {i \in 1..Len(found[c]) :
                                    idMap(c, on(i)) = newId(c, "asset", on(i))})
  IN  [i \in 1..Len(fresh) |-> [row |-> ScoreRow(fresh[i]), id |-> newId(c, "score", i)]]

ScoreBatch(c) ==
  [i \in 1..Len(found[c]) |-> [row |-> ScoreRow(found[c][i]), id |-> newId(c, "score", i)]]

Batch(c) ==
  CASE pc[c] = "asset" -> AssetBatch(c)
    [] pc[c] = "edge" -> EdgeBatch(c)
    [] pc[c] = "finding" -> FindingBatch(c)
    [] pc[c] = "score" -> ScoreBatch(c)
    [] OTHER -> <<>>

-----------------------------------------------------------------------------

At(c, step) == pc[c] = step

Goto(c, step) == pc' = [pc EXCEPT ![c] = step]

\* The connector returns what it found.
Scanned(c) ==
  /\ At(c, "scan")
  /\ \E s \in Scans :
       /\ scan' = [scan EXCEPT ![c] = s]
       /\ Goto(c, IF s.links = <<>> THEN "asset" ELSE "list")
  /\ UNCHANGED <<repository, links, assets, found>>

\* The links whose asset listAssets returned.
Known(c) == {i \in 1..Len(scan[c].links) : AssetRow(scan[c].links[i].key) \in Stored}

\* buildTopology links services to the assets listAssets returned; what it
\* does not find stays unresolved.
Listed(c) ==
  /\ At(c, "list")
  /\ LET known == ItemsAt(scan[c].links, Known(c))
     IN  links' = [links EXCEPT ![c] =
                     [i \in 1..Len(known) |-> [from |-> known[i].from,
                                               to |-> rows[AssetRow(known[i].key)]]]]
  /\ Goto(c, "asset")
  /\ UNCHANGED <<repository, scan, assets, found>>

\* The next row of the open transaction.
WriteRow(c) ==
  /\ Statement(c, Batch(c))
  /\ UNCHANGED <<pc, scan, links, assets, found>>

CommitAssets(c) ==
  /\ At(c, "asset")
  /\ Commit(c, Batch(c))
  /\ assets' = [assets EXCEPT ![c] = Returned(Batch(c))]
  /\ Goto(c, "edge")
  /\ UNCHANGED <<scan, links, found>>

CommitEdges(c) ==
  /\ At(c, "edge")
  /\ Commit(c, Batch(c))
  /\ Goto(c, "finding")
  /\ UNCHANGED <<scan, links, assets, found>>

CommitFindings(c) ==
  /\ At(c, "finding")
  /\ Commit(c, Batch(c))
  /\ found' = [found EXCEPT ![c] = Returned(Batch(c))]
  /\ Goto(c, "score")
  /\ UNCHANGED <<scan, links, assets>>

CommitScores(c) ==
  /\ At(c, "score")
  /\ Commit(c, Batch(c))
  /\ Goto(c, "returned")
  /\ UNCHANGED <<scan, links, assets, found>>

Commits(c) == CommitAssets(c) \/ CommitEdges(c) \/ CommitFindings(c) \/ CommitScores(c)

\* An exception or the end of the process, wherever the execution is.
Throws(c) ==
  /\ ~Ended(c)
  /\ Rollback(c)
  /\ Goto(c, "thrown")
  /\ UNCHANGED <<scan, links, assets, found>>

\* The answer to a commit is lost: it is applied, and throws.
CommitThrows(c) ==
  /\ pc[c] \in {"asset", "edge", "finding", "score"}
  /\ Commit(c, Batch(c))
  /\ Goto(c, "thrown")
  /\ UNCHANGED <<scan, links, assets, found>>

Waits(c, d) ==
  /\ Len(locked[c]) < Len(Batch(c))
  /\ NextRow(c, Batch(c)) \in LockedBy(d)

\* c is on a cycle of transactions that wait for each other.
InDeadlock(c) ==
  \E S \in SUBSET Clients :
    /\ c \in S
    /\ \A d \in S : /\ \E e \in S \ {d} : Waits(d, e)
                    /\ \E e \in S \ {d} : Waits(e, d)

\* The database ends one transaction of a deadlock, whose statement throws.
DeadlockDetected(c) == InDeadlock(c) /\ Throws(c)

Progress(c) == Scanned(c) \/ Listed(c) \/ WriteRow(c) \/ Commits(c)

Next == \E c \in Clients :
          Progress(c) \/ Throws(c) \/ CommitThrows(c) \/ DeadlockDetected(c)

Spec == Init /\ [][Next]_vars

\* Every call is answered, and the database resolves deadlocks.
FairSpec ==
  /\ Spec
  /\ \A c \in Clients : WF_vars(Progress(c))
  /\ WF_vars(\E c \in Clients : DeadlockDetected(c))

-----------------------------------------------------------------------------

InTable(table) == {k \in Stored : k.table = table}

Ids(table) == {rows[k] : k \in InTable(table)}

\* Though nothing in the schema says so, an edge joins stored assets, a
\* finding is of a stored asset and a score is of a stored finding, whatever
\* is cut short in between.
NoDangling ==
  /\ \A k \in InTable("edge") : {k.from, k.to} \subseteq Ids("asset")
  /\ \A k \in InTable("finding") : k.asset \in Ids("asset")
  /\ \A k \in InTable("score") : k.finding \in Ids("finding")

\* An id once given stays, and so do the references to it (port.ts).
IdsKept == [][\A k \in Stored : k \in Stored' /\ rows'[k] = rows[k]]_vars

\* The findings among the rows c writes.
FindingRows(c) ==
  IF assets[c] = <<>> THEN {}
  ELSE {FindingRow(assets[c][scan[c].findings[i].on], scan[c].findings[i].source) :
          i \in 1..Len(scan[c].findings)}

\* A finding without a score comes only from an execution that has still to
\* score it, or was cut before it did.
UnscoredExplained ==
  \A k \in InTable("finding") :
    \/ ScoreRow(rows[k]) \in Stored
    \/ \E c \in Clients : pc[c] \in {"score", "thrown"} /\ k \in FindingRows(c)

\* A scan that returned, so that its job succeeds, is stored as a whole.
ReturnedIsStored ==
  \A c \in Clients : At(c, "returned") =>
    /\ \A i \in 1..Len(scan[c].assets) :
         AssetRow(scan[c].assets[i]) \in Stored /\ rows[AssetRow(scan[c].assets[i])] = assets[c][i]
    /\ \A i \in 1..Len(scan[c].edges) :
         EdgeRow(assets[c][scan[c].edges[i].from], assets[c][scan[c].edges[i].to]) \in Stored
    /\ \A k \in FindingRows(c) : k \in Stored /\ ScoreRow(rows[k]) \in Stored

\* Executing a scan again, after it returned once, changes no row and adds
\* none: "runScanJob은 멱등이라 중복 실행이 안전하다" (worker.ts).
RepeatAddsNothing ==
  [][\A c, d \in Clients :
       /\ c # d /\ At(c, "returned") /\ scan[d] = scan[c] /\ scan[c].links = <<>>
       /\ (pc[d] # pc'[d] \/ locked[d] # locked'[d])
       => rows' = rows]_vars

\* Every execution ends, also when transactions wait for each other.
EveryScanEnds == \A c \in Clients : <>Ended(c)

\* What the rows say in natural keys, with no ids.
AssetOf(id) == CHOOSE key \in AssetKeys : AssetRow(key) \in Stored /\ rows[AssetRow(key)] = id

FindingOf(id) == CHOOSE k \in InTable("finding") : rows[k] = id

Fact(k) ==
  CASE k.table = "asset" -> <<"asset", k.key>>
    [] k.table = "edge" -> <<"edge", AssetOf(k.from), AssetOf(k.to)>>
    [] k.table = "finding" -> <<"finding", AssetOf(k.asset), k.source>>
    [] k.table = "score" -> LET f == FindingOf(k.finding)
                            IN  <<"score", AssetOf(f.asset), f.source>>

Inventory == INSTANCE Inventory WITH
  facts <- {Fact(k) : k \in Stored},
  stage <- [c \in Clients |-> IF pc[c] = "list" THEN "asset" ELSE pc[c]]

\* Seen without ids, transactions and locks, executions add facts to a set.
ImplementsInventory == Inventory!Spec
=============================================================================
