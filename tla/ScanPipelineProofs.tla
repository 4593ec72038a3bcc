------------------------- MODULE ScanPipelineProofs -------------------------
(***************************************************************************)
(* Executions of scans, for any clients, asset keys, sources and scans:    *)
(* what the rows hold whatever is cut short, and that ids, transactions    *)
(* and locks implement the Inventory.                                      *)
(***************************************************************************)
EXTENDS ScanPipeline, SelectionsProofs

\* The tables whose ids stand in other rows; both adapters keep them.
Referenced == {"asset", "finding"}

-----------------------------------------------------------------------------
(* The inductive invariant.                                                *)

\* What an execution has resolved it took from stored assets.
LinksSettled(c) ==
  /\ At(c, "scan") => links[c] = <<>>
  /\ Len(links[c]) <= Len(scan[c].links)
  /\ \A i \in 1..Len(links[c]) : \E n \in 1..Len(scan[c].links) :
       /\ links[c][i].from = scan[c].links[n].from
       /\ AssetRow(scan[c].links[n].key) \in Stored
       /\ rows[AssetRow(scan[c].links[n].key)] = links[c][i].to

\* The ids it goes on with are those its assets are stored under.
AssetsPlaced(c) ==
  pc[c] \in {"edge", "finding", "score", "returned"} =>
    /\ Len(assets[c]) = Len(scan[c].assets)
    /\ \A i \in 1..Len(assets[c]) :
         AssetRow(scan[c].assets[i]) \in Stored /\ rows[AssetRow(scan[c].assets[i])] = assets[c][i]

EdgesPlaced(c) ==
  pc[c] \in {"finding", "score", "returned"} =>
    \A i \in 1..Len(scan[c].edges) :
      EdgeRow(assets[c][scan[c].edges[i].from], assets[c][scan[c].edges[i].to]) \in Stored

\* The row of the finding at a place of the scan.
FindingAt(c, i) == FindingRow(assets[c][scan[c].findings[i].on], scan[c].findings[i].source)

FindingsPlaced(c) ==
  pc[c] \in {"score", "returned"} =>
    /\ Len(found[c]) = Len(scan[c].findings)
    /\ \A i \in 1..Len(found[c]) : FindingAt(c, i) \in Stored /\ rows[FindingAt(c, i)] = found[c][i]

ScoresPlaced(c) ==
  At(c, "returned") => \A i \in 1..Len(found[c]) : ScoreRow(found[c][i]) \in Stored

ClientOK(c) ==
  LinksSettled(c) /\ AssetsPlaced(c) /\ EdgesPlaced(c) /\ FindingsPlaced(c) /\ ScoresPlaced(c)

\* The tables an execution may have given ids of.
Made == [scan |-> {}, list |-> {}, asset |-> {}, edge |-> {"asset"},
         finding |-> {"asset", "edge"}, score |-> {"asset", "edge", "finding"},
         returned |-> Tables, thrown |-> Tables]

IdsMade == \A k \in Stored : rows[k].table \in Made[pc[rows[k].by]]

OneToOne(r) == \A k, m \in DOMAIN r : r[k] = r[m] => k = m

Inv ==
  /\ TypeOK
  /\ \A c \in Clients : ClientOK(c)
  /\ NoDangling
  /\ UnscoredExplained
  /\ IdsMade
  /\ OneToOne(rows)

-----------------------------------------------------------------------------
(* Batches, and what committing one does to the rows.                      *)

Item == [row : Row, id : Id]

\* A batch of rows of one table, with the ids c made for it.
BatchOf(c, table, batch) ==
  /\ batch \in Seq(Item)
  /\ \A i \in 1..Len(batch) :
       batch[i].row.table = table /\ batch[i].id = newId(c, table, i)

\* The rows that are written are rows.
LEMMA RowTypes ==
  /\ \A key \in AssetKeys : AssetRow(key) \in Row
  /\ \A x, y \in Id : EdgeRow(x, y) \in Row
  /\ \A x \in Id, s \in Sources : FindingRow(x, s) \in Row
  /\ \A x \in Id : ScoreRow(x) \in Row
BY DEF Row

\* Each row names its table.
LEMMA RowTables ==
  ASSUME NEW x, NEW y
  PROVE  /\ AssetRow(x).table = "asset" /\ EdgeRow(x, y).table = "edge"
         /\ FindingRow(x, y).table = "finding" /\ ScoreRow(x).table = "score"
BY DEF AssetRow, EdgeRow, FindingRow, ScoreRow

\* Each row is of a table, and tells its parts.
LEMMA RowShape ==
  ASSUME NEW k \in Row
  PROVE  /\ k.table \in Tables
         /\ k.table = "asset" => \E key \in AssetKeys : k = AssetRow(key)
         /\ k.table = "edge" => k.from \in Id /\ k.to \in Id /\ k = EdgeRow(k.from, k.to)
         /\ k.table = "finding" =>
              k.asset \in Id /\ k.source \in Sources /\ k = FindingRow(k.asset, k.source)
         /\ k.table = "score" => k.finding \in Id /\ k = ScoreRow(k.finding)
BY DEF Row, AssetRow, EdgeRow, FindingRow, ScoreRow, Tables

\* What is numbered for a batch is an id.
LEMMA NewIdType ==
  ASSUME NEW c \in Clients, NEW t \in Tables, NEW i \in 1..BatchCap
  PROVE  newId(c, t, i) \in Id
BY DEF newId, Id

\* The items of a sequence are of its set.
LEMMA SeqItem ==
  ASSUME NEW S, NEW s \in Seq(S)
  PROVE  Len(s) \in Nat /\ \A i \in 1..Len(s) : s[i] \in S
OBVIOUS

\* The items of a batch: rows of its table, each with the id made for it.
LEMMA BatchItem ==
  ASSUME NEW c, NEW t, NEW batch, BatchOf(c, t, batch)
  PROVE  /\ Len(batch) \in Nat
         /\ \A i \in 1..Len(batch) :
              /\ batch[i].row \in Row /\ batch[i].row.table = t
              /\ batch[i].id = newId(c, t, i) /\ batch[i].id \in Id
<1>1. Len(batch) \in Nat /\ \A i \in 1..Len(batch) : batch[i] \in Item
  BY SeqItem DEF BatchOf
<1>2. \A i \in 1..Len(batch) : batch[i].row \in Row /\ batch[i].id \in Id
  BY <1>1 DEF Item
<1> QED BY <1>1, <1>2 DEF BatchOf

\* The id a row of a batch is stored under: its own, if it has one that is
\* kept, or else one of those made for it.
LEMMA StoredIdIs ==
  ASSUME RepositoryTypeOK, NEW c, NEW t, NEW batch, BatchOf(c, t, batch),
         NEW i \in 1..Len(batch), NEW k, k = batch[i].row
  PROVE  /\ StoredId(batch, k) \in Id
         /\ \/ k \in Stored /\ k.table \in KeepsId /\ StoredId(batch, k) = rows[k]
            \/ /\ ~ (k \in Stored /\ k.table \in KeepsId)
               /\ \E j \in 1..Len(batch) :
                    batch[j].row = k /\ StoredId(batch, k) = newId(c, t, j)
<1> DEFINE P == PlacesOf(batch, k)
           Least == CHOOSE n \in P : \A m \in P : n <= m
           Last == CHOOSE n \in P : \A m \in P : n >= m
<1>1. Len(batch) \in Nat /\ P \in SUBSET (0..Len(batch)) /\ P # {}
      /\ \A n \in P : n \in 1..Len(batch) /\ batch[n].row = k
  BY DEF BatchOf, PlacesOf
<1>2. P \in SUBSET Nat
  BY <1>1
<1>3. Least \in P
  <2>1. \E n \in P : \A m \in P : n <= m
    BY <1>1, <1>2, LeastMember
  <2> QED BY <2>1, Zenon
<1>4. Last \in P
  <2>1. PICK n \in P : \A m \in P : m <= n
    BY <1>1, GreatestMember
  <2>2. \A m \in P : n >= m
    BY <1>2, <2>1
  <2> QED BY <2>1, <2>2, Zenon
<1>5. ASSUME NEW n \in P
      PROVE  /\ n \in 1..Len(batch) /\ batch[n].row = k
             /\ batch[n].id = newId(c, t, n) /\ batch[n].id \in Id
  BY <1>1, BatchItem
<1>6. k \in Stored => rows[k] \in Id
  BY DEF RepositoryTypeOK
<1> HIDE DEF P
<1>7. CASE k.table \notin KeepsId
  <2>1. StoredId(batch, k) = batch[Last].id
    BY <1>7 DEF StoredId, P
  <2> HIDE DEF Last
  <2> QED BY <1>4, <1>5, <1>7, <2>1
<1>8. CASE k.table \in KeepsId /\ k \in Stored
  BY <1>6, <1>8 DEF StoredId
<1>9. CASE k.table \in KeepsId /\ k \notin Stored
  <2>1. StoredId(batch, k) = batch[Least].id
    BY <1>9 DEF StoredId, P
  <2> HIDE DEF Least
  <2> QED BY <1>3, <1>5, <1>9, <2>1
<1> QED BY <1>7, <1>8, <1>9

\* Committing a batch adds its rows, and changes no id that is kept.
LEMMA CommitEffect ==
  ASSUME RepositoryTypeOK, NEW c, NEW t, NEW batch, BatchOf(c, t, batch),
         rows' = Upserted(batch)
  PROVE  /\ Stored' = Stored \cup {batch[i].row : i \in 1..Len(batch)}
         /\ rows' \in [Stored' -> Id] /\ Stored' \subseteq Row
         /\ \A k \in Stored : k.table \in KeepsId \/ k.table # t => rows'[k] = rows[k]
         /\ \A k \in Stored' :
              \/ k \in Stored /\ rows'[k] = rows[k]
              \/ \E i \in 1..Len(batch) : batch[i].row = k /\ rows'[k] = newId(c, t, i)
         /\ Returned(batch) \in Seq(Id) /\ Len(Returned(batch)) = Len(batch)
         /\ \A i \in 1..Len(batch) : Returned(batch)[i] = rows'[batch[i].row]
<1> DEFINE New == {batch[i].row : i \in 1..Len(batch)}
<1>0. Len(batch) \in Nat /\ \A i \in 1..Len(batch) : batch[i].row \in Row
  BY BatchItem
<1>1. /\ Stored' = Stored \cup New
      /\ \A k \in Stored \cup New :
           rows'[k] = IF PlacesOf(batch, k) = {} THEN rows[k] ELSE StoredId(batch, k)
      /\ rows' = [k \in Stored' |-> rows'[k]]
  <2>1. rows' = [k \in Stored \cup New |->
                   IF PlacesOf(batch, k) = {} THEN rows[k] ELSE StoredId(batch, k)]
    BY DEF Upserted
  <2> HIDE DEF New
  <2> QED BY <2>1 DEF Stored
<1>2. ASSUME NEW i \in 1..Len(batch)
      PROVE  /\ rows'[batch[i].row] = StoredId(batch, batch[i].row)
             /\ rows'[batch[i].row] \in Id
  <2>1. PlacesOf(batch, batch[i].row) # {} /\ batch[i].row \in New
    BY DEF PlacesOf
  <2>2. rows'[batch[i].row] = StoredId(batch, batch[i].row)
    BY <1>1, <2>1
  <2> QED BY <2>2, StoredIdIs
<1>3. ASSUME NEW k \in Stored, k \notin New
      PROVE  rows'[k] = rows[k]
  <2>1. PlacesOf(batch, k) = {}
    BY <1>3 DEF PlacesOf
  <2> QED BY <1>1, <2>1
<1>4. ASSUME NEW k \in Stored'
      PROVE  /\ k \in Row /\ rows'[k] \in Id
             /\ \/ k \in Stored /\ rows'[k] = rows[k]
                \/ \E i \in 1..Len(batch) : batch[i].row = k /\ rows'[k] = newId(c, t, i)
  <2>1. CASE k \in New
    <3>1. PICK i \in 1..Len(batch) : k = batch[i].row
      BY <2>1
    <3> QED BY <1>0, <1>2, <3>1, StoredIdIs
  <2>2. CASE k \notin New
    BY <1>1, <1>3, <2>2 DEF RepositoryTypeOK
  <2> QED BY <2>1, <2>2
<1>5. ASSUME NEW k \in Stored, k.table \in KeepsId \/ k.table # t
      PROVE  rows'[k] = rows[k]
  <2>1. CASE k \in New
    <3>1. PICK i \in 1..Len(batch) : k = batch[i].row
      BY <2>1
    <3>2. k.table = t
      BY <3>1 DEF BatchOf
    <3> QED BY <1>2, <1>5, <3>1, <3>2, StoredIdIs
  <2> QED BY <1>3, <2>1
<1>6. /\ Len(Returned(batch)) = Len(batch)
      /\ \A i \in 1..Len(batch) : Returned(batch)[i] = rows'[batch[i].row]
  BY <1>0, <1>2 DEF Returned
<1>7. Returned(batch) \in Seq(Id)
  BY <1>0, <1>2 DEF Returned
<1> HIDE DEF New
<1>8. rows' \in [Stored' -> Id] /\ Stored' \subseteq Row
  BY <1>1, <1>4
<1> QED BY <1>1, <1>4, <1>5, <1>6, <1>7, <1>8 DEF New

-----------------------------------------------------------------------------
(* The batch of each transaction.                                          *)

\* What a connector finds, by place.
LEMMA ScanShape ==
  ASSUME NEW s \in Scans \cup {NoScan}
  PROVE  /\ Len(s.assets) \in Nat /\ Len(s.assets) <= BatchCap
         /\ \A i \in 1..Len(s.assets) : s.assets[i] \in AssetKeys
         /\ Len(s.edges) \in Nat /\ Len(s.links) \in Nat
         /\ Len(s.edges) + Len(s.links) <= BatchCap
         /\ \A i \in 1..Len(s.edges) :
              s.edges[i].from \in 1..Len(s.assets) /\ s.edges[i].to \in 1..Len(s.assets)
         /\ \A i \in 1..Len(s.links) :
              s.links[i].from \in 1..Len(s.assets) /\ s.links[i].key \in AssetKeys
         /\ Len(s.findings) \in Nat /\ Len(s.findings) <= BatchCap
         /\ \A i \in 1..Len(s.findings) :
              s.findings[i].on \in 1..Len(s.assets) /\ s.findings[i].source \in Sources
<1> DEFINE Link == [from : 1..BatchCap, key : AssetKeys]
           Finding == [on : 1..BatchCap, source : Sources]
<1>1. CASE s = NoScan
  BY <1>1, RepositoryAssumption DEF NoScan
<1>2. CASE s \in Scans
  <2>1. /\ s.assets \in Seq(AssetKeys)
        /\ s.edges \in Seq([from : 1..BatchCap, to : 1..BatchCap])
        /\ s.links \in Seq(Link) /\ s.findings \in Seq(Finding)
    <3>1. s \in Scan
      BY <1>2, ScanAssumption
    <3> QED BY <3>1 DEF Scan
  <2>2. /\ Len(s.assets) \in Nat /\ \A i \in 1..Len(s.assets) : s.assets[i] \in AssetKeys
        /\ Len(s.edges) \in Nat
        /\ Len(s.links) \in Nat /\ \A i \in 1..Len(s.links) : s.links[i] \in Link
        /\ Len(s.findings) \in Nat /\ \A i \in 1..Len(s.findings) : s.findings[i] \in Finding
    <3> HIDE DEF Link, Finding
    <3> QED BY <2>1, SeqItem
  <2>3. /\ \A i \in 1..Len(s.links) : s.links[i].key \in AssetKeys
        /\ \A i \in 1..Len(s.findings) : s.findings[i].source \in Sources
    BY <2>2
  <2>4. /\ Len(s.assets) <= BatchCap /\ Len(s.findings) <= BatchCap
        /\ Len(s.edges) + Len(s.links) <= BatchCap
        /\ \A i \in 1..Len(s.edges) : {s.edges[i].from, s.edges[i].to} \subseteq 1..Len(s.assets)
        /\ \A i \in 1..Len(s.links) : s.links[i].from \in 1..Len(s.assets)
        /\ \A i \in 1..Len(s.findings) : s.findings[i].on \in 1..Len(s.assets)
    BY <1>2, ScanAssumption
  <2> HIDE DEF Link, Finding
  <2> QED BY <2>2, <2>3, <2>4
<1> QED BY <1>1, <1>2

\* A function on the first numbers is a sequence.
LEMMA SeqMade ==
  ASSUME NEW S, NEW n \in Nat, NEW s \in [1..n -> S]
  PROVE  s \in Seq(S) /\ Len(s) = n
OBVIOUS

\* A row with an id made for it is an item.
LEMMA ItemMade ==
  ASSUME NEW c \in Clients, NEW t \in Tables, NEW i \in Nat \ {0}, i <= BatchCap, NEW k \in Row
  PROVE  [row |-> k, id |-> newId(c, t, i)] \in Item
BY NewIdType, RepositoryAssumption DEF Item

\* A batch is made of rows of a table and numbered ids.
LEMMA BatchMade ==
  ASSUME NEW c \in Clients, NEW t \in Tables, NEW n \in Nat, n <= BatchCap,
         NEW ends \in [1..n -> Row], \A i \in 1..n : ends[i].table = t,
         NEW batch, batch = [i \in 1..n |-> [row |-> ends[i], id |-> newId(c, t, i)]]
  PROVE  /\ BatchOf(c, t, batch) /\ Len(batch) = n
         /\ \A i \in 1..n : batch[i].row = ends[i]
<1>1. \A i \in 1..n : i \in Nat \ {0} /\ i <= BatchCap
  BY RepositoryAssumption
<1>2. \A i \in 1..n : [row |-> ends[i], id |-> newId(c, t, i)] \in Item
  BY <1>1, ItemMade
<1>3. batch \in [1..n -> Item]
  BY <1>2
<1>4. batch \in Seq(Item) /\ Len(batch) = n
  BY <1>3, SeqMade
<1>5. \A i \in 1..n : batch[i].row = ends[i] /\ batch[i].id = newId(c, t, i)
  OBVIOUS
<1> QED BY <1>4, <1>5 DEF BatchOf

\* The batch of upsertAssets.
LEMMA AssetBatchIs ==
  ASSUME TypeOK, NEW c \in Clients
  PROVE  /\ BatchOf(c, "asset", AssetBatch(c))
         /\ Len(AssetBatch(c)) = Len(scan[c].assets)
         /\ \A i \in 1..Len(scan[c].assets) : AssetBatch(c)[i].row = AssetRow(scan[c].assets[i])
<1> DEFINE n == Len(scan[c].assets)
           ends == [i \in 1..n |-> AssetRow(scan[c].assets[i])]
<1>1. scan[c] \in Scans \cup {NoScan}
  BY DEF TypeOK
<1>2. n \in Nat /\ n <= BatchCap /\ \A i \in 1..n : scan[c].assets[i] \in AssetKeys
  BY <1>1, ScanShape
<1>3. \A i \in 1..n : ends[i] = AssetRow(scan[c].assets[i])
  OBVIOUS
<1>4. \A i \in 1..n : AssetRow(scan[c].assets[i]) \in Row /\ ends[i].table = "asset"
  BY <1>2, <1>3, RowTypes, RowTables
<1>5. ends \in [1..n -> Row] /\ "asset" \in Tables
  BY <1>4 DEF Tables
<1>6. AssetBatch(c) = [i \in 1..n |-> [row |-> ends[i], id |-> newId(c, "asset", i)]]
  BY DEF AssetBatch
<1> HIDE DEF n, ends
<1>7. /\ BatchOf(c, "asset", AssetBatch(c)) /\ Len(AssetBatch(c)) = n
      /\ \A i \in 1..n : AssetBatch(c)[i].row = ends[i]
  BY <1>2, <1>4, <1>5, <1>6, BatchMade
<1> QED BY <1>3, <1>7 DEF n

\* The batch of upsertRelationships.
LEMMA EdgeBatchIs ==
  ASSUME TypeOK, NEW c \in Clients, At(c, "edge"), AssetsPlaced(c), LinksSettled(c)
  PROVE  LET n == Len(scan[c].edges)
             m == Len(links[c])
             b == EdgeBatch(c)
         IN  /\ BatchOf(c, "edge", b)
             /\ n \in Nat /\ m \in Nat /\ Len(b) = n + m
             /\ \A i \in 1..n :
                  b[i].row = EdgeRow(assets[c][scan[c].edges[i].from], assets[c][scan[c].edges[i].to])
             /\ \A i \in 1..m :
                  b[n + i].row = EdgeRow(assets[c][links[c][i].from], links[c][i].to)
<1> DEFINE n == Len(scan[c].edges)
           m == Len(links[c])
           l == Len(scan[c].links)
           first == [i \in 1..n |->
                       EdgeRow(idMap(c, scan[c].edges[i].from), idMap(c, scan[c].edges[i].to))]
           second == [i \in 1..m |-> EdgeRow(idMap(c, links[c][i].from), links[c][i].to)]
           ends == first \o second
<1>1. scan[c] \in Scans \cup {NoScan}
  BY DEF TypeOK
<1>2. /\ n \in Nat /\ l \in Nat /\ n + l <= BatchCap
      /\ \A i \in 1..n :
           scan[c].edges[i].from \in 1..Len(scan[c].assets) /\ scan[c].edges[i].to \in 1..Len(scan[c].assets)
      /\ \A i \in 1..l : scan[c].links[i].from \in 1..Len(scan[c].assets)
  BY <1>1, ScanShape
<1>3. \A i \in 1..Len(scan[c].assets) : assets[c][i] \in Id
  <2>1. assets[c] \in Seq(Id) /\ Len(assets[c]) = Len(scan[c].assets)
    BY DEF TypeOK, AssetsPlaced, At
  <2> QED BY <2>1, SeqItem
<1>4. m \in Nat /\ \A i \in 1..m : links[c][i].to \in Id
  <2> DEFINE Link == [from : 1..BatchCap, to : Id]
  <2>1. links[c] \in Seq(Link)
    BY DEF TypeOK
  <2>2. m \in Nat /\ \A i \in 1..m : links[c][i] \in Link
    <3> HIDE DEF Link
    <3> QED BY <2>1, SeqItem
  <2> QED BY <2>2
<1>5. m <= l /\ \A i \in 1..m : links[c][i].from \in 1..Len(scan[c].assets)
  BY <1>2 DEF LinksSettled
<1>6. /\ \A i \in 1..n : first[i] = EdgeRow(assets[c][scan[c].edges[i].from], assets[c][scan[c].edges[i].to])
      /\ \A i \in 1..m : second[i] = EdgeRow(assets[c][links[c][i].from], links[c][i].to)
  BY DEF idMap
<1>7. /\ \A i \in 1..n : first[i] \in Row /\ first[i].table = "edge"
      /\ \A i \in 1..m : second[i] \in Row /\ second[i].table = "edge"
  BY <1>2, <1>3, <1>4, <1>5, <1>6, RowTypes, RowTables
<1>8. first \in [1..n -> Row] /\ second \in [1..m -> Row]
  <2>1. first = [i \in 1..n |-> first[i]] /\ second = [i \in 1..m |-> second[i]]
    OBVIOUS
  <2> HIDE DEF first, second
  <2> QED BY <1>7, <2>1
<1>9. EdgeBatch(c) = [i \in 1..Len(ends) |-> [row |-> ends[i], id |-> newId(c, "edge", i)]]
  BY DEF EdgeBatch
<1> HIDE DEF n, m, l, first, second
<1>10. /\ n + m \in Nat /\ n + m <= BatchCap
       /\ \A i \in 1..n : i \in 1..(n + m)
       /\ \A i \in 1..m : n + i \in 1..(n + m)
       /\ \A i \in 1..(n + m) : i \in 1..n \/ \E j \in 1..m : i = n + j
  BY <1>2, <1>4, <1>5, JoinedPlaces, RepositoryAssumption
<1>11. first \in Seq(Row) /\ second \in Seq(Row) /\ Len(first) = n /\ Len(second) = m
  BY <1>2, <1>4, <1>8, SeqMade
<1>12. /\ ends \in Seq(Row) /\ Len(ends) = n + m
       /\ \A i \in 1..n : ends[i] = first[i]
       /\ \A i \in 1..m : ends[n + i] = second[i]
  <2>1. /\ ends \in Seq(Row) /\ Len(ends) = Len(first) + Len(second)
        /\ \A i \in 1..Len(first) : ends[i] = first[i]
        /\ \A i \in 1..Len(second) : ends[Len(first) + i] = second[i]
    <3>1. \A s, t \in Seq(Row) :
            /\ s \o t \in Seq(Row) /\ Len(s \o t) = Len(s) + Len(t)
            /\ \A i \in 1..Len(s) : (s \o t)[i] = s[i]
            /\ \A i \in 1..Len(t) : (s \o t)[Len(s) + i] = t[i]
      <4> HIDE DEF ends
      <4> QED BY Joined
    <3> QED BY <1>11, <3>1, Zenon DEF ends
  <2> QED BY <1>11, <2>1, Zenon
<1> HIDE DEF ends
<1>13. \A i \in 1..(n + m) : ends[i].table = "edge"
  BY <1>7, <1>10, <1>12
<1>14. ends \in [1..(n + m) -> Row] /\ "edge" \in Tables
  BY <1>12 DEF Tables
<1>15. /\ BatchOf(c, "edge", EdgeBatch(c)) /\ Len(EdgeBatch(c)) = n + m
       /\ \A i \in 1..(n + m) : EdgeBatch(c)[i].row = ends[i]
  BY <1>9, <1>10, <1>12, <1>13, <1>14, BatchMade
<1>16. /\ \A i \in 1..n : EdgeBatch(c)[i].row = first[i]
       /\ \A i \in 1..m : EdgeBatch(c)[n + i].row = second[i]
  BY <1>10, <1>12, <1>15
<1> QED BY <1>2, <1>4, <1>6, <1>15, <1>16 DEF n, m

\* The batch of upsertFindings.
LEMMA FindingBatchIs ==
  ASSUME TypeOK, NEW c \in Clients, At(c, "finding"), AssetsPlaced(c)
  PROVE  /\ BatchOf(c, "finding", FindingBatch(c))
         /\ Len(FindingBatch(c)) = Len(scan[c].findings)
         /\ \A i \in 1..Len(scan[c].findings) : FindingBatch(c)[i].row = FindingAt(c, i)
<1> DEFINE n == Len(scan[c].findings)
           ends == [i \in 1..n |-> FindingAt(c, i)]
<1>1. scan[c] \in Scans \cup {NoScan}
  BY DEF TypeOK
<1>2. /\ n \in Nat /\ n <= BatchCap
      /\ \A i \in 1..n :
           scan[c].findings[i].on \in 1..Len(scan[c].assets) /\ scan[c].findings[i].source \in Sources
  BY <1>1, ScanShape
<1>3. \A i \in 1..Len(scan[c].assets) : assets[c][i] \in Id
  <2>1. assets[c] \in Seq(Id) /\ Len(assets[c]) = Len(scan[c].assets)
    BY DEF TypeOK, AssetsPlaced, At
  <2> QED BY <2>1, SeqItem
<1>4. \A i \in 1..n : ends[i] = FindingAt(c, i)
  OBVIOUS
<1>5. \A i \in 1..n : FindingAt(c, i) \in Row /\ FindingAt(c, i).table = "finding"
  BY <1>2, <1>3, RowTypes, RowTables DEF FindingAt
<1>6. ends \in [1..n -> Row] /\ "finding" \in Tables /\ \A i \in 1..n : ends[i].table = "finding"
  BY <1>5 DEF Tables
<1>7. FindingBatch(c) = [i \in 1..n |-> [row |-> ends[i], id |-> newId(c, "finding", i)]]
  BY DEF FindingBatch, FindingAt
<1> HIDE DEF n, ends
<1>8. /\ BatchOf(c, "finding", FindingBatch(c)) /\ Len(FindingBatch(c)) = n
      /\ \A i \in 1..n : FindingBatch(c)[i].row = ends[i]
  BY <1>2, <1>6, <1>7, BatchMade
<1> QED BY <1>4, <1>8 DEF n

\* The batch of upsertScores.
LEMMA ScoreBatchIs ==
  ASSUME TypeOK, NEW c \in Clients, At(c, "score"), FindingsPlaced(c)
  PROVE  /\ BatchOf(c, "score", ScoreBatch(c))
         /\ Len(ScoreBatch(c)) = Len(found[c])
         /\ \A i \in 1..Len(found[c]) : ScoreBatch(c)[i].row = ScoreRow(found[c][i])
<1> DEFINE n == Len(found[c])
           ends == [i \in 1..n |-> ScoreRow(found[c][i])]
<1>1. scan[c] \in Scans \cup {NoScan}
  BY DEF TypeOK
<1>2. n \in Nat /\ n <= BatchCap
  <2>1. Len(scan[c].findings) \in Nat /\ Len(scan[c].findings) <= BatchCap
    BY <1>1, ScanShape
  <2> QED BY <2>1 DEF FindingsPlaced, At
<1>3. \A i \in 1..n : found[c][i] \in Id
  <2>1. found[c] \in Seq(Id)
    BY DEF TypeOK
  <2> QED BY <2>1, SeqItem
<1>4. \A i \in 1..n : ends[i] = ScoreRow(found[c][i])
  OBVIOUS
<1>5. \A i \in 1..n : ScoreRow(found[c][i]) \in Row /\ ends[i].table = "score"
  BY <1>3, <1>4, RowTypes, RowTables
<1>6. ends \in [1..n -> Row] /\ "score" \in Tables
  BY <1>5 DEF Tables
<1>7. ScoreBatch(c) = [i \in 1..n |-> [row |-> ends[i], id |-> newId(c, "score", i)]]
  BY DEF ScoreBatch
<1> HIDE DEF n, ends
<1>8. /\ BatchOf(c, "score", ScoreBatch(c)) /\ Len(ScoreBatch(c)) = n
      /\ \A i \in 1..n : ScoreBatch(c)[i].row = ends[i]
  BY <1>2, <1>5, <1>6, <1>7, BatchMade
<1> QED BY <1>4, <1>8 DEF n

\* Each batch is one of the four.
LEMMA BatchIs ==
  ASSUME TypeOK, NEW c \in Clients, ClientOK(c),
         pc[c] \in {"asset", "edge", "finding", "score"}
  PROVE  BatchOf(c, pc[c], Batch(c))
<1>1. CASE pc[c] = "asset"
  BY <1>1, AssetBatchIs DEF Batch
<1>2. CASE pc[c] = "edge"
  BY <1>2, EdgeBatchIs DEF Batch, ClientOK, At
<1>3. CASE pc[c] = "finding"
  BY <1>3, FindingBatchIs DEF Batch, ClientOK, At
<1>4. CASE pc[c] = "score"
  BY <1>4, ScoreBatchIs DEF Batch, ClientOK, At
<1> QED BY <1>1, <1>2, <1>3, <1>4

-----------------------------------------------------------------------------
(* What a step that adds rows keeps.                                       *)

ReferencedKept == Referenced \subseteq KeepsId

\* Rows are added, and keep the ids others refer to.
Grows ==
  /\ Stored \subseteq Stored'
  /\ \A k \in Stored : k.table \in Referenced => rows'[k] = rows[k]

\* Nothing of an execution changes.
Idle(d) ==
  /\ pc'[d] = pc[d] /\ scan'[d] = scan[d] /\ links'[d] = links[d]
  /\ assets'[d] = assets[d] /\ found'[d] = found[d]

\* Links that were settled stay so while the rows grow.
LEMMA LinksKept ==
  ASSUME Grows, NEW d, LinksSettled(d), links'[d] = links[d], scan'[d] = scan[d],
         pc'[d] = "scan" => pc[d] = "scan"
  PROVE  LinksSettled(d)'
<1>1. \A i \in 1..Len(links[d]) : \E n \in 1..Len(scan[d].links) :
        /\ links[d][i].from = scan[d].links[n].from
        /\ AssetRow(scan[d].links[n].key) \in Stored'
        /\ rows'[AssetRow(scan[d].links[n].key)] = links[d][i].to
  BY RowTables DEF LinksSettled, Grows, Referenced
<1>2. pc'[d] = "scan" => links[d] = <<>>
  BY DEF LinksSettled, At
<1>3. Len(links[d]) <= Len(scan[d].links)
  BY DEF LinksSettled
<1> QED BY <1>1, <1>2, <1>3 DEF LinksSettled, At

\* What holds of an execution that does nothing holds on while the rows grow.
LEMMA ClientKept ==
  ASSUME Grows, NEW d, ClientOK(d), Idle(d)
  PROVE  ClientOK(d)'
<1>1. LinksSettled(d)'
  BY LinksKept DEF ClientOK, Idle
<1>2. AssetsPlaced(d)'
  BY RowTables DEF ClientOK, AssetsPlaced, Grows, Idle, Referenced
<1>3. EdgesPlaced(d)'
  BY DEF ClientOK, EdgesPlaced, Grows, Idle
<1>4. FindingsPlaced(d)'
  <2>1. \A i : FindingAt(d, i)' = FindingAt(d, i) /\ FindingAt(d, i).table = "finding"
    BY RowTables DEF FindingAt, Idle
  <2> QED BY <2>1 DEF ClientOK, FindingsPlaced, Grows, Idle, Referenced
<1>5. ScoresPlaced(d)'
  BY DEF ClientOK, ScoresPlaced, Grows, Idle, At
<1> QED BY <1>1, <1>2, <1>3, <1>4, <1>5 DEF ClientOK

\* An execution that has placed nothing, or was cut, promises nothing but its links.
LEMMA EarlyOK ==
  ASSUME NEW d, LinksSettled(d)', pc'[d] \in {"scan", "list", "asset", "thrown"}
  PROVE  ClientOK(d)'
BY DEF ClientOK, AssetsPlaced, EdgesPlaced, FindingsPlaced, ScoresPlaced, At

\* No id that others may refer to goes away.
LEMMA IdsGrow ==
  ASSUME Grows
  PROVE  /\ Ids("asset") \subseteq Ids("asset")'
         /\ Ids("finding") \subseteq Ids("finding")'
BY DEF Ids, InTable, Grows, Referenced

\* If the new rows refer to stored ids, so do all.
LEMMA DanglingKept ==
  ASSUME NoDangling, Grows,
         \A k \in Stored' \ Stored :
           /\ k.table = "edge" => {k.from, k.to} \subseteq Ids("asset")'
           /\ k.table = "finding" => k.asset \in Ids("asset")'
           /\ k.table = "score" => k.finding \in Ids("finding")'
  PROVE  NoDangling'
<1>1. ASSUME NEW k \in Stored'
      PROVE  /\ k.table = "edge" => {k.from, k.to} \subseteq Ids("asset")'
             /\ k.table = "finding" => k.asset \in Ids("asset")'
             /\ k.table = "score" => k.finding \in Ids("finding")'
  <2>1. CASE k \in Stored
    BY <2>1, IdsGrow DEF NoDangling, InTable
  <2>2. CASE k \notin Stored
    BY <2>2
  <2> QED BY <2>1, <2>2
<1> QED BY <1>1 DEF NoDangling, InTable

\* Whoever has still to score a finding goes on having to, or has scored it.
LEMMA UnscoredKept ==
  ASSUME UnscoredExplained, Grows,
         \A k \in Stored' \ Stored :
           k.table = "finding" =>
             \E c \in Clients : pc'[c] \in {"score", "thrown"} /\ k \in FindingRows(c)',
         \A d \in Clients :
           pc[d] \in {"score", "thrown"} =>
             \/ pc'[d] \in {"score", "thrown"} /\ FindingRows(d)' = FindingRows(d)
             \/ \A k \in FindingRows(d) : k \in Stored => ScoreRow(rows[k]) \in Stored'
  PROVE  UnscoredExplained'
<1> SUFFICES ASSUME NEW k \in Stored', k.table = "finding"
             PROVE  \/ ScoreRow(rows'[k]) \in Stored'
                    \/ \E c \in Clients : pc'[c] \in {"score", "thrown"} /\ k \in FindingRows(c)'
  BY DEF UnscoredExplained, InTable
<1>1. CASE k \notin Stored
  BY <1>1
<1>2. CASE k \in Stored
  <2>1. rows'[k] = rows[k]
    BY <1>2 DEF Grows, Referenced
  <2>2. \/ ScoreRow(rows[k]) \in Stored
        \/ \E d \in Clients : pc[d] \in {"score", "thrown"} /\ k \in FindingRows(d)
    BY <1>2 DEF UnscoredExplained, InTable
  <2>3. CASE ScoreRow(rows[k]) \in Stored
    BY <2>1, <2>3 DEF Grows
  <2>4. ASSUME NEW d \in Clients, pc[d] \in {"score", "thrown"}, k \in FindingRows(d)
        PROVE  \/ ScoreRow(rows'[k]) \in Stored'
               \/ \E c \in Clients : pc'[c] \in {"score", "thrown"} /\ k \in FindingRows(c)'
    BY <1>2, <2>1, <2>4
  <2> QED BY <2>2, <2>3, <2>4
<1> QED BY <1>1, <1>2

-----------------------------------------------------------------------------
(* What committing a transaction keeps, whether it is answered or not.     *)

Writing == {"asset", "edge", "finding", "score"}

\* The transaction after one.
After == [asset |-> "edge", edge |-> "finding", finding |-> "score", score |-> "returned"]

\* c commits the transaction it is at.
Committing(c) ==
  /\ pc[c] \in Writing
  /\ Commit(c, Batch(c))
  /\ \A d \in Clients \ {c} : Idle(d)
  /\ scan' = scan /\ links' = links
  /\ pc'[c] \in {After[pc[c]], "thrown"}

\* What a commit stores: the rows there were, and those of the batch.
LEMMA CommitRows ==
  ASSUME Inv, ReferencedKept, NEW c \in Clients, Committing(c)
  PROVE  /\ Grows /\ RepositoryTypeOK'
         /\ Stored' = Stored \cup {Batch(c)[i].row : i \in 1..Len(Batch(c))}
         /\ \A k \in Stored : k.table \in KeepsId => rows'[k] = rows[k]
         /\ \A k \in Stored' :
              \/ k \in Stored /\ rows'[k] = rows[k]
              \/ \E i \in 1..Len(Batch(c)) :
                   Batch(c)[i].row = k /\ rows'[k] = newId(c, pc[c], i)
<1> DEFINE b == Batch(c)
<1>1. TypeOK /\ RepositoryTypeOK /\ ClientOK(c)
  BY DEF Inv, TypeOK
<1>2. BatchOf(c, pc[c], b)
  BY <1>1, BatchIs DEF Committing, Writing
<1>3. rows' = Upserted(b) /\ locked' = [locked EXCEPT ![c] = <<>>]
  BY DEF Committing, Commit, Release
<1> HIDE DEF b
<1>4. /\ Stored' = Stored \cup {b[i].row : i \in 1..Len(b)}
      /\ rows' \in [Stored' -> Id] /\ Stored' \subseteq Row
      /\ \A k \in Stored : k.table \in KeepsId \/ k.table # pc[c] => rows'[k] = rows[k]
      /\ \A k \in Stored' :
           \/ k \in Stored /\ rows'[k] = rows[k]
           \/ \E i \in 1..Len(b) : b[i].row = k /\ rows'[k] = newId(c, pc[c], i)
  BY <1>1, <1>2, <1>3, CommitEffect
<1>5. Grows
  BY <1>4 DEF Grows, ReferencedKept
<1>6. locked' \in [Clients -> Seq(Row)]
  BY <1>1, <1>3 DEF RepositoryTypeOK
<1> QED BY <1>4, <1>5, <1>6 DEF RepositoryTypeOK, b

\* After a commit an id is still one that its table and execution made, and of one row.
LEMMA CommitIds ==
  ASSUME Inv, ReferencedKept, NEW c \in Clients, Committing(c)
  PROVE  IdsMade' /\ OneToOne(rows)'
<1> DEFINE New(k) == \E i \in 1..Len(Batch(c)) :
                       Batch(c)[i].row = k /\ rows'[k] = newId(c, pc[c], i)
<1>1. \A k \in Stored' : (k \in Stored /\ rows'[k] = rows[k]) \/ New(k)
  BY CommitRows
<1>2. \A k \in Stored' : New(k) => rows'[k].by = c /\ rows'[k].table = pc[c]
  BY DEF newId
<1>3. \A d \in Clients : Made[pc[d]] \subseteq Made[pc'[d]]
  BY DEF Committing, Idle, Made, After, Writing, Tables
<1>4. pc[c] \in Made[pc'[c]] /\ pc[c] \notin Made[pc[c]]
  BY DEF Committing, Made, After, Writing, Tables
<1>5. \A k \in Stored : rows[k].by \in Clients /\ rows[k].table \in Made[pc[rows[k].by]]
  BY DEF Inv, IdsMade, TypeOK, RepositoryTypeOK, Id
<1>6. IdsMade'
  BY <1>1, <1>2, <1>3, <1>4, <1>5 DEF IdsMade
<1>7. ASSUME NEW k \in Stored', NEW m \in Stored', rows'[k] = rows'[m]
      PROVE  k = m
  <2>1. CASE New(k) /\ New(m)
    <3>1. PICK i \in 1..Len(Batch(c)) : Batch(c)[i].row = k /\ rows'[k] = newId(c, pc[c], i)
      BY <2>1
    <3>2. PICK j \in 1..Len(Batch(c)) : Batch(c)[j].row = m /\ rows'[m] = newId(c, pc[c], j)
      BY <2>1
    <3>3. newId(c, pc[c], i) = newId(c, pc[c], j)
      BY <1>7, <3>1, <3>2
    <3>4. i = newId(c, pc[c], i).n /\ j = newId(c, pc[c], j).n
      BY DEF newId
    <3> QED BY <3>1, <3>2, <3>3, <3>4
  <2>2. CASE ~ New(k) /\ ~ New(m)
    <3>1. /\ k \in Stored /\ rows'[k] = rows[k]
          /\ m \in Stored /\ rows'[m] = rows[m]
      BY <1>1, <2>2
    <3>2. \A x, y \in Stored : rows[x] = rows[y] => x = y
      BY DEF Inv, OneToOne, Stored
    <3> QED BY <1>7, <3>1, <3>2
  <2>3. CASE New(k) /\ ~ New(m)
    <3>1. rows'[k].by = c /\ rows'[k].table = pc[c]
      BY <1>2, <2>3
    <3>2. m \in Stored /\ rows'[m] = rows[m]
      BY <1>1, <2>3
    <3> QED BY <1>4, <1>5, <1>7, <3>1, <3>2
  <2>4. CASE ~ New(k) /\ New(m)
    <3>1. rows'[m].by = c /\ rows'[m].table = pc[c]
      BY <1>2, <2>4
    <3>2. k \in Stored /\ rows'[k] = rows[k]
      BY <1>1, <2>4
    <3> QED BY <1>4, <1>5, <1>7, <3>1, <3>2
  <2> QED BY <2>1, <2>2, <2>3, <2>4
<1> QED BY <1>6, <1>7 DEF OneToOne, Stored

\* The other executions are in order after a commit.
LEMMA CommitOthers ==
  ASSUME Inv, ReferencedKept, NEW c \in Clients, Committing(c)
  PROVE  \A d \in Clients \ {c} : ClientOK(d)'
BY CommitRows, ClientKept DEF Inv, Committing

\* No row of a batch refers to an id that is not stored.
LEMMA CommitDangling ==
  ASSUME Inv, ReferencedKept, NEW c \in Clients, Committing(c)
  PROVE  NoDangling'
<1>1. TypeOK /\ ClientOK(c) /\ NoDangling /\ Grows
  BY CommitRows DEF Inv
<1>2. \A k \in Stored' \ Stored : \E i \in 1..Len(Batch(c)) : Batch(c)[i].row = k
  BY CommitRows
<1>3. /\ Len(scan[c].assets) \in Nat
      /\ \A i \in 1..Len(scan[c].edges) :
           scan[c].edges[i].from \in 1..Len(scan[c].assets) /\ scan[c].edges[i].to \in 1..Len(scan[c].assets)
      /\ \A i \in 1..Len(scan[c].links) : scan[c].links[i].from \in 1..Len(scan[c].assets)
      /\ \A i \in 1..Len(scan[c].findings) : scan[c].findings[i].on \in 1..Len(scan[c].assets)
  BY <1>1, ScanShape DEF TypeOK
\* The ids it refers to are those of stored rows.
<1>4. pc[c] \in {"edge", "finding"} =>
        \A i \in 1..Len(scan[c].assets) : assets[c][i] \in Ids("asset")
  BY <1>1, RowTables DEF ClientOK, AssetsPlaced, Ids, InTable
<1>5. \A i \in 1..Len(links[c]) :
        links[c][i].from \in 1..Len(scan[c].assets) /\ links[c][i].to \in Ids("asset")
  <2> SUFFICES ASSUME NEW i \in 1..Len(links[c])
               PROVE  links[c][i].from \in 1..Len(scan[c].assets) /\ links[c][i].to \in Ids("asset")
    OBVIOUS
  <2>1. PICK n \in 1..Len(scan[c].links) :
          /\ links[c][i].from = scan[c].links[n].from
          /\ AssetRow(scan[c].links[n].key) \in Stored
          /\ rows[AssetRow(scan[c].links[n].key)] = links[c][i].to
    BY <1>1 DEF ClientOK, LinksSettled
  <2> QED BY <1>3, <2>1, RowTables DEF Ids, InTable
<1>6. pc[c] = "score" => \A i \in 1..Len(found[c]) : found[c][i] \in Ids("finding")
  BY <1>1, RowTables DEF ClientOK, FindingsPlaced, FindingAt, Ids, InTable
<1>7. ASSUME NEW i \in 1..Len(Batch(c)), NEW k, Batch(c)[i].row = k
      PROVE  /\ k.table = "edge" => {k.from, k.to} \subseteq Ids("asset")
             /\ k.table = "finding" => k.asset \in Ids("asset")
             /\ k.table = "score" => k.finding \in Ids("finding")
  <2>0. pc[c] \in Writing
    BY DEF Committing
  <2>1. CASE pc[c] = "asset"
    <3>1. Batch(c) = AssetBatch(c)
      BY <2>1 DEF Batch
    <3>2. k = AssetRow(scan[c].assets[i])
      BY <1>1, <1>7, <3>1, AssetBatchIs
    <3> QED BY <3>2, RowTables
  <2>2. CASE pc[c] = "edge"
    <3> DEFINE n == Len(scan[c].edges)
               m == Len(links[c])
    <3>1. Batch(c) = EdgeBatch(c)
      BY <2>2 DEF Batch
    <3>2. /\ n \in Nat /\ m \in Nat /\ Len(EdgeBatch(c)) = n + m
          /\ \A j \in 1..n : EdgeBatch(c)[j].row =
                EdgeRow(assets[c][scan[c].edges[j].from], assets[c][scan[c].edges[j].to])
          /\ \A j \in 1..m : EdgeBatch(c)[n + j].row =
                EdgeRow(assets[c][links[c][j].from], links[c][j].to)
      BY <1>1, <2>2, EdgeBatchIs DEF At, ClientOK
    <3>3. i \in 1..n \/ \E j \in 1..m : i = n + j
      <4> HIDE DEF n, m
      <4> QED BY <3>1, <3>2, JoinedPlaces
    <3>4. \E x, y \in Ids("asset") : k = EdgeRow(x, y)
      BY <1>3, <1>4, <1>5, <1>7, <2>2, <3>1, <3>2, <3>3
    <3> QED BY <3>4 DEF EdgeRow
  <2>3. CASE pc[c] = "finding"
    <3>1. Batch(c) = FindingBatch(c)
      BY <2>3 DEF Batch
    <3>2. i \in 1..Len(scan[c].findings) /\ k = FindingAt(c, i)
      BY <1>1, <1>7, <2>3, <3>1, FindingBatchIs DEF At, ClientOK
    <3>3. \E x \in Ids("asset") : \E y : k = FindingRow(x, y)
      BY <1>3, <1>4, <2>3, <3>2 DEF FindingAt
    <3> QED BY <3>3 DEF FindingRow
  <2>4. CASE pc[c] = "score"
    <3>1. Batch(c) = ScoreBatch(c)
      BY <2>4 DEF Batch
    <3>2. i \in 1..Len(found[c]) /\ k = ScoreRow(found[c][i])
      BY <1>1, <1>7, <2>4, <3>1, ScoreBatchIs DEF At, ClientOK
    <3>3. \E x \in Ids("finding") : k = ScoreRow(x)
      BY <1>6, <2>4, <3>2
    <3> QED BY <3>3 DEF ScoreRow
  <2> QED BY <2>0, <2>1, <2>2, <2>3, <2>4 DEF Writing
<1>8. /\ Ids("asset") \subseteq Ids("asset")' /\ Ids("finding") \subseteq Ids("finding")'
  BY <1>1, IdsGrow
<1>9. \A k \in Stored' \ Stored :
        /\ k.table = "edge" => {k.from, k.to} \subseteq Ids("asset")'
        /\ k.table = "finding" => k.asset \in Ids("asset")'
        /\ k.table = "score" => k.finding \in Ids("finding")'
  BY <1>2, <1>7, <1>8
<1> QED BY <1>1, <1>9, DanglingKept

\* The rows of the batch are stored, under the ids the upsert returns.
LEMMA CommitReturns ==
  ASSUME Inv, NEW c \in Clients, Committing(c)
  PROVE  /\ Returned(Batch(c)) \in Seq(Id) /\ Len(Returned(Batch(c))) = Len(Batch(c))
         /\ \A i \in 1..Len(Batch(c)) :
              /\ Batch(c)[i].row \in Stored'
              /\ Returned(Batch(c))[i] = rows'[Batch(c)[i].row]
<1> DEFINE b == Batch(c)
<1>1. TypeOK /\ RepositoryTypeOK /\ ClientOK(c)
  BY DEF Inv, TypeOK
<1>2. BatchOf(c, pc[c], b)
  BY <1>1, BatchIs DEF Committing, Writing
<1>3. rows' = Upserted(b)
  BY DEF Committing, Commit
<1> HIDE DEF b
<1>4. /\ Stored' = Stored \cup {b[i].row : i \in 1..Len(b)}
      /\ Returned(b) \in Seq(Id) /\ Len(Returned(b)) = Len(b)
      /\ \A i \in 1..Len(b) : Returned(b)[i] = rows'[b[i].row]
  BY <1>1, <1>2, <1>3, CommitEffect
<1> QED BY <1>4 DEF b

\* Once its assets are placed, the findings c writes are those of its scan.
LEMMA FindingRowsAre ==
  ASSUME TypeOK, NEW c \in Clients, AssetsPlaced(c),
         pc[c] \in {"edge", "finding", "score", "returned"}
  PROVE  FindingRows(c) = {FindingAt(c, i) : i \in 1..Len(scan[c].findings)}
<1>1. /\ Len(scan[c].assets) \in Nat /\ Len(scan[c].findings) \in Nat
      /\ \A i \in 1..Len(scan[c].findings) : scan[c].findings[i].on \in 1..Len(scan[c].assets)
  BY ScanShape DEF TypeOK
<1>2. Len(assets[c]) = Len(scan[c].assets)
  BY DEF AssetsPlaced
<1>3. assets[c] = <<>> => 1..Len(scan[c].findings) = {}
  BY <1>1, <1>2
<1> QED BY <1>3 DEF FindingRows, FindingAt

\* After a commit an unscored finding is still explained.
LEMMA CommitUnscored ==
  ASSUME Inv, ReferencedKept, NEW c \in Clients, Committing(c),
         pc[c] # "asset" => assets'[c] = assets[c]
  PROVE  UnscoredExplained'
<1>1. TypeOK /\ ClientOK(c) /\ AssetsPlaced(c) /\ UnscoredExplained /\ Grows
  BY CommitRows DEF Inv, ClientOK
<1>2. \A k \in Stored' \ Stored : \E i \in 1..Len(Batch(c)) : Batch(c)[i].row = k
  BY CommitRows
<1>3. \A d \in Clients : d # c \/ pc[c] # "asset" => FindingRows(d)' = FindingRows(d)
  <2> SUFFICES ASSUME NEW d \in Clients, d # c \/ pc[c] # "asset"
               PROVE  FindingRows(d)' = FindingRows(d)
    OBVIOUS
  <2>1. assets'[d] = assets[d] /\ scan'[d] = scan[d]
    BY DEF Committing, Idle
  <2> QED BY <2>1, Zenon DEF FindingRows
<1>4. ASSUME NEW k \in Stored' \ Stored, k.table = "finding"
      PROVE  pc'[c] \in {"score", "thrown"} /\ k \in FindingRows(c)'
  <2>1. PICK i \in 1..Len(Batch(c)) : Batch(c)[i].row = k
    BY <1>2
  <2>2. pc[c] = "finding"
    <3>1. BatchOf(c, pc[c], Batch(c))
      BY <1>1, BatchIs DEF Committing, Writing
    <3> QED BY <1>4, <2>1, <3>1, BatchItem
  <2>3. pc'[c] \in {"score", "thrown"}
    BY <2>2 DEF Committing, After
  <2>4. Batch(c) = FindingBatch(c)
    BY <2>2 DEF Batch
  <2>5. i \in 1..Len(scan[c].findings) /\ k = FindingAt(c, i)
    BY <1>1, <2>1, <2>2, <2>4, FindingBatchIs DEF At
  <2>6. k \in FindingRows(c)
    BY <1>1, <2>2, <2>5, FindingRowsAre
  <2> QED BY <1>3, <2>2, <2>3, <2>6
<1>5. ASSUME NEW d \in Clients, pc[d] \in {"score", "thrown"}
      PROVE  \/ pc'[d] \in {"score", "thrown"} /\ FindingRows(d)' = FindingRows(d)
             \/ \A k \in FindingRows(d) : k \in Stored => ScoreRow(rows[k]) \in Stored'
  <2>1. CASE d # c
    BY <1>3, <1>5, <2>1 DEF Committing, Idle
  <2>2. CASE d = c
    <3>1. pc[c] = "score"
      BY <1>5, <2>2 DEF Committing, Writing
    <3>2. SUFFICES ASSUME NEW k \in FindingRows(c)
                   PROVE  ScoreRow(rows[k]) \in Stored'
      BY <2>2
    <3>3. PICK i \in 1..Len(scan[c].findings) : k = FindingAt(c, i)
      BY <1>1, <3>1, FindingRowsAre
    <3>4. i \in 1..Len(found[c]) /\ rows[k] = found[c][i]
      BY <1>1, <3>1, <3>3 DEF ClientOK, FindingsPlaced
    <3>5. Batch(c) = ScoreBatch(c)
      BY <3>1 DEF Batch
    <3>6. i \in 1..Len(Batch(c)) /\ Batch(c)[i].row = ScoreRow(found[c][i])
      BY <1>1, <3>1, <3>4, <3>5, ScoreBatchIs DEF At, ClientOK
    <3> QED BY <3>4, <3>6, CommitReturns
  <2> QED BY <2>1, <2>2
<1> QED BY <1>1, <1>4, <1>5, UnscoredKept

\* A commit, answered or not, leaves everything but c itself in order.
LEMMA CommitKeeps ==
  ASSUME Inv, ReferencedKept, NEW c \in Clients, Committing(c), TypeOK', ClientOK(c)',
         pc[c] # "asset" => assets'[c] = assets[c]
  PROVE  Inv'
BY CommitOthers, CommitDangling, CommitUnscored, CommitIds DEF Inv

-----------------------------------------------------------------------------
(* Every action keeps the invariant.                                       *)

\* A step of c that leaves the rows alone.
LEMMA QuietKeeps ==
  ASSUME Inv, NEW c \in Clients, rows' = rows, \A d \in Clients \ {c} : Idle(d),
         TypeOK', ClientOK(c)', Made[pc[c]] \subseteq Made[pc'[c]],
         pc[c] \in {"score", "thrown"} =>
           pc'[c] \in {"score", "thrown"} /\ scan'[c] = scan[c] /\ assets'[c] = assets[c]
  PROVE  Inv'
<1>1. Stored' = Stored /\ Grows
  BY DEF Stored, Grows
<1>2. \A d \in Clients : ClientOK(d)'
  BY <1>1, ClientKept DEF Inv
<1>3. NoDangling'
  BY <1>1, DanglingKept DEF Inv
<1>4. UnscoredExplained'
  <2>1. ASSUME NEW d \in Clients, pc[d] \in {"score", "thrown"}
        PROVE  pc'[d] \in {"score", "thrown"} /\ FindingRows(d)' = FindingRows(d)
    <3>1. assets'[d] = assets[d] /\ scan'[d] = scan[d] /\ pc'[d] \in {"score", "thrown"}
      BY <2>1 DEF Idle
    <3>2. FindingRows(d)' = FindingRows(d)
      BY <3>1, Zenon DEF FindingRows
    <3> QED BY <3>1, <3>2
  <2> QED BY <1>1, <2>1, UnscoredKept DEF Inv
<1>5. IdsMade'
  <2>1. \A d \in Clients : Made[pc[d]] \subseteq Made[pc'[d]]
    BY DEF Idle
  <2>2. \A k \in Stored : rows[k].by \in Clients /\ rows[k].table \in Made[pc[rows[k].by]]
    BY DEF Inv, IdsMade, TypeOK, RepositoryTypeOK, Id
  <2> QED BY <1>1, <2>1, <2>2 DEF IdsMade
<1>6. OneToOne(rows)'
  BY DEF Inv, OneToOne
<1> QED BY <1>2, <1>3, <1>4, <1>5, <1>6 DEF Inv

\* The tables are empty and no execution has begun.
LEMMA InvInit == Init => Inv
<1> SUFFICES ASSUME Init PROVE Inv
  OBVIOUS
<1>1. Stored = {}
  BY DEF Init, RepositoryInit, Stored
<1>2. TypeOK
  BY <1>1 DEF Init, RepositoryInit, TypeOK, RepositoryTypeOK, Steps, Stored
<1>3. \A c \in Clients : ClientOK(c)
  BY DEF Init, NoScan, ClientOK, LinksSettled, AssetsPlaced, EdgesPlaced, FindingsPlaced,
         ScoresPlaced, At
<1>4. NoDangling /\ UnscoredExplained /\ IdsMade /\ OneToOne(rows)
  BY <1>1 DEF NoDangling, UnscoredExplained, InTable, IdsMade, OneToOne, Stored
<1> QED BY <1>2, <1>3, <1>4 DEF Inv

\* The connector returns.
LEMMA ScannedKeeps ==
  ASSUME Inv, NEW c \in Clients, Scanned(c)
  PROVE  Inv'
<1>1. PICK s \in Scans :
        /\ scan' = [scan EXCEPT ![c] = s]
        /\ pc' = [pc EXCEPT ![c] = IF s.links = <<>> THEN "asset" ELSE "list"]
  BY DEF Scanned, Goto
<1>2. /\ pc[c] = "scan" /\ pc'[c] \in {"asset", "list"} /\ scan'[c] = s
      /\ rows' = rows /\ locked' = locked /\ links' = links /\ assets' = assets /\ found' = found
      /\ \A d \in Clients \ {c} : Idle(d)
  BY <1>1 DEF Scanned, At, repository, Inv, TypeOK, Idle
<1>3. TypeOK'
  BY <1>1, <1>2 DEF Inv, TypeOK, RepositoryTypeOK, Steps, Stored
<1>4. ClientOK(c)'
  <2>1. links[c] = <<>>
    BY <1>2 DEF Inv, ClientOK, LinksSettled, At
  <2>2. Len(s.links) \in Nat
    BY ScanShape
  <2>3. LinksSettled(c)'
    BY <1>2, <2>1, <2>2 DEF LinksSettled, At
  <2> QED BY <1>2, <2>3, EarlyOK
<1>5. Made[pc[c]] \subseteq Made[pc'[c]]
  BY <1>2 DEF Made
<1> QED BY <1>2, <1>3, <1>4, <1>5, QuietKeeps

\* The assets found before are listed.
LEMMA ListedKeeps ==
  ASSUME Inv, NEW c \in Clients, Listed(c)
  PROVE  Inv'
<1> DEFINE l == scan[c].links
           N == Len(l)
           n == Cardinality(Known(c))
           new == [i \in 1..n |-> [from |-> l[Nth(Known(c), i)].from,
                                   to |-> rows[AssetRow(l[Nth(Known(c), i)].key)]]]
<1>1. /\ pc[c] = "list" /\ pc' = [pc EXCEPT ![c] = "asset"]
      /\ rows' = rows /\ locked' = locked /\ scan' = scan /\ assets' = assets /\ found' = found
  BY DEF Listed, At, Goto, repository
<1>2. /\ N \in Nat
      /\ \A i \in 1..N : l[i].from \in 1..Len(scan[c].assets) /\ l[i].key \in AssetKeys
      /\ Len(scan[c].assets) \in Nat /\ Len(scan[c].assets) <= BatchCap
  BY ScanShape DEF Inv, TypeOK
<1>3. Known(c) \in SUBSET (1..N) /\ \A i \in Known(c) : AssetRow(l[i].key) \in Stored
  BY DEF Known
<1>5. /\ n \in Nat /\ n <= N /\ Len(ItemsAt(l, Known(c))) = n
      /\ \A i \in 1..n : /\ Nth(Known(c), i) \in Known(c)
                         /\ ItemsAt(l, Known(c))[i] = l[Nth(Known(c), i)]
  BY <1>2, <1>3, ItemsSelected
<1>6. links' = [links EXCEPT ![c] = new]
  <2> DEFINE items == ItemsAt(l, Known(c))
  <2>1. links' = [links EXCEPT ![c] = [i \in 1..Len(items) |->
                    [from |-> items[i].from, to |-> rows[AssetRow(items[i].key)]]]]
    BY Zenon DEF Listed
  <2>2. Len(items) = n /\ \A i \in 1..n : items[i] = l[Nth(Known(c), i)]
    BY <1>5
  <2> HIDE DEF items, n
  <2> QED BY <2>1, <2>2
<1>7. /\ Len(new) = n
      /\ \A i \in 1..n : /\ new[i].from = l[Nth(Known(c), i)].from
                         /\ new[i].to = rows[AssetRow(l[Nth(Known(c), i)].key)]
  BY <1>5
<1>8. new \in Seq([from : 1..BatchCap, to : Id])
  <2> DEFINE Link == [from : 1..BatchCap, to : Id]
  <2>1. ASSUME NEW i \in 1..n
        PROVE  [from |-> l[Nth(Known(c), i)].from,
                to |-> rows[AssetRow(l[Nth(Known(c), i)].key)]] \in Link
    <3>1. Nth(Known(c), i) \in Known(c) /\ Nth(Known(c), i) \in 1..N
      BY <1>3, <1>5
    <3>2. l[Nth(Known(c), i)].from \in 1..BatchCap
      BY <1>2, <3>1, RepositoryAssumption
    <3>3. rows[AssetRow(l[Nth(Known(c), i)].key)] \in Id
      BY <1>3, <3>1 DEF Inv, TypeOK, RepositoryTypeOK
    <3> QED BY <3>2, <3>3
  <2> HIDE DEF Link
  <2>2. new \in [1..n -> Link]
    BY <2>1
  <2> QED BY <1>5, <2>2, SeqMade DEF Link
<1> HIDE DEF n, new
<1>9. /\ pc'[c] = "asset" /\ links'[c] = new /\ \A d \in Clients \ {c} : Idle(d)
  BY <1>1, <1>6 DEF Inv, TypeOK, Idle
<1>10. TypeOK'
  BY <1>1, <1>6, <1>8 DEF Inv, TypeOK, RepositoryTypeOK, Steps, Stored
<1>11. ClientOK(c)'
  <2>1. ASSUME NEW i \in 1..Len(new)
        PROVE  \E m \in 1..N :
                 /\ new[i].from = l[m].from
                 /\ AssetRow(l[m].key) \in Stored /\ rows[AssetRow(l[m].key)] = new[i].to
    <3>1. Nth(Known(c), i) \in Known(c) /\ Nth(Known(c), i) \in 1..N
      BY <1>3, <1>5, <1>7
    <3> QED BY <1>3, <1>7, <3>1
  <2>2. LinksSettled(c)'
    BY <1>1, <1>5, <1>7, <1>9, <2>1 DEF LinksSettled, At, Stored
  <2> QED BY <1>9, <2>2, EarlyOK
<1>12. Made[pc[c]] \subseteq Made[pc'[c]]
  BY <1>1, <1>9 DEF Made
<1> QED BY <1>1, <1>9, <1>10, <1>11, <1>12, QuietKeeps

\* A row is written and locked.
LEMMA WriteRowKeeps ==
  ASSUME Inv, NEW c \in Clients, WriteRow(c)
  PROVE  Inv'
<1> DEFINE b == Batch(c)
<1>1. /\ Len(locked[c]) < Len(b)
      /\ locked' = [locked EXCEPT ![c] = Append(@, NextRow(c, b))]
      /\ rows' = rows /\ pc' = pc /\ scan' = scan /\ links' = links
      /\ assets' = assets /\ found' = found
  BY DEF WriteRow, Statement
<1>2. locked[c] \in Seq(Row) /\ Len(locked[c]) \in Nat
  BY DEF Inv, TypeOK, RepositoryTypeOK
<1>3. pc[c] \in Writing
  <2>1. pc[c] \notin Writing => b = <<>>
    BY DEF Batch, Writing
  <2> QED BY <1>1, <1>2, <2>1
<1>4. NextRow(c, b) \in Row
  <2>1. BatchOf(c, pc[c], b)
    BY <1>3, BatchIs DEF Inv, Writing
  <2> HIDE DEF b
  <2>2. Len(locked[c]) + 1 \in 1..Len(b)
    BY <1>1, <1>2, <2>1, BatchItem
  <2> QED BY <2>1, <2>2, BatchItem DEF NextRow
<1> HIDE DEF b
<1>5. locked' \in [Clients -> Seq(Row)]
  BY <1>1, <1>2, <1>4 DEF Inv, TypeOK, RepositoryTypeOK
<1>6. TypeOK'
  BY <1>1, <1>5 DEF Inv, TypeOK, RepositoryTypeOK, Stored
<1>7. \A d \in Clients : Idle(d)
  BY <1>1 DEF Idle
<1>8. ClientOK(c)'
  <2>1. Grows
    BY <1>1 DEF Grows, Stored
  <2> QED BY <1>7, <2>1, ClientKept DEF Inv
<1> QED BY <1>1, <1>6, <1>7, <1>8, QuietKeeps DEF Idle

\* An execution is cut.
LEMMA ThrowsKeeps ==
  ASSUME Inv, NEW c \in Clients, Throws(c)
  PROVE  Inv'
<1>1. /\ pc' = [pc EXCEPT ![c] = "thrown"] /\ locked' = [locked EXCEPT ![c] = <<>>]
      /\ rows' = rows /\ scan' = scan /\ links' = links /\ assets' = assets /\ found' = found
  BY DEF Throws, Goto, Rollback, Release
<1>2. pc'[c] = "thrown" /\ \A d \in Clients \ {c} : Idle(d)
  BY <1>1 DEF Inv, TypeOK, Idle
<1>3. TypeOK'
  <2>1. locked' \in [Clients -> Seq(Row)]
    BY <1>1 DEF Inv, TypeOK, RepositoryTypeOK
  <2>2. pc' \in [Clients -> Steps \cup {"returned", "thrown"}]
    BY <1>1 DEF Inv, TypeOK
  <2> QED BY <1>1, <2>1, <2>2 DEF Inv, TypeOK, RepositoryTypeOK, Stored
<1>4. ClientOK(c)'
  <2>1. Grows
    BY <1>1 DEF Grows, Stored
  <2>2. LinksSettled(c)'
    BY <1>1, <1>2, <2>1, LinksKept DEF Inv, ClientOK
  <2> QED BY <1>2, <2>2, EarlyOK
<1>5. Made[pc[c]] \subseteq Made[pc'[c]]
  <2>1. pc[c] \in Steps \cup {"returned", "thrown"}
    BY DEF Inv, TypeOK
  <2> QED BY <1>2, <2>1 DEF Made, Steps, Tables
<1> QED BY <1>1, <1>2, <1>3, <1>4, <1>5, QuietKeeps

\* The types after a commit: those of the execution's own variables decide.
LEMMA CommitTypes ==
  ASSUME Inv, ReferencedKept, NEW c \in Clients, Committing(c), NEW x \in Steps \cup {"returned", "thrown"},
         pc' = [pc EXCEPT ![c] = x], assets' \in [Clients -> Seq(Id)], found' \in [Clients -> Seq(Id)]
  PROVE  TypeOK'
<1>1. RepositoryTypeOK'
  BY CommitRows
<1>2. pc' \in [Clients -> Steps \cup {"returned", "thrown"}]
  BY DEF Inv, TypeOK
<1>3. scan' = scan /\ links' = links
  BY DEF Committing
<1> QED BY <1>1, <1>2, <1>3 DEF Inv, TypeOK

\* A commit leaves the links of the scan settled.
LEMMA CommitLinks ==
  ASSUME Inv, ReferencedKept, NEW c \in Clients, Committing(c)
  PROVE  LinksSettled(c)'
<1>1. Grows
  BY CommitRows
<1>2. pc'[c] # "scan" /\ scan'[c] = scan[c] /\ links'[c] = links[c]
  BY DEF Committing, Writing, After
<1> QED BY <1>1, <1>2, LinksKept DEF Inv, ClientOK

\* The transaction of the assets.
LEMMA CommitAssetsKeeps ==
  ASSUME Inv, ReferencedKept, NEW c \in Clients, CommitAssets(c)
  PROVE  Inv'
<1> DEFINE b == Batch(c)
           n == Len(scan[c].assets)
<1>1. /\ pc[c] = "asset" /\ pc' = [pc EXCEPT ![c] = "edge"] /\ Commit(c, b)
      /\ assets' = [assets EXCEPT ![c] = Returned(b)]
      /\ scan' = scan /\ links' = links /\ found' = found
  BY DEF CommitAssets, At, Goto
<1>2. /\ pc'[c] = "edge" /\ assets'[c] = Returned(b)
      /\ \A d \in Clients \ {c} : Idle(d)
  BY <1>1 DEF Inv, TypeOK, Idle
<1>3. Committing(c)
  BY <1>1, <1>2 DEF Committing, Writing, After
<1>4. /\ Returned(b) \in Seq(Id) /\ Len(Returned(b)) = Len(b)
      /\ \A i \in 1..Len(b) : b[i].row \in Stored' /\ Returned(b)[i] = rows'[b[i].row]
  BY <1>3, CommitReturns
<1>5. TypeOK'
  <2>1. assets' \in [Clients -> Seq(Id)] /\ found' \in [Clients -> Seq(Id)]
    BY <1>1, <1>4 DEF Inv, TypeOK
  <2> QED BY <1>1, <1>3, <2>1, CommitTypes DEF Steps
<1>6. /\ Len(b) = n
      /\ \A i \in 1..n : b[i].row = AssetRow(scan[c].assets[i])
  <2>1. b = AssetBatch(c)
    BY <1>1 DEF Batch
  <2> HIDE DEF b
  <2> QED BY <2>1, AssetBatchIs DEF Inv
<1> HIDE DEF b
<1>7. AssetsPlaced(c)'
  BY <1>1, <1>2, <1>4, <1>6 DEF AssetsPlaced
<1>8. ClientOK(c)'
  BY <1>2, <1>3, <1>7, CommitLinks
     DEF ClientOK, EdgesPlaced, FindingsPlaced, ScoresPlaced, At
<1> QED BY <1>1, <1>3, <1>5, <1>8, CommitKeeps

\* What holds of c after a commit that leaves its ids alone.
LEMMA CommitPlaced ==
  ASSUME Inv, ReferencedKept, NEW c \in Clients, Committing(c), assets'[c] = assets[c]
  PROVE  /\ pc[c] # "asset" => AssetsPlaced(c)'
         /\ pc[c] \in {"finding", "score"} => EdgesPlaced(c)'
<1>1. Grows /\ scan'[c] = scan[c]
  BY CommitRows DEF Committing
<1>2. pc[c] # "asset" => pc[c] \in {"edge", "finding", "score"}
  BY DEF Committing, Writing
<1>3. pc[c] # "asset" => AssetsPlaced(c)'
  BY <1>1, <1>2, RowTables DEF Inv, ClientOK, AssetsPlaced, Grows, Referenced
<1>4. pc[c] \in {"finding", "score"} => EdgesPlaced(c)'
  BY <1>1 DEF Inv, ClientOK, EdgesPlaced, Grows
<1> QED BY <1>3, <1>4

\* The transaction of the relationships.
LEMMA CommitEdgesKeeps ==
  ASSUME Inv, ReferencedKept, NEW c \in Clients, CommitEdges(c)
  PROVE  Inv'
<1> DEFINE b == Batch(c)
           n == Len(scan[c].edges)
           m == Len(links[c])
<1>1. /\ pc[c] = "edge" /\ pc' = [pc EXCEPT ![c] = "finding"] /\ Commit(c, b)
      /\ scan' = scan /\ links' = links /\ assets' = assets /\ found' = found
  BY DEF CommitEdges, At, Goto
<1>2. pc'[c] = "finding" /\ \A d \in Clients \ {c} : Idle(d)
  BY <1>1 DEF Inv, TypeOK, Idle
<1>3. Committing(c)
  BY <1>1, <1>2 DEF Committing, Writing, After
<1>4. TypeOK'
  BY <1>1, <1>3, CommitTypes DEF Steps, Inv, TypeOK
<1>5. \A i \in 1..Len(b) : b[i].row \in Stored'
  BY <1>3, CommitReturns
<1>6. /\ n \in Nat /\ m \in Nat /\ Len(b) = n + m
      /\ \A i \in 1..n : b[i].row =
            EdgeRow(assets[c][scan[c].edges[i].from], assets[c][scan[c].edges[i].to])
  <2>1. b = EdgeBatch(c)
    BY <1>1 DEF Batch
  <2> HIDE DEF b
  <2> QED BY <1>1, <2>1, EdgeBatchIs DEF Inv, ClientOK, At
<1>7. EdgesPlaced(c)'
  <2>1. \A i \in 1..n : i \in 1..Len(b)
    <3> HIDE DEF b, n, m
    <3> QED BY <1>6, JoinedPlaces
  <2> HIDE DEF b
  <2> QED BY <1>1, <1>5, <1>6, <2>1 DEF EdgesPlaced
<1>8. ClientOK(c)'
  BY <1>1, <1>2, <1>3, <1>7, CommitLinks, CommitPlaced
     DEF ClientOK, FindingsPlaced, ScoresPlaced, At
<1> QED BY <1>1, <1>3, <1>4, <1>8, CommitKeeps

\* The transaction of the findings.
LEMMA CommitFindingsKeeps ==
  ASSUME Inv, ReferencedKept, NEW c \in Clients, CommitFindings(c)
  PROVE  Inv'
<1> DEFINE b == Batch(c)
           n == Len(scan[c].findings)
<1>1. /\ pc[c] = "finding" /\ pc' = [pc EXCEPT ![c] = "score"] /\ Commit(c, b)
      /\ found' = [found EXCEPT ![c] = Returned(b)]
      /\ scan' = scan /\ links' = links /\ assets' = assets
  BY DEF CommitFindings, At, Goto
<1>2. /\ pc'[c] = "score" /\ found'[c] = Returned(b)
      /\ \A d \in Clients \ {c} : Idle(d)
  BY <1>1 DEF Inv, TypeOK, Idle
<1>3. Committing(c)
  BY <1>1, <1>2 DEF Committing, Writing, After
<1>4. /\ Returned(b) \in Seq(Id) /\ Len(Returned(b)) = Len(b)
      /\ \A i \in 1..Len(b) : b[i].row \in Stored' /\ Returned(b)[i] = rows'[b[i].row]
  BY <1>3, CommitReturns
<1>5. TypeOK'
  <2>1. assets' \in [Clients -> Seq(Id)] /\ found' \in [Clients -> Seq(Id)]
    BY <1>1, <1>4 DEF Inv, TypeOK
  <2> QED BY <1>1, <1>3, <2>1, CommitTypes DEF Steps
<1>6. /\ Len(b) = n
      /\ \A i \in 1..n : b[i].row = FindingAt(c, i)
  <2>1. b = FindingBatch(c)
    BY <1>1 DEF Batch
  <2> HIDE DEF b
  <2> QED BY <1>1, <2>1, FindingBatchIs DEF Inv, ClientOK, At
<1> HIDE DEF b
<1>7. FindingsPlaced(c)'
  <2>1. \A i : FindingAt(c, i)' = FindingAt(c, i)
    BY <1>1 DEF FindingAt
  <2> QED BY <1>1, <1>2, <1>4, <1>6, <2>1 DEF FindingsPlaced
<1>8. ClientOK(c)'
  BY <1>1, <1>2, <1>3, <1>7, CommitLinks, CommitPlaced DEF ClientOK, ScoresPlaced, At
<1> QED BY <1>1, <1>3, <1>5, <1>8, CommitKeeps

\* The transaction of the scores.
LEMMA CommitScoresKeeps ==
  ASSUME Inv, ReferencedKept, NEW c \in Clients, CommitScores(c)
  PROVE  Inv'
<1> DEFINE b == Batch(c)
           n == Len(found[c])
<1>1. /\ pc[c] = "score" /\ pc' = [pc EXCEPT ![c] = "returned"] /\ Commit(c, b)
      /\ scan' = scan /\ links' = links /\ assets' = assets /\ found' = found
  BY DEF CommitScores, At, Goto
<1>2. pc'[c] = "returned" /\ \A d \in Clients \ {c} : Idle(d)
  BY <1>1 DEF Inv, TypeOK, Idle
<1>3. Committing(c)
  BY <1>1, <1>2 DEF Committing, Writing, After
<1>4. TypeOK'
  BY <1>1, <1>3, CommitTypes DEF Steps, Inv, TypeOK
<1>5. \A i \in 1..Len(b) : b[i].row \in Stored'
  BY <1>3, CommitReturns
<1>6. /\ Len(b) = n
      /\ \A i \in 1..n : b[i].row = ScoreRow(found[c][i])
  <2>1. b = ScoreBatch(c)
    BY <1>1 DEF Batch
  <2> HIDE DEF b
  <2> QED BY <1>1, <2>1, ScoreBatchIs DEF Inv, ClientOK, At
<1> HIDE DEF b
<1>7. ScoresPlaced(c)'
  BY <1>1, <1>5, <1>6 DEF ScoresPlaced
<1>8. FindingsPlaced(c)'
  <2>1. \A i : FindingAt(c, i)' = FindingAt(c, i) /\ FindingAt(c, i).table = "finding"
    BY <1>1, RowTables DEF FindingAt
  <2>2. Grows
    BY <1>3, CommitRows
  <2> QED BY <1>1, <2>1, <2>2 DEF Inv, ClientOK, FindingsPlaced, Grows, Referenced
<1>9. ClientOK(c)'
  BY <1>1, <1>2, <1>3, <1>7, <1>8, CommitLinks, CommitPlaced DEF ClientOK
<1> QED BY <1>1, <1>3, <1>4, <1>9, CommitKeeps

\* A commit whose answer is lost.
LEMMA CommitThrowsKeeps ==
  ASSUME Inv, ReferencedKept, NEW c \in Clients, CommitThrows(c)
  PROVE  Inv'
<1>1. /\ pc[c] \in Writing /\ pc' = [pc EXCEPT ![c] = "thrown"] /\ Commit(c, Batch(c))
      /\ scan' = scan /\ links' = links /\ assets' = assets /\ found' = found
  BY DEF CommitThrows, Goto, Writing
<1>2. pc'[c] = "thrown" /\ \A d \in Clients \ {c} : Idle(d)
  BY <1>1 DEF Inv, TypeOK, Idle
<1>3. Committing(c)
  BY <1>1, <1>2 DEF Committing
<1>4. TypeOK'
  BY <1>1, <1>3, CommitTypes DEF Inv, TypeOK
<1>5. ClientOK(c)'
  BY <1>2, <1>3, CommitLinks, EarlyOK
<1> QED BY <1>1, <1>3, <1>4, <1>5, CommitKeeps

\* Every step keeps the invariant.
LEMMA InvStep ==
  ASSUME ReferencedKept, Inv, [Next]_vars
  PROVE  Inv'
<1>1. CASE UNCHANGED vars
  <2>1. /\ rows' = rows /\ locked' = locked /\ pc' = pc /\ scan' = scan
        /\ links' = links /\ assets' = assets /\ found' = found
    BY <1>1 DEF vars, repository
  <2>2. TypeOK'
    BY <2>1 DEF Inv, TypeOK, RepositoryTypeOK, Stored
  <2>3. \A d \in Clients : Idle(d)
    BY <2>1 DEF Idle
  <2>4. Grows /\ Stored' = Stored
    BY <2>1 DEF Grows, Stored
  <2>5. \A d \in Clients : ClientOK(d)'
    BY <2>3, <2>4, ClientKept DEF Inv
  <2> QED BY <2>1, <2>2, <2>4, <2>5 DEF Inv, NoDangling, UnscoredExplained, InTable, Ids,
            FindingRows, IdsMade, OneToOne
<1>2. ASSUME NEW c \in Clients, Progress(c)
      PROVE  Inv'
  BY <1>2, ScannedKeeps, ListedKeeps, WriteRowKeeps, CommitAssetsKeeps, CommitEdgesKeeps,
     CommitFindingsKeeps, CommitScoresKeeps DEF Progress, Commits
<1>3. ASSUME NEW c \in Clients, Throws(c) \/ CommitThrows(c) \/ DeadlockDetected(c)
      PROVE  Inv'
  BY <1>3, ThrowsKeeps, CommitThrowsKeeps DEF DeadlockDetected
<1> QED BY <1>1, <1>2, <1>3 DEF Next

-----------------------------------------------------------------------------
(* What holds of every behaviour.                                          *)

\* The invariant, in the memory as in the database.
THEOREM InvHolds ==
  ASSUME ReferencedKept
  PROVE  Spec => []Inv
<1>1. Init => Inv
  BY InvInit
<1>2. Inv /\ [Next]_vars => Inv'
  BY InvStep
<1> QED BY <1>1, <1>2, PTL DEF Spec

\* Rows, transactions and what an execution carries keep their types.
THEOREM TypeCorrect ==
  ASSUME ReferencedKept
  PROVE  Spec => []TypeOK
<1>1. Inv => TypeOK
  BY DEF Inv
<1> QED BY <1>1, InvHolds, PTL

\* No row refers to an id that is not stored, though no foreign key says so:
\* an upsert that returned other ids than it stored would break this.
THEOREM NothingDangles ==
  ASSUME ReferencedKept
  PROVE  Spec => []NoDangling
<1>1. Inv => NoDangling
  BY DEF Inv
<1> QED BY <1>1, InvHolds, PTL

\* A finding lacks a score only while an execution has still to score it, or
\* because one was cut between the two transactions.
THEOREM UnscoredAreExplained ==
  ASSUME ReferencedKept
  PROVE  Spec => []UnscoredExplained
<1>1. Inv => UnscoredExplained
  BY DEF Inv
<1> QED BY <1>1, InvHolds, PTL

\* What runScanJob returned from is stored as a whole, under the ids it used.
THEOREM ReturnedAreStored ==
  ASSUME ReferencedKept
  PROVE  Spec => []ReturnedIsStored
<1>1. Inv => ReturnedIsStored
  <2> SUFFICES ASSUME Inv, NEW c \in Clients, pc[c] = "returned"
               PROVE  /\ \A i \in 1..Len(scan[c].assets) :
                           /\ AssetRow(scan[c].assets[i]) \in Stored
                           /\ rows[AssetRow(scan[c].assets[i])] = assets[c][i]
                      /\ \A i \in 1..Len(scan[c].edges) :
                           EdgeRow(assets[c][scan[c].edges[i].from],
                                   assets[c][scan[c].edges[i].to]) \in Stored
                      /\ \A k \in FindingRows(c) : k \in Stored /\ ScoreRow(rows[k]) \in Stored
    BY DEF ReturnedIsStored, At
  <2>1. /\ TypeOK /\ AssetsPlaced(c) /\ EdgesPlaced(c)
        /\ FindingsPlaced(c) /\ ScoresPlaced(c)
    BY DEF Inv, ClientOK
  <2>2. ASSUME NEW k \in FindingRows(c)
        PROVE  k \in Stored /\ ScoreRow(rows[k]) \in Stored
    <3>1. PICK i \in 1..Len(scan[c].findings) : k = FindingAt(c, i)
      BY <2>1, FindingRowsAre
    <3> QED BY <2>1, <3>1 DEF FindingsPlaced, ScoresPlaced, At
  <2>3. \A i \in 1..Len(scan[c].assets) :
          AssetRow(scan[c].assets[i]) \in Stored /\ rows[AssetRow(scan[c].assets[i])] = assets[c][i]
    BY <2>1 DEF AssetsPlaced
  <2>4. \A i \in 1..Len(scan[c].edges) :
          EdgeRow(assets[c][scan[c].edges[i].from], assets[c][scan[c].edges[i].to]) \in Stored
    BY <2>1 DEF EdgesPlaced
  <2> QED BY <2>2, <2>3, <2>4
<1> QED BY <1>1, InvHolds, PTL

\* A commit, answered or not, is of one transaction.
LEMMA CommitIs ==
  ASSUME Inv, NEW c \in Clients, Commits(c) \/ CommitThrows(c)
  PROVE  Committing(c) /\ \A d \in Clients \ {c} : locked'[d] = locked[d]
<1>1. /\ pc \in [Clients -> Steps \cup {"returned", "thrown"}]
      /\ scan \in [Clients -> Scans \cup {NoScan}]
      /\ DOMAIN locked = Clients /\ DOMAIN links = Clients
      /\ DOMAIN assets = Clients /\ DOMAIN found = Clients
  BY DEF Inv, TypeOK, RepositoryTypeOK
<1>2. /\ pc[c] \in Writing /\ Commit(c, Batch(c))
      /\ scan' = scan /\ links' = links
      /\ pc' = [pc EXCEPT ![c] = After[pc[c]]] \/ pc' = [pc EXCEPT ![c] = "thrown"]
      /\ assets' = assets \/ assets' = [assets EXCEPT ![c] = Returned(Batch(c))]
      /\ found' = found \/ found' = [found EXCEPT ![c] = Returned(Batch(c))]
  BY DEF Commits, CommitAssets, CommitEdges, CommitFindings, CommitScores, CommitThrows,
         Goto, At, Writing, After
<1>3. pc'[c] \in {After[pc[c]], "thrown"}
  BY <1>1, <1>2
<1>4. \A d \in Clients \ {c} : Idle(d) /\ locked'[d] = locked[d]
  BY <1>1, <1>2 DEF Idle, Commit, Release
<1> QED BY <1>2, <1>3, <1>4 DEF Committing

\* Every step is one of an execution, which leaves the others alone.
LEMMA StepCases ==
  ASSUME Inv, Next
  PROVE  \E c \in Clients :
           Scanned(c) \/ Listed(c) \/ WriteRow(c) \/ Throws(c) \/ Committing(c)
BY CommitIs DEF Next, Progress, DeadlockDetected

\* Only a commit changes the rows, and only of one execution at a time.
LEMMA StepIs ==
  ASSUME Inv, Next
  PROVE  \E c \in Clients :
           /\ rows' = rows \/ Committing(c)
           /\ \A d \in Clients \ {c} : pc'[d] = pc[d] /\ locked'[d] = locked[d]
<1>1. PICK c \in Clients : Progress(c) \/ Throws(c) \/ CommitThrows(c)
  BY DEF Next, DeadlockDetected
<1>2. DOMAIN pc = Clients /\ DOMAIN locked = Clients
  BY DEF Inv, TypeOK, RepositoryTypeOK
<1>3. CASE Scanned(c) \/ Listed(c)
  BY <1>2, <1>3 DEF Scanned, Listed, Goto, repository
<1>4. CASE WriteRow(c)
  BY <1>2, <1>4 DEF WriteRow, Statement
<1>5. CASE Throws(c)
  BY <1>2, <1>5 DEF Throws, Rollback, Release, Goto
<1>6. CASE Commits(c) \/ CommitThrows(c)
  BY <1>6, CommitIs DEF Committing, Idle
<1> QED BY <1>1, <1>3, <1>4, <1>5, <1>6 DEF Progress

\* An id once given stays, where every table keeps its ids.
THEOREM IdsAreKept ==
  ASSUME Tables \subseteq KeepsId
  PROVE  Spec => IdsKept
<1>1. ReferencedKept
  BY DEF ReferencedKept, Referenced, Tables
<1>2. Inv /\ [Next]_vars => \A k \in Stored : k \in Stored' /\ rows'[k] = rows[k]
  <2> SUFFICES ASSUME Inv, [Next]_vars
               PROVE  \A k \in Stored : k \in Stored' /\ rows'[k] = rows[k]
    OBVIOUS
  <2>1. CASE rows' = rows
    BY <2>1 DEF Stored
  <2>2. ASSUME NEW c \in Clients, Committing(c)
        PROVE  \A k \in Stored : k \in Stored' /\ rows'[k] = rows[k]
    <3>1. \A k \in Stored : k.table \in KeepsId
      BY RowShape DEF Inv, TypeOK, RepositoryTypeOK
    <3> QED BY <1>1, <2>2, <3>1, CommitRows
  <2>3. UNCHANGED vars => rows' = rows
    BY DEF vars, repository
  <2> QED BY <2>1, <2>2, <2>3, StepIs
<1> QED BY <1>1, <1>2, InvHolds, PTL DEF Spec, IdsKept

\* Another execution of a scan that was returned from writes rows that are
\* there, under the ids they have.
LEMMA RepeatedRows ==
  ASSUME Inv, NEW c \in Clients, NEW d \in Clients, pc[c] = "returned", scan[d] = scan[c],
         scan[c].links = <<>>, pc[d] \in Writing, NEW i \in 1..Len(Batch(d))
  PROVE  Batch(d)[i].row \in Stored
<1>1. TypeOK /\ ClientOK(c) /\ ClientOK(d)
  BY DEF Inv
<1>2. /\ Len(scan[c].assets) \in Nat
      /\ \A j \in 1..Len(scan[c].edges) :
           scan[c].edges[j].from \in 1..Len(scan[c].assets) /\ scan[c].edges[j].to \in 1..Len(scan[c].assets)
      /\ \A j \in 1..Len(scan[c].findings) : scan[c].findings[j].on \in 1..Len(scan[c].assets)
  BY <1>1, ScanShape DEF TypeOK
\* Once its assets are stored it goes on with the same ids.
<1>3. pc[d] \in {"edge", "finding", "score"} =>
        \A j \in 1..Len(scan[c].assets) : assets[d][j] = assets[c][j]
  BY <1>1 DEF ClientOK, AssetsPlaced
<1>4. pc[d] \in {"finding", "score"} =>
        \A j \in 1..Len(scan[c].findings) : FindingAt(d, j) = FindingAt(c, j)
  BY <1>2, <1>3 DEF FindingAt
<1>5. CASE pc[d] = "asset"
  <2>1. Batch(d) = AssetBatch(d)
    BY <1>5 DEF Batch
  <2>2. i \in 1..Len(scan[c].assets) /\ Batch(d)[i].row = AssetRow(scan[c].assets[i])
    BY <1>1, <2>1, AssetBatchIs
  <2> QED BY <1>1, <2>2 DEF ClientOK, AssetsPlaced
<1>6. CASE pc[d] = "edge"
  <2> DEFINE n == Len(scan[c].edges)
             m == Len(links[d])
  <2>1. Batch(d) = EdgeBatch(d)
    BY <1>6 DEF Batch
  <2>2. /\ n \in Nat /\ m \in Nat /\ Len(Batch(d)) = n + m
        /\ \A j \in 1..n : Batch(d)[j].row =
              EdgeRow(assets[d][scan[c].edges[j].from], assets[d][scan[c].edges[j].to])
    BY <1>1, <1>6, <2>1, EdgeBatchIs DEF At, ClientOK
  <2>3. m = 0
    <3>1. m <= 0
      BY <1>1 DEF ClientOK, LinksSettled
    <3> HIDE DEF m
    <3> QED BY <2>2, <3>1
  <2>4. i \in 1..n
    <3> HIDE DEF m, n
    <3> QED BY <2>2, <2>3
  <2>5. Batch(d)[i].row = EdgeRow(assets[c][scan[c].edges[i].from], assets[c][scan[c].edges[i].to])
    BY <1>2, <1>3, <1>6, <2>2, <2>4
  <2> QED BY <1>1, <2>4, <2>5 DEF ClientOK, EdgesPlaced
<1>7. CASE pc[d] = "finding"
  <2>1. Batch(d) = FindingBatch(d)
    BY <1>7 DEF Batch
  <2>2. i \in 1..Len(scan[c].findings) /\ Batch(d)[i].row = FindingAt(d, i)
    BY <1>1, <1>7, <2>1, FindingBatchIs DEF At, ClientOK
  <2>3. Batch(d)[i].row = FindingAt(c, i)
    BY <1>4, <1>7, <2>2
  <2> QED BY <1>1, <2>2, <2>3 DEF ClientOK, FindingsPlaced
<1>8. CASE pc[d] = "score"
  <2>1. Batch(d) = ScoreBatch(d)
    BY <1>8 DEF Batch
  <2>2. i \in 1..Len(found[d]) /\ Batch(d)[i].row = ScoreRow(found[d][i])
    BY <1>1, <1>8, <2>1, ScoreBatchIs DEF At, ClientOK
  <2>3. Len(found[d]) = Len(found[c]) /\ found[d][i] = found[c][i]
    BY <1>1, <1>4, <1>8, <2>2 DEF ClientOK, FindingsPlaced
  <2> QED BY <1>1, <2>2, <2>3 DEF ClientOK, ScoresPlaced, At
<1> QED BY <1>5, <1>6, <1>7, <1>8 DEF Writing

\* Executing a scan again after it returned changes no row and adds none.
THEOREM RepeatsAddNothing ==
  ASSUME Tables \subseteq KeepsId
  PROVE  Spec => RepeatAddsNothing
<1>1. ReferencedKept
  BY DEF ReferencedKept, Referenced, Tables
<1> DEFINE A == \A c, d \in Clients :
                  /\ c # d /\ At(c, "returned") /\ scan[d] = scan[c] /\ scan[c].links = <<>>
                  /\ (pc[d] # pc'[d] \/ locked[d] # locked'[d])
                  => rows' = rows
<1>2. Inv /\ [Next]_vars => A
  <2> SUFFICES ASSUME Inv, [Next]_vars, NEW c \in Clients, NEW d \in Clients,
                      pc[c] = "returned", scan[d] = scan[c], scan[c].links = <<>>,
                      pc[d] # pc'[d] \/ locked[d] # locked'[d]
               PROVE  rows' = rows
    BY DEF At
  <2>1. CASE UNCHANGED vars
    BY <2>1 DEF vars, repository
  <2>2. CASE Next
    <3>1. PICK e \in Clients :
            /\ rows' = rows \/ Committing(e)
            /\ \A x \in Clients \ {e} : pc'[x] = pc[x] /\ locked'[x] = locked[x]
      BY <2>2, StepIs
    <3>2. e = d
      BY <3>1
    <3>3. ASSUME Committing(d)
          PROVE  rows' = rows
      <4>1. \A i \in 1..Len(Batch(d)) : Batch(d)[i].row \in Stored
        BY <3>3, RepeatedRows DEF Committing
      <4>2. /\ Stored' = Stored \cup {Batch(d)[i].row : i \in 1..Len(Batch(d))}
            /\ \A k \in Stored : k.table \in KeepsId => rows'[k] = rows[k]
            /\ RepositoryTypeOK'
        BY <1>1, <3>3, CommitRows
      <4>3. Stored' = Stored
        BY <4>1, <4>2
      <4>4. \A k \in Stored : k.table \in KeepsId
        BY RowShape DEF Inv, TypeOK, RepositoryTypeOK
      <4>5. /\ rows \in [Stored -> Id] /\ rows' \in [Stored -> Id]
            /\ \A k \in Stored : rows'[k] = rows[k]
        BY <4>2, <4>3, <4>4 DEF Inv, TypeOK, RepositoryTypeOK
      <4> QED BY <4>5
    <3> QED BY <3>1, <3>2, <3>3
  <2> QED BY <2>1, <2>2
<1> QED BY <1>1, <1>2, InvHolds, PTL DEF Spec, RepeatAddsNothing

-----------------------------------------------------------------------------
(* The rows implement the Inventory: what they say in natural keys.  Each  *)
(* operator of the mapping is stated again of any table of rows, so that   *)
(* it can be asked of the rows before and after a step.                    *)

AssetIn(r, id) == CHOOSE key \in AssetKeys : AssetRow(key) \in DOMAIN r /\ r[AssetRow(key)] = id

FindingsIn(r) == {k \in DOMAIN r : k.table = "finding"}

FindingIn(r, id) == CHOOSE k \in FindingsIn(r) : r[k] = id

FactIn(r, k) ==
  CASE k.table = "asset" -> <<"asset", k.key>>
    [] k.table = "edge" -> <<"edge", AssetIn(r, k.from), AssetIn(r, k.to)>>
    [] k.table = "finding" -> <<"finding", AssetIn(r, k.asset), k.source>>
    [] k.table = "score" -> <<"score", AssetIn(r, FindingIn(r, k.finding).asset),
                              FindingIn(r, k.finding).source>>

FactsIn(r) == {FactIn(r, k) : k \in DOMAIN r}

\* The facts shown to the Inventory are those of the rows.
LEMMA FactsSame == {Fact(k) : k \in Stored} = FactsIn(rows)
<1>1. \A id : AssetOf(id) = AssetIn(rows, id)
  BY DEF AssetOf, AssetIn, Stored
<1>2. \A id : FindingOf(id) = FindingIn(rows, id)
  BY DEF FindingOf, FindingIn, FindingsIn, InTable, Stored
<1>3. \A k : Fact(k) = FactIn(rows, k)
  BY <1>1, <1>2 DEF Fact, FactIn
<1> QED BY <1>3 DEF FactsIn, Stored

\* What a row of each table tells: an asset its key.
LEMMA AssetFact ==
  ASSUME NEW r, NEW x
  PROVE  FactIn(r, AssetRow(x)) = <<"asset", x>>
BY DEF FactIn, AssetRow

\* An edge the two assets it joins.
LEMMA EdgeFact ==
  ASSUME NEW r, NEW x, NEW y
  PROVE  FactIn(r, EdgeRow(x, y)) = <<"edge", AssetIn(r, x), AssetIn(r, y)>>
BY DEF FactIn, EdgeRow

\* A finding its asset and where it comes from.
LEMMA FindingFact ==
  ASSUME NEW r, NEW x, NEW y
  PROVE  FactIn(r, FindingRow(x, y)) = <<"finding", AssetIn(r, x), y>>
BY DEF FactIn, FindingRow

\* A score the finding that it is of.
LEMMA ScoreFact ==
  ASSUME NEW r, NEW x
  PROVE  FactIn(r, ScoreRow(x)) =
           <<"score", AssetIn(r, FindingIn(r, x).asset), FindingIn(r, x).source>>
BY DEF FactIn, ScoreRow

\* Where no id is given twice, an id tells its asset and its finding.
LEMMA AssetInIs ==
  ASSUME NEW r, OneToOne(r), NEW key \in AssetKeys, AssetRow(key) \in DOMAIN r
  PROVE  AssetIn(r, r[AssetRow(key)]) = key
<1> DEFINE id == r[AssetRow(key)]
           chosen == CHOOSE x \in AssetKeys : AssetRow(x) \in DOMAIN r /\ r[AssetRow(x)] = id
<1>1. chosen \in AssetKeys /\ AssetRow(chosen) \in DOMAIN r /\ r[AssetRow(chosen)] = id
  BY Zenon
<1> HIDE DEF chosen
<1>2. AssetRow(chosen) = AssetRow(key)
  BY <1>1 DEF OneToOne
<1>3. AssetRow(chosen).key = chosen /\ AssetRow(key).key = key
  BY DEF AssetRow
<1> QED BY <1>2, <1>3 DEF AssetIn, chosen

\* The same of a finding.
LEMMA FindingInIs ==
  ASSUME NEW r, OneToOne(r), NEW k \in FindingsIn(r)
  PROVE  FindingIn(r, r[k]) = k
<1>1. FindingIn(r, r[k]) \in FindingsIn(r) /\ r[FindingIn(r, r[k])] = r[k]
  BY Zenon DEF FindingIn
<1> QED BY <1>1 DEF OneToOne, FindingsIn

\* Later rows tell the same of them.
LEMMA AssetInKept ==
  ASSUME Inv, Inv', Grows, NEW x \in Ids("asset")
  PROVE  AssetIn(rows', x) = AssetIn(rows, x)
<1>1. PICK m \in Stored : m.table = "asset" /\ rows[m] = x
  BY DEF Ids, InTable
<1>2. PICK key \in AssetKeys : m = AssetRow(key)
  BY <1>1, RowShape DEF Inv, TypeOK, RepositoryTypeOK
<1>3. m \in Stored' /\ rows'[m] = x
  BY <1>1 DEF Grows, Referenced
<1>4. AssetIn(rows, x) = key
  BY <1>1, <1>2, AssetInIs DEF Inv, Stored
<1>5. OneToOne(rows')
  BY DEF Inv
<1>6. AssetIn(rows', x) = key
  BY <1>2, <1>3, <1>5, AssetInIs DEF Stored
<1> QED BY <1>4, <1>6

\* The same of a finding.
LEMMA FindingInKept ==
  ASSUME Inv, Inv', Grows, NEW x \in Ids("finding")
  PROVE  /\ FindingIn(rows', x) = FindingIn(rows, x)
         /\ FindingIn(rows, x).asset \in Ids("asset")
<1>1. PICK m \in Stored : m.table = "finding" /\ rows[m] = x
  BY DEF Ids, InTable
<1>2. m \in FindingsIn(rows) /\ m \in FindingsIn(rows') /\ rows'[m] = x
  BY <1>1 DEF Grows, Referenced, FindingsIn, Stored
<1>3. FindingIn(rows, x) = m
  BY <1>1, <1>2, FindingInIs DEF Inv
<1>4. OneToOne(rows')
  BY DEF Inv
<1>5. FindingIn(rows', x) = m
  BY <1>2, <1>4, FindingInIs
<1>6. m.asset \in Ids("asset")
  BY <1>1 DEF Inv, NoDangling, InTable
<1> QED BY <1>3, <1>5, <1>6

\* A row tells later what it told.
LEMMA FactKept ==
  ASSUME Inv, Inv', Grows, NEW k \in Stored
  PROVE  FactIn(rows', k) = FactIn(rows, k)
<1>1. /\ k.table \in Tables
      /\ k.table = "asset" => \E key \in AssetKeys : k = AssetRow(key)
      /\ k.table = "edge" => k = EdgeRow(k.from, k.to)
      /\ k.table = "finding" => k = FindingRow(k.asset, k.source)
      /\ k.table = "score" => k = ScoreRow(k.finding)
  BY RowShape DEF Inv, TypeOK, RepositoryTypeOK
<1>2. /\ k.table = "edge" => k.from \in Ids("asset") /\ k.to \in Ids("asset")
      /\ k.table = "finding" => k.asset \in Ids("asset")
      /\ k.table = "score" => k.finding \in Ids("finding")
  BY DEF Inv, NoDangling, InTable
<1>3. CASE k.table = "asset"
  BY <1>1, <1>3, AssetFact
<1>4. CASE k.table = "edge"
  <2>1. AssetIn(rows', k.from) = AssetIn(rows, k.from) /\ AssetIn(rows', k.to) = AssetIn(rows, k.to)
    BY <1>2, <1>4, AssetInKept
  <2> QED BY <1>1, <1>4, <2>1, EdgeFact
<1>5. CASE k.table = "finding"
  <2>1. AssetIn(rows', k.asset) = AssetIn(rows, k.asset)
    BY <1>2, <1>5, AssetInKept
  <2> QED BY <1>1, <1>5, <2>1, FindingFact
<1>6. CASE k.table = "score"
  <2>1. FindingIn(rows', k.finding) = FindingIn(rows, k.finding)
        /\ FindingIn(rows, k.finding).asset \in Ids("asset")
    BY <1>2, <1>6, FindingInKept
  <2>2. AssetIn(rows', FindingIn(rows, k.finding).asset) = AssetIn(rows, FindingIn(rows, k.finding).asset)
    BY <2>1, AssetInKept
  <2> QED BY <1>1, <1>6, <2>1, <2>2, ScoreFact
<1> QED BY <1>1, <1>3, <1>4, <1>5, <1>6 DEF Tables

-----------------------------------------------------------------------------

\* The facts of the rows a commit writes are the part of the scan its stage
\* adds, with links to assets that were known.
LEMMA CommitFacts ==
  ASSUME Inv, Inv', ReferencedKept, NEW c \in Clients, Committing(c)
  PROVE  \E known \in SUBSET Inventory!Links(scan[c], pc[c]) :
           FactsIn(rows') = FactsIn(rows) \cup Inventory!Part(scan[c], pc[c]) \cup known
<1> DEFINE b == Batch(c)
           s == scan[c]
           Added == {FactIn(rows', b[i].row) : i \in 1..Len(b)}
<1>1. /\ Grows /\ Stored' = Stored \cup {b[i].row : i \in 1..Len(b)}
      /\ TypeOK /\ ClientOK(c) /\ OneToOne(rows) /\ pc[c] \in Writing
  BY CommitRows DEF Inv, Committing
<1>2. FactsIn(rows') = FactsIn(rows) \cup Added
  <2>1. FactsIn(rows') = {FactIn(rows', k) : k \in Stored} \cup Added
    BY <1>1 DEF FactsIn, Stored
  <2>2. \A k \in Stored : FactIn(rows', k) = FactIn(rows, k)
    BY <1>1, FactKept
  <2> QED BY <2>1, <2>2 DEF FactsIn, Stored
<1>3. /\ Len(s.assets) \in Nat /\ \A i \in 1..Len(s.assets) : s.assets[i] \in AssetKeys
      /\ \A i \in 1..Len(s.edges) : s.edges[i].from \in 1..Len(s.assets) /\ s.edges[i].to \in 1..Len(s.assets)
      /\ \A i \in 1..Len(s.links) : s.links[i].from \in 1..Len(s.assets) /\ s.links[i].key \in AssetKeys
      /\ \A i \in 1..Len(s.findings) : s.findings[i].on \in 1..Len(s.assets)
  BY <1>1, ScanShape DEF TypeOK
\* The ids it writes with tell the keys its scan has.
<1>4. ASSUME pc[c] # "asset", NEW i \in 1..Len(s.assets)
      PROVE  AssetIn(rows', assets[c][i]) = s.assets[i]
  <2>1. AssetRow(s.assets[i]) \in Stored /\ rows[AssetRow(s.assets[i])] = assets[c][i]
    BY <1>1, <1>4 DEF ClientOK, AssetsPlaced, Writing
  <2>2. AssetIn(rows, assets[c][i]) = s.assets[i]
    BY <1>1, <1>3, <2>1, AssetInIs DEF Stored
  <2>3. assets[c][i] \in Ids("asset")
    BY <2>1, RowTables DEF Ids, InTable
  <2> QED BY <1>1, <2>2, <2>3, AssetInKept
<1>5. ASSUME NEW i \in 1..Len(links[c])
      PROVE  \E n \in 1..Len(s.links) :
               /\ links[c][i].from = s.links[n].from
               /\ AssetIn(rows', links[c][i].to) = s.links[n].key
               /\ <<"asset", s.links[n].key>> \in FactsIn(rows)
  <2>1. PICK n \in 1..Len(s.links) :
          /\ links[c][i].from = s.links[n].from
          /\ AssetRow(s.links[n].key) \in Stored
          /\ rows[AssetRow(s.links[n].key)] = links[c][i].to
    BY <1>1 DEF ClientOK, LinksSettled
  <2>2. AssetIn(rows, links[c][i].to) = s.links[n].key
    BY <1>1, <1>3, <2>1, AssetInIs DEF Stored
  <2>3. links[c][i].to \in Ids("asset")
    BY <2>1, RowTables DEF Ids, InTable
  <2>4. AssetIn(rows', links[c][i].to) = s.links[n].key
    BY <1>1, <2>2, <2>3, AssetInKept
  <2>5. <<"asset", s.links[n].key>> \in FactsIn(rows)
    BY <2>1, AssetFact DEF FactsIn, Stored
  <2> QED BY <2>1, <2>4, <2>5
<1>6. CASE pc[c] = "asset"
  <2>1. b = AssetBatch(c)
    BY <1>6 DEF Batch
  <2> HIDE DEF b
  <2>2. Len(b) = Len(s.assets) /\ \A i \in 1..Len(s.assets) : b[i].row = AssetRow(s.assets[i])
    BY <1>1, <2>1, AssetBatchIs
  <2>3. \A i \in 1..Len(s.assets) : FactIn(rows', b[i].row) = <<"asset", s.assets[i]>>
    BY <2>2, AssetFact
  <2>4. Inventory!Part(s, "asset") = {<<"asset", s.assets[i]>> : i \in 1..Len(s.assets)}
    BY DEF Inventory!Part
  <2>5. Added = Inventory!Part(s, "asset")
    BY <2>2, <2>3, <2>4
  <2>6. FactsIn(rows') = FactsIn(rows) \cup Inventory!Part(s, pc[c]) \cup {}
    BY <1>2, <1>6, <2>5
  <2> HIDE DEF s
  <2> QED BY <2>6 DEF s
<1>7. CASE pc[c] = "edge"
  <2> DEFINE n == Len(s.edges)
             m == Len(links[c])
             known == {FactIn(rows', b[n + j].row) : j \in 1..m}
  <2>1. b = EdgeBatch(c)
    BY <1>7 DEF Batch
  <2>2. /\ n \in Nat /\ m \in Nat /\ Len(b) = n + m
        /\ \A i \in 1..n :
             b[i].row = EdgeRow(assets[c][s.edges[i].from], assets[c][s.edges[i].to])
        /\ \A i \in 1..m : b[n + i].row = EdgeRow(assets[c][links[c][i].from], links[c][i].to)
    BY <1>1, <1>7, <2>1, EdgeBatchIs DEF At, ClientOK
  <2> HIDE DEF b
  <2>3. \A i \in 1..n : FactIn(rows', b[i].row) =
                          <<"edge", s.assets[s.edges[i].from], s.assets[s.edges[i].to]>>
    <3>1. \A i \in 1..n : FactIn(rows', b[i].row) =
            <<"edge", AssetIn(rows', assets[c][s.edges[i].from]),
                      AssetIn(rows', assets[c][s.edges[i].to])>>
      BY <2>2, EdgeFact, Zenon
    <3>2. ASSUME NEW i \in 1..n
          PROVE  /\ AssetIn(rows', assets[c][s.edges[i].from]) = s.assets[s.edges[i].from]
                 /\ AssetIn(rows', assets[c][s.edges[i].to]) = s.assets[s.edges[i].to]
      BY <1>3, <1>4, <1>7
    <3> QED BY <3>1, <3>2, Zenon
  <2>4. Inventory!Part(s, "edge") =
          {<<"edge", s.assets[s.edges[i].from], s.assets[s.edges[i].to]>> : i \in 1..n}
    BY DEF Inventory!Part
  <2>5. Inventory!Part(s, "edge") = {FactIn(rows', b[i].row) : i \in 1..n}
    BY <2>3, <2>4
  <2>6. ASSUME NEW j \in 1..m
        PROVE  FactIn(rows', b[n + j].row) \in Inventory!Links(s, "edge")
    <3>1. PICK i \in 1..Len(s.links) :
            /\ links[c][j].from = s.links[i].from
            /\ AssetIn(rows', links[c][j].to) = s.links[i].key
            /\ <<"asset", s.links[i].key>> \in FactsIn(rows)
      BY <1>5
    <3>2. FactIn(rows', b[n + j].row) = <<"edge", s.assets[s.links[i].from], s.links[i].key>>
      <4>1. FactIn(rows', b[n + j].row) =
              <<"edge", AssetIn(rows', assets[c][links[c][j].from]), AssetIn(rows', links[c][j].to)>>
        BY <2>2, EdgeFact, Zenon
      <4>2. AssetIn(rows', assets[c][links[c][j].from]) = s.assets[s.links[i].from]
        BY <1>3, <1>4, <1>7, <3>1
      <4> QED BY <3>1, <4>1, <4>2, Zenon
    <3>3. Inventory!Links(s, "edge") =
            {<<"edge", s.assets[l.from], l.key>> :
               l \in {s.links[x] : x \in {y \in 1..Len(s.links) :
                                            <<"asset", s.links[y].key>> \in FactsIn(rows)}}}
      BY FactsSame DEF Inventory!Links
    <3> QED BY <3>1, <3>2, <3>3
  <2>7. known \in SUBSET Inventory!Links(s, "edge")
    BY <2>6
  <2>8. Added = Inventory!Part(s, "edge") \cup known
    <3>1. /\ \A i \in 1..n : i \in 1..Len(b)
          /\ \A i \in 1..m : n + i \in 1..Len(b)
          /\ \A i \in 1..Len(b) : i \in 1..n \/ \E j \in 1..m : i = n + j
      <4>1. Len(b) = n + m /\ n \in Nat /\ m \in Nat
        BY <2>2
      <4> HIDE DEF n, m
      <4>2. /\ \A i \in 1..n : i \in 1..(n + m)
            /\ \A i \in 1..m : n + i \in 1..(n + m)
            /\ \A i \in 1..(n + m) : i \in 1..n \/ \E j \in 1..m : i = n + j
        BY <4>1, JoinedPlaces
      <4> QED BY <4>1, <4>2
    <3> HIDE DEF n, m
    <3> QED BY <2>5, <3>1
  <2> QED BY <1>2, <1>7, <2>7, <2>8
<1>8. CASE pc[c] = "finding"
  <2> DEFINE n == Len(s.findings)
  <2>1. b = FindingBatch(c)
    BY <1>8 DEF Batch
  <2>2. Len(b) = n /\ \A i \in 1..n : b[i].row = FindingAt(c, i)
    BY <1>1, <1>8, <2>1, FindingBatchIs DEF At, ClientOK
  <2> HIDE DEF b
  <2>3. \A i \in 1..n : FactIn(rows', b[i].row) =
                          <<"finding", s.assets[s.findings[i].on], s.findings[i].source>>
    <3>0. \A i \in 1..n : b[i].row = FindingRow(assets[c][s.findings[i].on], s.findings[i].source)
      BY <2>2 DEF FindingAt
    <3>1. \A i \in 1..n : FactIn(rows', b[i].row) =
            <<"finding", AssetIn(rows', assets[c][s.findings[i].on]), s.findings[i].source>>
      <4>1. ASSUME NEW i \in 1..n
            PROVE  FactIn(rows', FindingRow(assets[c][s.findings[i].on], s.findings[i].source)) =
                     <<"finding", AssetIn(rows', assets[c][s.findings[i].on]), s.findings[i].source>>
        BY FindingFact, Zenon
      <4> QED BY <3>0, <4>1
    <3>2. ASSUME NEW i \in 1..n
          PROVE  AssetIn(rows', assets[c][s.findings[i].on]) = s.assets[s.findings[i].on]
      BY <1>3, <1>4, <1>8
    <3> QED BY <3>1, <3>2, Zenon
  <2>4. Inventory!Part(s, "finding") =
          {<<"finding", s.assets[s.findings[i].on], s.findings[i].source>> : i \in 1..n}
    BY DEF Inventory!Part
  <2>5. Added = Inventory!Part(s, "finding")
    BY <2>2, <2>3, <2>4
  <2>6. FactsIn(rows') = FactsIn(rows) \cup Inventory!Part(s, pc[c]) \cup {}
    BY <1>2, <1>8, <2>5
  <2> HIDE DEF s
  <2> QED BY <2>6 DEF s
<1>9. CASE pc[c] = "score"
  <2> DEFINE n == Len(s.findings)
  <2>1. b = ScoreBatch(c)
    BY <1>9 DEF Batch
  <2>2. Len(b) = n /\ \A i \in 1..n : b[i].row = ScoreRow(found[c][i])
    BY <1>1, <1>9, <2>1, ScoreBatchIs DEF At, ClientOK, FindingsPlaced
  <2> HIDE DEF b
  <2>3. ASSUME NEW i \in 1..n
        PROVE  FactIn(rows', b[i].row) =
                 <<"score", s.assets[s.findings[i].on], s.findings[i].source>>
    <3>1. FindingAt(c, i) \in Stored /\ rows[FindingAt(c, i)] = found[c][i]
      BY <1>1, <1>9 DEF ClientOK, FindingsPlaced
    <3>2. FindingAt(c, i) \in FindingsIn(rows)
      BY <3>1, RowTables DEF FindingsIn, FindingAt, Stored
    <3>3. FindingIn(rows, found[c][i]) = FindingAt(c, i)
      BY <1>1, <3>1, <3>2, FindingInIs
    <3>4. found[c][i] \in Ids("finding")
      BY <3>1, <3>2 DEF Ids, InTable, FindingsIn
    <3>5. FindingIn(rows', found[c][i]) = FindingAt(c, i)
      BY <1>1, <3>3, <3>4, FindingInKept
    <3>6. /\ FindingAt(c, i).asset = assets[c][s.findings[i].on]
          /\ FindingAt(c, i).source = s.findings[i].source
      BY DEF FindingAt, FindingRow
    <3>7. AssetIn(rows', assets[c][s.findings[i].on]) = s.assets[s.findings[i].on]
      BY <1>3, <1>4, <1>9
    <3> QED BY <2>2, <3>5, <3>6, <3>7, ScoreFact
  <2>4. Inventory!Part(s, "score") =
          {<<"score", s.assets[s.findings[i].on], s.findings[i].source>> : i \in 1..n}
    BY DEF Inventory!Part
  <2>5. Added = Inventory!Part(s, "score")
    BY <2>2, <2>3, <2>4
  <2>6. FactsIn(rows') = FactsIn(rows) \cup Inventory!Part(s, pc[c]) \cup {}
    BY <1>2, <1>9, <2>5
  <2> HIDE DEF s
  <2> QED BY <2>6 DEF s
<1> QED BY <1>1, <1>6, <1>7, <1>8, <1>9 DEF Writing

-----------------------------------------------------------------------------

\* The same after a step.
LEMMA FactsSameNext == {Fact(k) : k \in Stored}' = FactsIn(rows')
<1>1. \A id : AssetOf(id)' = AssetIn(rows', id)
  BY DEF AssetOf, AssetIn, Stored
<1>2. \A id : FindingOf(id)' = FindingIn(rows', id)
  BY DEF FindingOf, FindingIn, FindingsIn, InTable, Stored
<1>3. \A k : Fact(k)' = FactIn(rows', k)
  BY <1>1, <1>2 DEF Fact, FactIn
<1> QED BY <1>3 DEF FactsIn, Stored

\* The stage of an execution, as ImplementsInventory maps it.
StageOf(step) == IF step = "list" THEN "asset" ELSE step

Stage == [c \in Clients |-> StageOf(pc[c])]

\* One execution steps, so one stage changes.
LEMMA StageStep ==
  ASSUME NEW c \in Clients, \A d \in Clients \ {c} : pc'[d] = pc[d]
  PROVE  Stage' = [Stage EXCEPT ![c] = StageOf(pc'[c])] /\ Stage[c] = StageOf(pc[c])
BY DEF Stage

\* Every action is a step of the Inventory, or none.
LEMMA ScannedBegins ==
  ASSUME Inv, NEW c \in Clients, Scanned(c)
  PROVE  Inventory!Begin(c)
<1>1. PICK s \in Scans : scan' = [scan EXCEPT ![c] = s]
  BY DEF Scanned
<1>2. /\ pc[c] = "scan" /\ StageOf(pc'[c]) = "asset" /\ rows' = rows
      /\ \A d \in Clients \ {c} : pc'[d] = pc[d]
  BY DEF Scanned, At, Goto, repository, Inv, TypeOK, StageOf
<1>3. Stage' = [Stage EXCEPT ![c] = "asset"] /\ Stage[c] = "scan"
  BY <1>2, StageStep DEF StageOf
<1>4. {Fact(k) : k \in Stored}' = {Fact(k) : k \in Stored}
  BY <1>2, FactsSame, FactsSameNext
<1> QED BY <1>1, <1>3, <1>4 DEF Inventory!Begin, Stage, StageOf

\* A commit adds its part of the scan.
LEMMA CommitAdds ==
  ASSUME ReferencedKept, Inv, Inv', NEW c \in Clients, Committing(c)
  PROVE  Inventory!Add(c) \/ Inventory!End(c)
<1>1. /\ pc[c] \in Writing /\ scan' = scan /\ pc'[c] \in {After[pc[c]], "thrown"}
      /\ \A d \in Clients \ {c} : pc'[d] = pc[d]
  BY DEF Committing, Idle
<1>2. StageOf(pc[c]) = pc[c] /\ StageOf(pc'[c]) = pc'[c]
  BY <1>1 DEF StageOf, Writing, After
<1>3. Stage' = [Stage EXCEPT ![c] = pc'[c]] /\ Stage[c] = pc[c]
  BY <1>1, <1>2, StageStep
<1>4. PICK known \in SUBSET Inventory!Links(scan[c], pc[c]) :
        {Fact(k) : k \in Stored}' =
          {Fact(k) : k \in Stored} \cup Inventory!Part(scan[c], pc[c]) \cup known
  BY CommitFacts, FactsSame, FactsSameNext
<1>5. Inventory!Adds(c)
  BY <1>3, <1>4 DEF Inventory!Adds, Stage, StageOf
<1>6. /\ pc[c] \in DOMAIN Inventory!After /\ Inventory!After[pc[c]] = After[pc[c]]
      /\ pc[c] \notin {"returned", "thrown"}
  BY <1>1 DEF Writing, After, Inventory!After
<1>7. CASE pc'[c] = After[pc[c]]
  BY <1>1, <1>3, <1>5, <1>6, <1>7 DEF Inventory!Add, Stage, StageOf
<1>8. CASE pc'[c] = "thrown"
  BY <1>1, <1>3, <1>5, <1>6, <1>8 DEF Inventory!End, Stage, StageOf
<1> QED BY <1>1, <1>7, <1>8

\* An execution that is cut ends.
LEMMA ThrowsEnds ==
  ASSUME Inv, NEW c \in Clients, Throws(c)
  PROVE  Inventory!End(c)
<1>1. /\ pc[c] \notin {"returned", "thrown"} /\ pc' = [pc EXCEPT ![c] = "thrown"]
      /\ rows' = rows /\ scan' = scan
  BY DEF Throws, Ended, Goto, Rollback
<1>2. pc'[c] = "thrown" /\ \A d \in Clients \ {c} : pc'[d] = pc[d]
  BY <1>1 DEF Inv, TypeOK
<1>3. /\ Stage' = [Stage EXCEPT ![c] = "thrown"] /\ Stage[c] = StageOf(pc[c])
      /\ StageOf(pc[c]) \notin {"returned", "thrown"}
  BY <1>1, <1>2, StageStep DEF StageOf
<1>4. {Fact(k) : k \in Stored}' = {Fact(k) : k \in Stored}
  BY <1>1, FactsSame, FactsSameNext
<1> QED BY <1>1, <1>3, <1>4 DEF Inventory!End, Stage, StageOf

\* A step that leaves rows and stages alone is a stutter.
LEMMA SameStage ==
  ASSUME rows' = rows, scan' = scan, \A c \in Clients : StageOf(pc'[c]) = StageOf(pc[c])
  PROVE  UNCHANGED Inventory!vars
<1>1. {Fact(k) : k \in Stored}' = {Fact(k) : k \in Stored}
  BY FactsSame, FactsSameNext
<1>2. Stage' = Stage
  BY DEF Stage
<1> QED BY <1>1, <1>2 DEF Inventory!vars, Stage, StageOf

\* Ids, transactions and locks implement a set of facts that only grows:
\* whatever overlaps, deadlocks, throws or loses an answer, each transaction
\* adds its part of a scan in one step, or nothing.
THEOREM InventoryImplemented ==
  ASSUME ReferencedKept
  PROVE  Spec => ImplementsInventory
<1>1. Init => Inventory!Init
  <2> SUFFICES ASSUME Init PROVE Inventory!Init
    OBVIOUS
  <2>1. {Fact(k) : k \in Stored} = {}
    BY DEF Init, RepositoryInit, Stored
  <2> QED BY <2>1 DEF Init, NoScan, Inventory!Init
<1>2. Inv /\ Inv' /\ [Next]_vars => [Inventory!Next]_(Inventory!vars)
  <2> SUFFICES ASSUME Inv, Inv', [Next]_vars
               PROVE  Inventory!Next \/ UNCHANGED Inventory!vars
    OBVIOUS
  <2>1. CASE UNCHANGED vars
    BY <2>1, SameStage DEF vars, repository
  <2>2. ASSUME NEW c \in Clients, Scanned(c) \/ Throws(c) \/ Committing(c)
        PROVE  Inventory!Next
    BY <2>2, ScannedBegins, ThrowsEnds, CommitAdds DEF Inventory!Next
  <2>3. ASSUME NEW c \in Clients, Listed(c) \/ WriteRow(c)
        PROVE  UNCHANGED Inventory!vars
    <3>1. rows' = rows /\ scan' = scan
      BY <2>3 DEF Listed, WriteRow, Statement, repository
    <3>2. \A d \in Clients : StageOf(pc'[d]) = StageOf(pc[d])
      BY <2>3 DEF Listed, WriteRow, At, Goto, StageOf, Inv, TypeOK
    <3> QED BY <3>1, <3>2, SameStage
  <2> QED BY <2>1, <2>2, <2>3, StepCases
<1> QED BY <1>1, <1>2, InvHolds, PTL DEF Spec, ImplementsInventory, Inventory!Spec
=============================================================================
