----------------------------- MODULE Repository -----------------------------
(***************************************************************************)
(* The repository of packages/storage as PostgresRepository keeps it: four *)
(* tables, upserted by natural key in transactions that write a batch row  *)
(* after row.  A statement locks its row until the transaction ends, and   *)
(* waits while another transaction has it locked; it then finds the row as *)
(* that transaction left it.  An upsert keeps the id a row was first       *)
(* inserted with (KeepsId has all four tables; InMemoryRepository keeps    *)
(* that of a score only until the next).  There are no foreign keys: the   *)
(* natural keys of edges, findings and scores hold ids, and any id may     *)
(* stand in them.                                                          *)
(*                                                                         *)
(* The four tables are one partial function from natural keys to ids.      *)
(* Left out: tenants (every table and operation is bound to one), the type *)
(* of a relationship, which is in its natural key beside the ends, the     *)
(* other columns, and firstSeen, which is kept the way the id is.          *)
(* InMemoryRepository runs a whole upsert in one step, a case of this.     *)
(***************************************************************************)
EXTENDS Naturals, Sequences

CONSTANTS
  AssetKeys,     \* type and identifier of an asset
  Sources,       \* sourceFindingId of a finding
  Clients,       \* who runs transactions, one at a time each
  KeepsId,       \* the tables whose rows keep their id when upserted again
  BatchCap       \* bound on the length of a batch

Tables == {"asset", "edge", "finding", "score"}

ASSUME RepositoryAssumption == BatchCap \in Nat /\ KeepsId \subseteq Tables

\* newId: an id tells who made it, for which table, where in the batch.
Id == [by : Clients, table : Tables, n : 1..BatchCap]

newId(c, table, n) == [by |-> c, table |-> table, n |-> n]

\* Edges are of one type here, which is the third part of their key.
AssetRow(key) == [table |-> "asset", key |-> key]
EdgeRow(from, to) == [table |-> "edge", from |-> from, to |-> to]
FindingRow(asset, source) == [table |-> "finding", asset |-> asset, source |-> source]
ScoreRow(finding) == [table |-> "score", finding |-> finding]

Row == {AssetRow(key) : key \in AssetKeys} \cup {EdgeRow(x, y) : x, y \in Id}
       \cup {FindingRow(x, s) : x \in Id, s \in Sources} \cup {ScoreRow(x) : x \in Id}

VARIABLES
  rows,          \* the committed rows: natural key -> id
  locked         \* client -> rows its transaction has written, in order

repository == <<rows, locked>>

Stored == DOMAIN rows

RepositoryTypeOK ==
  /\ Stored \subseteq Row
  /\ rows \in [Stored -> Id]
  /\ locked \in [Clients -> Seq(Row)]

RepositoryInit ==
  /\ rows = [k \in {} |-> 0]
  /\ locked = [c \in Clients |-> <<>>]

-----------------------------------------------------------------------------
(* A batch is a sequence of natural keys with the ids made for them.       *)

LockedBy(c) == {locked[c][i] : i \in 1..Len(locked[c])}

\* The row the next statement of c is about.
NextRow(c, batch) == batch[Len(locked[c]) + 1].row

\* One statement: insert ... on conflict do update.
Statement(c, batch) ==
  /\ Len(locked[c]) < Len(batch)
  /\ \A d \in Clients \ {c} : NextRow(c, batch) \notin LockedBy(d)
  /\ locked' = [locked EXCEPT ![c] = Append(@, NextRow(c, batch))]
  /\ UNCHANGED rows

PlacesOf(batch, row) == {i \in 1..Len(batch) : batch[i].row = row}

\* Mutant of StoredId: the id of the incoming row.
StoredIdIncoming(batch, row) ==
  batch[CHOOSE i \in PlacesOf(batch, row) : \A j \in PlacesOf(batch, row) : i <= j].id

\* The id under which a row of the batch is stored: the one it has, or the
\* one of its first place in the batch; without KeepsId, that of its last.
StoredId(batch, row) ==
  IF row.table \notin KeepsId
  THEN batch[CHOOSE i \in PlacesOf(batch, row) : \A j \in PlacesOf(batch, row) : i >= j].id
  ELSE IF row \in Stored THEN rows[row]
  ELSE batch[CHOOSE i \in PlacesOf(batch, row) : \A j \in PlacesOf(batch, row) : i <= j].id

Upserted(batch) ==
  [row \in Stored \cup {batch[i].row : i \in 1..Len(batch)} |->
     IF PlacesOf(batch, row) = {} THEN rows[row] ELSE StoredId(batch, row)]

\* What the upsert returns, in the order of the batch.
Returned(batch) == [i \in 1..Len(batch) |-> StoredId(batch, batch[i].row)]

Release(c) == locked' = [locked EXCEPT ![c] = <<>>]

Commit(c, batch) ==
  /\ Len(locked[c]) = Len(batch)
  /\ rows' = Upserted(batch)
  /\ Release(c)

\* Mutant of Rollback: the transaction is left open.
RollbackForgotten(c) == UNCHANGED <<rows, locked>>

Rollback(c) == Release(c) /\ UNCHANGED rows
=============================================================================
