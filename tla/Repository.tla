------------------------------ MODULE Repository -----------------------------
(***************************************************************************)
(* The history table of crates/storage/src/repository.rs: one row per      *)
(* content hash, never removed, with the pinned, favorite and deleted      *)
(* marks, and the listing that search computes from it with rank_items     *)
(* (crates/core/src/search.rs).                                            *)
(*                                                                         *)
(* content_hash is a framed SHA-256 of the payload, so a row's payload     *)
(* stands for its hash. last_used_at is kept as lastUsed[id], the place of *)
(* the row in the order of last use (1 is the latest, 0 is no row): the    *)
(* wall clock is taken to move forward between two writes of the table.    *)
(***************************************************************************)
EXTENDS ClipTypes

CONSTANTS
  NoRow,        \* The id has no row.
  SearchLimit   \* LIMIT 500 of the search query.

ASSUME RepositoryAssumption ==
  /\ SearchLimit \in Nat \ {0}
  /\ NoRow \notin [payload : Payload, pinned : BOOLEAN, favorite : BOOLEAN, deleted : BOOLEAN]

VARIABLES
  rows,      \* rows[id]: the row of id, or NoRow.
  lastUsed   \* lastUsed[id]: the rank of id by last_used_at.

store == <<rows, lastUsed>>

\* Nothing empty is stored, so a restore always has something to write.
Content == {p \in Payload : ~IsEmpty(p)}

Row == [payload : Content, pinned : BOOLEAN, favorite : BOOLEAN, deleted : BOOLEAN]

StoreType ==
  /\ rows \in [Ids -> Row \cup {NoRow}]
  /\ lastUsed \in [Ids -> Nat]

\* migrate: an empty table.
StoreInit ==
  /\ rows = [id \in Ids |-> NoRow]
  /\ lastUsed = [id \in Ids |-> 0]

Stored(id) == rows[id] # NoRow

\* What a coarse clock would do: leave two rows used at the same time.
TouchAlone(id) == lastUsed' = [lastUsed EXCEPT ![id] = 1]

\* last_used_at := now. The rows used since id was last used move down one.
Touch(id) ==
  lastUsed' = [j \in Ids |->
    IF j = id THEN 1
    ELSE IF Stored(j) /\ (~Stored(id) \/ lastUsed[j] < lastUsed[id])
         THEN lastUsed[j] + 1
         ELSE lastUsed[j]]

-----------------------------------------------------------------------------
(***************************************************************************)
(* The statements.                                                         *)
(***************************************************************************)
\* What a wrong upsert would do: insert without ON CONFLICT.
InsertAlways(p) ==
  \E id \in Ids :
    /\ ~Stored(id)
    /\ rows' = [rows EXCEPT ![id] =
         [payload |-> p, pinned |-> FALSE, favorite |-> FALSE, deleted |-> FALSE]]
    /\ Touch(id)

\* What a wrong upsert would do: take the flags, too, from the new item.
UpsertResetsFlags(p) ==
  \/ \E id \in Ids :
       /\ Stored(id) /\ rows[id].payload = p
       /\ rows' = [rows EXCEPT ![id] =
            [payload |-> p, pinned |-> FALSE, favorite |-> FALSE, deleted |-> FALSE]]
       /\ Touch(id)
  \/ (\A id \in Ids : Stored(id) => rows[id].payload # p) /\ InsertAlways(p)

\* upsert_item: a payload already in the table keeps its row, its id and its
\* flags, is no longer deleted and becomes the latest; another payload gets a
\* row of its own under a fresh id.
Upsert(p) ==
  \/ \E id \in Ids :
       /\ Stored(id)
       /\ rows[id].payload = p
       /\ rows' = [rows EXCEPT ![id].deleted = FALSE]
       /\ Touch(id)
  \/ /\ \A id \in Ids : Stored(id) => rows[id].payload # p
     /\ \E id \in Ids :
          /\ ~Stored(id)
          /\ rows' = [rows EXCEPT ![id] =
               [payload |-> p, pinned |-> FALSE, favorite |-> FALSE, deleted |-> FALSE]]
          /\ Touch(id)

\* What a wrong soft_delete would do: DELETE FROM clipboard_items.
HardDelete(id) ==
  /\ rows' = [rows EXCEPT ![id] = NoRow]
  /\ lastUsed' = [lastUsed EXCEPT ![id] = 0]

SoftDelete(id) ==
  /\ rows' = [rows EXCEPT ![id].deleted = TRUE]
  /\ UNCHANGED lastUsed

SetPinned(id, value) ==
  /\ rows' = [rows EXCEPT ![id].pinned = value]
  /\ UNCHANGED lastUsed

SetFavorite(id, value) ==
  /\ rows' = [rows EXCEPT ![id].favorite = value]
  /\ UNCHANGED lastUsed

\* What a wrong mark_used would do: bring a deleted item back.
MarkUsedUndeletes(id) ==
  /\ rows' = [rows EXCEPT ![id].deleted = FALSE]
  /\ Touch(id)

\* What a wrong mark_used would do: forget to set last_used_at.
MarkUsedForgets(id) == UNCHANGED store

MarkUsed(id) ==
  /\ UNCHANGED rows
  /\ Touch(id)

-----------------------------------------------------------------------------
(***************************************************************************)
(* search: the SearchLimit latest live rows, of these the ones that match, *)
(* pinned rows first, then favorites, then the latest.                     *)
(***************************************************************************)
Live == {id \in Ids : Stored(id) /\ ~rows[id].deleted}

Window == {id \in Live : Cardinality({j \in Live : lastUsed[j] < lastUsed[id]}) < SearchLimit}

Found(q) == {id \in Window : Matches(q, rows[id].payload)}

\* What a wrong rank_items would do: favorites before pinned rows.
BeforeFavorites(i, j) ==
  LET a == rows[i]
      b == rows[j]
  IN  \/ a.favorite /\ ~b.favorite
      \/ a.favorite = b.favorite /\ a.pinned /\ ~b.pinned
      \/ a.favorite = b.favorite /\ a.pinned = b.pinned /\ lastUsed[i] < lastUsed[j]

\* What a rank_items without its last comparison would do: rows with the same
\* marks in any order.
BeforeMarks(i, j) ==
  LET a == rows[i]
      b == rows[j]
  IN  \/ a.pinned /\ ~b.pinned
      \/ a.pinned = b.pinned /\ a.favorite /\ ~b.favorite

Before(i, j) ==
  LET a == rows[i]
      b == rows[j]
  IN  \/ a.pinned /\ ~b.pinned
      \/ a.pinned = b.pinned /\ a.favorite /\ ~b.favorite
      \/ a.pinned = b.pinned /\ a.favorite = b.favorite /\ lastUsed[i] < lastUsed[j]

\* The orders rank_items can give the rows found: OneListing says it is one.
Listings(q) ==
  {s \in [1 .. Cardinality(Found(q)) -> Found(q)] :
     \A m, n \in DOMAIN s : m < n => Before(s[m], s[n])}

ItemOf(id) == [id |-> id, pinned |-> rows[id].pinned, favorite |-> rows[id].favorite]

-----------------------------------------------------------------------------
(***************************************************************************)
(* What always holds of the table, whoever runs its statements.            *)
(***************************************************************************)
\* Duplicate payloads are collapsed: no two rows, deleted ones included, hold
\* the same content, whatever requests were interleaved.
UniqueHash ==
  \A i, j \in Ids : Stored(i) /\ Stored(j) /\ rows[i].payload = rows[j].payload => i = j

\* last_used_at tells the rows apart: no two rows ever have the same rank, so
\* the window of a search holds no more rows than its limit.
RankedOnce ==
  /\ \A i \in Ids : Stored(i) <=> lastUsed[i] # 0
  /\ \A i, j \in Ids : Stored(i) /\ lastUsed[i] = lastUsed[j] => i = j

\* search has one answer, never none: whatever the marks, the rows found can be
\* put in the order of rank_items in one way, so the list cannot change unless
\* the table does. It follows from RankedOnce and from the comparisons together.
OneListing == \A q \in Queries : \E s \in Listings(q) : Listings(q) = {s}

StoreInv == StoreType /\ UniqueHash /\ RankedOnce
=============================================================================
