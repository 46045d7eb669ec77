--------------------------- MODULE RepositoryProofs --------------------------
(***************************************************************************)
(* What the statements of the history table return and preserve, for every *)
(* set of ids and payloads and every window size: the lemmas that the      *)
(* proofs about the atomic service and about the daemon rest on.           *)
(***************************************************************************)
EXTENDS Repository, FiniteSetTheorems, TLAPS

-----------------------------------------------------------------------------
(***************************************************************************)
(* Types.                                                                  *)
(***************************************************************************)
\* The row of an item just captured is a row.
LEMMA NewRow ==
  ASSUME NEW p \in Content
  PROVE  [payload |-> p, pinned |-> FALSE, favorite |-> FALSE, deleted |-> FALSE] \in Row
BY DEF Row

\* Touch keeps ranks natural numbers.
LEMMA TouchType ==
  ASSUME StoreType, NEW id \in Ids, Touch(id)
  PROVE  lastUsed' \in [Ids -> Nat]
BY DEF StoreType, Touch

\* upsert_item keeps the table well formed.
LEMMA UpsertType ==
  ASSUME StoreType, NEW p \in Content, Upsert(p)
  PROVE  StoreType'
<1>1. CASE \E id \in Ids : /\ Stored(id) /\ rows[id].payload = p
                           /\ rows' = [rows EXCEPT ![id].deleted = FALSE] /\ Touch(id)
  <2>1. PICK id \in Ids : /\ Stored(id)
                          /\ rows' = [rows EXCEPT ![id].deleted = FALSE] /\ Touch(id)
    BY <1>1
  <2>2. rows[id] \in Row
    BY <2>1 DEF Stored, StoreType
  <2>3. rows' \in [Ids -> Row \cup {NoRow}]
    BY <2>1, <2>2 DEF StoreType, Row
  <2>4. QED
    BY <2>1, <2>3, TouchType DEF StoreType
<1>2. CASE \E id \in Ids :
             /\ rows' = [rows EXCEPT ![id] =
                  [payload |-> p, pinned |-> FALSE, favorite |-> FALSE, deleted |-> FALSE]]
             /\ Touch(id)
  <2>1. PICK id \in Ids :
             /\ rows' = [rows EXCEPT ![id] =
                  [payload |-> p, pinned |-> FALSE, favorite |-> FALSE, deleted |-> FALSE]]
             /\ Touch(id)
    BY <1>2
  <2>2. rows' \in [Ids -> Row \cup {NoRow}]
    BY <2>1, NewRow DEF StoreType
  <2>3. QED
    BY <2>1, <2>2, TouchType DEF StoreType
<1>3. QED
  BY <1>1, <1>2 DEF Upsert

\* The statements on one stored row keep the table well formed.
LEMMA UpdateType ==
  ASSUME StoreType, NEW id \in Ids, Stored(id), NEW value \in BOOLEAN,
         SoftDelete(id) \/ SetPinned(id, value) \/ SetFavorite(id, value) \/ MarkUsed(id)
  PROVE  StoreType'
<1>1. rows[id] \in Row
  BY DEF Stored, StoreType
<1>2. CASE SoftDelete(id)
  BY <1>1, <1>2 DEF SoftDelete, StoreType, Row
<1>3. CASE SetPinned(id, value)
  BY <1>1, <1>3 DEF SetPinned, StoreType, Row
<1>4. CASE SetFavorite(id, value)
  BY <1>1, <1>4 DEF SetFavorite, StoreType, Row
<1>5. CASE MarkUsed(id)
  BY <1>5, TouchType DEF MarkUsed, StoreType
<1>6. QED
  BY <1>2, <1>3, <1>4, <1>5

\* A listing is a sequence of items.
LEMMA ListingType ==
  ASSUME StoreType, NEW q, NEW s \in Listings(q)
  PROVE  [n \in DOMAIN s |-> ItemOf(s[n])] \in Seq(Item)
<1> DEFINE N == Cardinality(Found(q))
<1>1. Found(q) \subseteq Live /\ Live \subseteq Ids
  BY DEF Found, Window, Live
<1>2. N \in Nat
  BY <1>1, TypesAssumption, FS_Subset, FS_CardinalityType DEF TypesAssumption
<1>3. s \in [1 .. N -> Found(q)]
  BY DEF Listings
<1>4. ASSUME NEW n \in 1 .. N
      PROVE  ItemOf(s[n]) \in Item
  <2>1. s[n] \in Live
    BY <1>1, <1>3
  <2>2. rows[s[n]] \in Row /\ s[n] \in Ids
    BY <2>1 DEF Live, Stored, StoreType
  <2>3. QED
    BY <2>2 DEF ItemOf, Item, Row
<1>5. [n \in 1 .. N |-> ItemOf(s[n])] \in [1 .. N -> Item]
  BY <1>4
<1>6. QED
  BY <1>2, <1>3, <1>5

-----------------------------------------------------------------------------
(***************************************************************************)
(* Content and marks.                                                      *)
(***************************************************************************)
\* What upsert_item does to the rows: those there were keep their content and
\* their marks, and the one of p, old or new, is the latest and not deleted.
LEMMA UpsertRows ==
  ASSUME StoreType, NEW p \in Content, Upsert(p)
  PROVE  \E id \in Ids :
           /\ rows'[id].payload = p /\ ~rows'[id].deleted /\ Stored(id)'
           /\ Stored(id) => /\ rows[id].payload = p
                            /\ rows'[id].pinned = rows[id].pinned
                            /\ rows'[id].favorite = rows[id].favorite
           /\ ~Stored(id) => \A j \in Ids : Stored(j) => rows[j].payload # p
           /\ \A j \in Ids : j # id => rows'[j] = rows[j]
           /\ Touch(id)
<1>1. CASE \E id \in Ids : /\ Stored(id) /\ rows[id].payload = p
                           /\ rows' = [rows EXCEPT ![id].deleted = FALSE] /\ Touch(id)
  <2>1. PICK id \in Ids : /\ Stored(id) /\ rows[id].payload = p
                          /\ rows' = [rows EXCEPT ![id].deleted = FALSE] /\ Touch(id)
    BY <1>1
  <2>2. rows[id] \in Row
    BY <2>1 DEF Stored, StoreType
  <2>3. rows'[id] \in Row /\ rows'[id].payload = p /\ ~rows'[id].deleted
    BY <2>1, <2>2 DEF StoreType, Row
  <2>4. rows'[id].pinned = rows[id].pinned /\ rows'[id].favorite = rows[id].favorite
    BY <2>1, <2>2 DEF StoreType, Row
  <2>5. Stored(id)'
    BY <2>3, RepositoryAssumption DEF RepositoryAssumption, Stored, Row, Content
  <2>6. \A j \in Ids : j # id => rows'[j] = rows[j]
    BY <2>1 DEF StoreType
  <2>7. QED
    BY <2>1, <2>3, <2>4, <2>5, <2>6
<1>2. CASE /\ \A j \in Ids : Stored(j) => rows[j].payload # p
           /\ \E id \in Ids :
                /\ ~Stored(id)
                /\ rows' = [rows EXCEPT ![id] =
                     [payload |-> p, pinned |-> FALSE, favorite |-> FALSE, deleted |-> FALSE]]
                /\ Touch(id)
  <2>1. PICK id \in Ids :
                /\ ~Stored(id)
                /\ rows' = [rows EXCEPT ![id] =
                     [payload |-> p, pinned |-> FALSE, favorite |-> FALSE, deleted |-> FALSE]]
                /\ Touch(id)
    BY <1>2
  <2>2. /\ rows'[id] = [payload |-> p, pinned |-> FALSE, favorite |-> FALSE, deleted |-> FALSE]
        /\ \A j \in Ids : j # id => rows'[j] = rows[j]
    BY <2>1 DEF StoreType
  <2>3. Stored(id)'
    BY <2>2, NewRow, RepositoryAssumption DEF RepositoryAssumption, Stored, Row, Content
  <2>4. rows'[id].payload = p /\ ~rows'[id].deleted
    BY <2>2
  <2>5. ~Stored(id) /\ Touch(id) /\ \A j \in Ids : j # id => rows'[j] = rows[j]
    BY <2>1, <2>2
  <2>6. \A j \in Ids : Stored(j) => rows[j].payload # p
    BY <1>2
  <2>7. QED
    BY <2>3, <2>4, <2>5, <2>6
<1>3. QED
  BY <1>1, <1>2 DEF Upsert

\* A statement on one stored row leaves its content and the other rows alone.
LEMMA UpdateRows ==
  ASSUME StoreType, NEW id \in Ids, Stored(id), NEW value \in BOOLEAN,
         SoftDelete(id) \/ SetPinned(id, value) \/ SetFavorite(id, value) \/ MarkUsed(id)
  PROVE  /\ Stored(id)' /\ rows'[id].payload = rows[id].payload
         /\ \A j \in Ids : j # id => rows'[j] = rows[j]
<1>1. rows[id] \in Row
  BY DEF Stored, StoreType
<1>2. rows'[id] \in Row /\ rows'[id].payload = rows[id].payload
  <2>1. CASE SoftDelete(id)
    BY <1>1, <2>1 DEF SoftDelete, StoreType, Row
  <2>2. CASE SetPinned(id, value)
    BY <1>1, <2>2 DEF SetPinned, StoreType, Row
  <2>3. CASE SetFavorite(id, value)
    BY <1>1, <2>3 DEF SetFavorite, StoreType, Row
  <2>4. CASE MarkUsed(id)
    BY <1>1, <2>4 DEF MarkUsed
  <2>5. QED
    BY <2>1, <2>2, <2>3, <2>4
<1>3. \A j \in Ids : j # id => rows'[j] = rows[j]
  BY DEF SoftDelete, SetPinned, SetFavorite, MarkUsed, StoreType
<1>4. QED
  BY <1>2, <1>3, RepositoryAssumption DEF RepositoryAssumption, Stored, Row, Content

\* Each statement on one stored row changes the mark it is for, or none.
LEMMA UpdateMarks ==
  ASSUME StoreType, NEW id \in Ids, Stored(id), NEW value \in BOOLEAN
  PROVE  /\ SoftDelete(id) => /\ rows'[id].pinned = rows[id].pinned
                              /\ rows'[id].favorite = rows[id].favorite
                              /\ rows'[id].deleted
         /\ SetPinned(id, value) => /\ rows'[id].pinned = value
                                    /\ rows'[id].favorite = rows[id].favorite
                                    /\ rows'[id].deleted = rows[id].deleted
         /\ SetFavorite(id, value) => /\ rows'[id].pinned = rows[id].pinned
                                      /\ rows'[id].favorite = value
                                      /\ rows'[id].deleted = rows[id].deleted
         /\ MarkUsed(id) => rows' = rows
<1>1. rows[id] \in Row
  BY DEF Stored, StoreType
<1>2. SoftDelete(id) => /\ rows'[id].pinned = rows[id].pinned
                        /\ rows'[id].favorite = rows[id].favorite
                        /\ rows'[id].deleted
  BY <1>1 DEF SoftDelete, StoreType, Row
<1>3. SetPinned(id, value) => /\ rows'[id].pinned = value
                              /\ rows'[id].favorite = rows[id].favorite
                              /\ rows'[id].deleted = rows[id].deleted
  BY <1>1 DEF SetPinned, StoreType, Row
<1>4. SetFavorite(id, value) => /\ rows'[id].pinned = rows[id].pinned
                                /\ rows'[id].favorite = value
                                /\ rows'[id].deleted = rows[id].deleted
  BY <1>1 DEF SetFavorite, StoreType, Row
<1>5. QED
  BY <1>2, <1>3, <1>4 DEF MarkUsed

-----------------------------------------------------------------------------
(***************************************************************************)
(* The invariants of the table.                                            *)
(***************************************************************************)
\* Touch keeps ranks distinct: the rows used since id was last used move down
\* one, into the rank that id leaves.
LEMMA TouchRanks ==
  ASSUME StoreType, RankedOnce, NEW id \in Ids, Touch(id), Stored(id)',
         \A j \in Ids : j # id => rows'[j] = rows[j]
  PROVE  RankedOnce'
<1> DEFINE Down(j) == Stored(j) /\ (~Stored(id) \/ lastUsed[j] < lastUsed[id])
<1>1. lastUsed'[id] = 1
  BY DEF Touch
<1>2. \A j \in Ids \ {id} : /\ Stored(j)' <=> Stored(j)
                            /\ lastUsed'[j] = IF Down(j) THEN lastUsed[j] + 1 ELSE lastUsed[j]
  BY DEF Touch, Stored
<1>3. \A j \in Ids : lastUsed[j] \in Nat
  BY DEF StoreType
<1>4. \A i \in Ids : Stored(i)' <=> lastUsed'[i] # 0
  BY <1>1, <1>2, <1>3 DEF RankedOnce
<1>5. ASSUME NEW i \in Ids \ {id}, Stored(i)
      PROVE  lastUsed'[i] # 1
  <2>1. CASE ~Stored(id)
    BY <1>2, <1>3, <1>5, <2>1 DEF RankedOnce
  <2>2. CASE Stored(id)
    BY <1>2, <1>3, <1>5, <2>2 DEF RankedOnce
  <2>3. QED
    BY <2>1, <2>2
<1>6. ASSUME NEW i \in Ids \ {id}, NEW j \in Ids \ {id}, Stored(i), lastUsed'[i] = lastUsed'[j]
      PROVE  i = j
  <2>1. Stored(j)
    BY <1>2, <1>4, <1>6
  <2>2. CASE ~Stored(id)
    BY <1>2, <1>3, <1>6, <2>1, <2>2 DEF RankedOnce
  <2>3. CASE Stored(id)
    <3>1. lastUsed[i] # lastUsed[id] /\ lastUsed[j] # lastUsed[id]
      BY <1>6, <2>1, <2>3 DEF RankedOnce
    <3>2. lastUsed[i] = lastUsed[j]
      BY <1>2, <1>3, <1>6, <2>1, <2>3, <3>1
    <3>3. QED
      BY <1>6, <3>2 DEF RankedOnce
  <2>4. QED
    BY <2>2, <2>3
<1>7. ASSUME NEW i \in Ids, NEW j \in Ids, Stored(i)', lastUsed'[i] = lastUsed'[j]
      PROVE  i = j
  <2>1. CASE i = id /\ j # id
    BY <1>1, <1>2, <1>4, <1>5, <1>7, <2>1
  <2>2. CASE i # id /\ j = id
    BY <1>1, <1>2, <1>5, <1>7, <2>2
  <2>3. CASE i # id /\ j # id
    BY <1>2, <1>6, <1>7, <2>3
  <2>4. QED
    BY <2>1, <2>2, <2>3
<1>8. QED
  BY <1>4, <1>7 DEF RankedOnce

\* upsert_item preserves the invariants of the table.
LEMMA UpsertInv ==
  ASSUME StoreInv, NEW p \in Content, Upsert(p)
  PROVE  StoreInv'
<1>1. StoreType /\ StoreType'
  BY UpsertType DEF StoreInv
<1>2. PICK id \in Ids :
           /\ rows'[id].payload = p /\ ~rows'[id].deleted /\ Stored(id)'
           /\ Stored(id) => rows[id].payload = p
           /\ ~Stored(id) => \A j \in Ids : Stored(j) => rows[j].payload # p
           /\ \A j \in Ids : j # id => rows'[j] = rows[j]
           /\ Touch(id)
  BY <1>1, UpsertRows
<1>3. \A j \in Ids : j # id /\ Stored(j) => rows[j].payload # p
  BY <1>2 DEF StoreInv, UniqueHash
<1>4. UniqueHash'
  BY <1>2, <1>3 DEF StoreInv, UniqueHash, Stored
<1>5. RankedOnce'
  BY <1>1, <1>2, TouchRanks DEF StoreInv
<1>6. QED
  BY <1>1, <1>4, <1>5 DEF StoreInv

\* The statements on one stored row preserve the invariants of the table.
LEMMA UpdateInv ==
  ASSUME StoreInv, NEW id \in Ids, Stored(id), NEW value \in BOOLEAN,
         SoftDelete(id) \/ SetPinned(id, value) \/ SetFavorite(id, value) \/ MarkUsed(id)
  PROVE  StoreInv'
<1>1. StoreType /\ StoreType'
  BY UpdateType DEF StoreInv
<1>2. /\ Stored(id)' /\ rows'[id].payload = rows[id].payload
      /\ \A j \in Ids : j # id => rows'[j] = rows[j]
  BY <1>1, UpdateRows
<1>3. \A j \in Ids : /\ Stored(j)' <=> Stored(j)
                     /\ rows'[j].payload = rows[j].payload
  BY <1>2 DEF Stored
<1>4. UniqueHash'
  BY <1>3 DEF StoreInv, UniqueHash
<1>5. RankedOnce'
  <2>1. CASE MarkUsed(id)
    BY <1>1, <1>2, <2>1, TouchRanks DEF MarkUsed, StoreInv
  <2>2. CASE lastUsed' = lastUsed
    BY <1>3, <2>2 DEF StoreInv, RankedOnce
  <2>3. QED
    BY <2>1, <2>2 DEF SoftDelete, SetPinned, SetFavorite
<1>6. QED
  BY <1>1, <1>4, <1>5 DEF StoreInv

\* An empty table satisfies them.
LEMMA InitInv == StoreInit => StoreInv
BY DEF StoreInit, StoreInv, StoreType, UniqueHash, RankedOnce, Stored

\* They depend on nothing but the table.
LEMMA SameInv == StoreInv /\ UNCHANGED store => StoreInv'
BY DEF StoreInv, StoreType, UniqueHash, RankedOnce, Stored, store
-----------------------------------------------------------------------------
(***************************************************************************)
(* The listings of search.                                                 *)
(***************************************************************************)
\* The live rows used after id; their number is what LIMIT looks at.
Ahead(id) == {j \in Live : lastUsed[j] < lastUsed[id]}

\* There are finitely many live rows.
LEMMA LiveFinite ==
  /\ IsFiniteSet(Live) /\ Cardinality(Live) \in Nat
  /\ \A id \in Live : IsFiniteSet(Ahead(id)) /\ Cardinality(Ahead(id)) \in Nat
<1>1. Live \in SUBSET Ids /\ IsFiniteSet(Ids)
  BY TypesAssumption DEF Live, TypesAssumption
<1>2. IsFiniteSet(Live)
  BY <1>1, FS_Subset
<1>3. \A id \in Live : Ahead(id) \in SUBSET Live
  BY DEF Ahead
<1>4. QED
  BY <1>2, <1>3, FS_Subset, FS_CardinalityType

\* Of two live rows, the one used later has fewer rows ahead of it.
LEMMA AheadGrows ==
  ASSUME StoreInv, NEW i \in Live, NEW j \in Live, lastUsed[i] < lastUsed[j]
  PROVE  Cardinality(Ahead(i)) < Cardinality(Ahead(j))
<1>1. /\ \A k \in Live : lastUsed[k] \in Nat
  BY DEF StoreInv, StoreType, Live
<1>2. Ahead(i) \in SUBSET (Ahead(j) \ {i}) /\ i \in Ahead(j)
  BY <1>1 DEF Ahead
<1>3. IsFiniteSet(Ahead(j)) /\ Cardinality(Ahead(j)) \in Nat /\ Cardinality(Ahead(i)) \in Nat
  BY LiveFinite
<1>4. IsFiniteSet(Ahead(j) \ {i}) /\ Cardinality(Ahead(j) \ {i}) = Cardinality(Ahead(j)) - 1
  BY <1>2, <1>3, FS_RemoveElement
<1>5. Cardinality(Ahead(i)) <= Cardinality(Ahead(j) \ {i})
  BY <1>2, <1>4, FS_Subset
<1>6. QED
  BY <1>3, <1>4, <1>5

\* The live rows, counted from the latest, are 0, 1, 2 ... without a gap.
LEMMA LivePlaces ==
  ASSUME StoreInv
  PROVE  [id \in Live |-> Cardinality(Ahead(id))] \in Bijection(Live, 0 .. Cardinality(Live) - 1)
<1> DEFINE f == [id \in Live |-> Cardinality(Ahead(id))]
           N == Cardinality(Live)
<1>1. \A k \in Live : lastUsed[k] \in Nat /\ Stored(k) /\ k \in Ids
  BY DEF StoreInv, StoreType, Live
<1>2. ASSUME NEW id \in Live PROVE f[id] \in 0 .. N - 1
  <2>1. Ahead(id) \in SUBSET (Live \ {id})
    BY <1>1 DEF Ahead
  <2>2. IsFiniteSet(Live \ {id}) /\ Cardinality(Live \ {id}) = N - 1
    BY LiveFinite, FS_RemoveElement
  <2>3. Cardinality(Ahead(id)) <= N - 1 /\ Cardinality(Ahead(id)) \in Nat
    BY <2>1, <2>2, LiveFinite, FS_Subset
  <2>4. QED
    BY <2>3, LiveFinite
<1>3. ASSUME NEW i \in Live, NEW j \in Live, f[i] = f[j] PROVE i = j
  <2>1. ~(lastUsed[i] < lastUsed[j]) /\ ~(lastUsed[j] < lastUsed[i])
    BY <1>3, AheadGrows, LiveFinite
  <2>2. lastUsed[i] = lastUsed[j]
    BY <1>1, <2>1
  <2>3. QED
    BY <1>1, <2>2 DEF StoreInv, RankedOnce
<1>4. f \in Injection(Live, 0 .. N - 1)
  BY <1>2, <1>3 DEF Injection, IsInjective
<1>5. IsFiniteSet(0 .. N - 1) /\ Cardinality(0 .. N - 1) = N
  <2>1. N \in Nat
    BY LiveFinite
  <2>2. QED
    BY <2>1, FS_Interval
<1>6. f \in Surjection(Live, 0 .. N - 1)
  BY <1>4, <1>5, FS_Injection
<1>7. QED
  BY <1>4, <1>6 DEF Bijection

\* LIMIT: the window holds at most SearchLimit rows, and all live rows when it
\* holds fewer.
LEMMA WindowSize ==
  ASSUME StoreInv
  PROVE  /\ IsFiniteSet(Window) /\ Cardinality(Window) \in Nat
         /\ Cardinality(Window) <= SearchLimit
         /\ Cardinality(Window) < SearchLimit => Window = Live
<1> DEFINE f == [id \in Live |-> Cardinality(Ahead(id))]
           N == Cardinality(Live)
           g == [id \in Window |-> Cardinality(Ahead(id))]
<1>1. SearchLimit \in Nat \ {0} /\ N \in Nat
  BY RepositoryAssumption, LiveFinite DEF RepositoryAssumption
<1>2. Window \subseteq Live /\ \A id \in Live : id \in Window <=> f[id] < SearchLimit
  BY DEF Window, Ahead
<1>3. f \in Injection(Live, 0 .. N - 1) /\ f \in Surjection(Live, 0 .. N - 1)
  BY LivePlaces DEF Bijection
<1>4. /\ \A id \in Live : f[id] \in 0 .. N - 1
      /\ \A i, j \in Live : f[i] = f[j] => i = j
      /\ \A k \in 0 .. N - 1 : \E id \in Live : f[id] = k
  BY <1>3 DEF Injection, Surjection, IsInjective
<1>5. g \in Injection(Window, 0 .. SearchLimit - 1)
  <2>1. \A id \in Window : g[id] = f[id] /\ id \in Live
    BY <1>2
  <2>2. \A id \in Window : g[id] \in 0 .. SearchLimit - 1
    BY <1>1, <1>2, <1>4, <2>1
  <2>3. \A i, j \in Window : g[i] = g[j] => i = j
    BY <1>4, <2>1
  <2>4. QED
    BY <2>2, <2>3 DEF Injection, IsInjective
<1>6. IsFiniteSet(0 .. SearchLimit - 1) /\ Cardinality(0 .. SearchLimit - 1) = SearchLimit
  BY <1>1, FS_Interval
<1>7. /\ IsFiniteSet(Window) /\ Cardinality(Window) <= SearchLimit
      /\ Cardinality(Window) = SearchLimit <=> g \in Surjection(Window, 0 .. SearchLimit - 1)
  BY <1>5, <1>6, FS_Injection
<1>8. ASSUME NEW id \in Live, id \notin Window
      PROVE  Cardinality(Window) = SearchLimit
  <2>1. f[id] >= SearchLimit /\ f[id] \in 0 .. N - 1
    BY <1>1, <1>2, <1>4, <1>8
  <2>2. ASSUME NEW k \in 0 .. SearchLimit - 1
        PROVE  \E j \in Window : g[j] = k
    <3>1. k \in 0 .. N - 1
      BY <1>1, <2>1
    <3>2. PICK j \in Live : f[j] = k
      BY <1>4, <3>1
    <3>3. j \in Window
      BY <1>1, <1>2, <3>2
    <3>4. QED
      BY <3>2, <3>3
  <2>3. g \in [Window -> 0 .. SearchLimit - 1]
    BY <1>5 DEF Injection
  <2>4. g \in Surjection(Window, 0 .. SearchLimit - 1)
    BY <2>2, <2>3 DEF Surjection
  <2>5. QED
    BY <1>7, <2>4
<1>9. Cardinality(Window) \in Nat
  BY <1>7, FS_CardinalityType
<1>10. Cardinality(Window) < SearchLimit => Window = Live
  <2> SUFFICES ASSUME Cardinality(Window) < SearchLimit PROVE Live \subseteq Window
    BY <1>2
  <2>1. Cardinality(Window) # SearchLimit
    BY <1>1, <1>9
  <2>2. QED
    BY <1>8, <2>1
<1>11. QED
  BY <1>7, <1>9, <1>10

\* What search answers: at most SearchLimit live rows, none twice, the pinned
\* ones first, and every live row if the needle is empty and the window not full.
LEMMA ListingSound ==
  ASSUME StoreInv, NEW q, NEW s \in Listings(q)
  PROVE  LET N == Cardinality(Found(q))
         IN  /\ N \in Nat /\ N <= SearchLimit /\ DOMAIN s = 1 .. N
             /\ \A n \in 1 .. N : s[n] \in Live
             /\ \A m, n \in 1 .. N : s[m] = s[n] => m = n
             /\ \A m, n \in 1 .. N : rows[s[n]].pinned /\ m < n => rows[s[m]].pinned
             /\ q = NoQuery /\ N < SearchLimit => \A id \in Live : \E n \in 1 .. N : s[n] = id
<1> DEFINE N == Cardinality(Found(q))
<1>1. Found(q) \in SUBSET Window /\ Window \subseteq Live
  BY DEF Found, Window
<1>2. /\ IsFiniteSet(Found(q)) /\ N \in Nat /\ N <= SearchLimit
      /\ SearchLimit \in Nat
  BY <1>1, WindowSize, FS_Subset, FS_CardinalityType, RepositoryAssumption DEF RepositoryAssumption
<1>3. s \in [1 .. N -> Found(q)] /\ \A m, n \in 1 .. N : m < n => Before(s[m], s[n])
  BY DEF Listings
<1>4. \A n \in 1 .. N : s[n] \in Live
  BY <1>1, <1>3
<1>5. \A i, j \in Live : Before(i, j) => i # j /\ (rows[j].pinned => rows[i].pinned)
  <2>1. \A i \in Live : lastUsed[i] \in Nat /\ rows[i] \in Row
    BY DEF Live, Stored, StoreInv, StoreType
  <2>2. QED
    BY <2>1 DEF Before, Row
<1>6. \A m, n \in 1 .. N : m < n => s[m] # s[n] /\ (rows[s[n]].pinned => rows[s[m]].pinned)
  BY <1>3, <1>4, <1>5
<1>7. \A m, n \in 1 .. N : s[m] = s[n] => m = n
  BY <1>2, <1>6
<1>8. ASSUME q = NoQuery, N < SearchLimit, NEW id \in Live
      PROVE  \E n \in 1 .. N : s[n] = id
  <2>1. Found(q) = Window
    BY <1>8 DEF Found, Matches
  <2>2. id \in Found(q)
    BY <1>8, <2>1, WindowSize
  <2>3. s \in Injection(1 .. N, Found(q))
    BY <1>3, <1>7 DEF Injection, IsInjective
  <2>4. Cardinality(1 .. N) = N
    BY <1>2, FS_Interval
  <2>5. s \in Surjection(1 .. N, Found(q))
    BY <1>2, <2>3, <2>4, FS_Injection
  <2>6. QED
    BY <2>2, <2>5 DEF Surjection
<1>9. QED
  BY <1>2, <1>3, <1>4, <1>6, <1>7, <1>8
-----------------------------------------------------------------------------
(***************************************************************************)
(* The order of rank_items.                                                *)
(***************************************************************************)
\* The marks and then the rank put the live rows in a strict total order.
LEMMA BeforeOrder ==
  ASSUME StoreInv, NEW i \in Live, NEW j \in Live, NEW k \in Live
  PROVE  /\ ~Before(i, i)
         /\ i # j => Before(i, j) \/ Before(j, i)
         /\ Before(i, j) /\ Before(j, k) => Before(i, k)
<1>1. \A x \in Live : x \in Ids /\ Stored(x) /\ rows[x] \in Row /\ lastUsed[x] \in Nat
  BY DEF Live, Stored, StoreInv, StoreType
<1>2. \A x \in Live : rows[x].pinned \in BOOLEAN /\ rows[x].favorite \in BOOLEAN
  BY <1>1 DEF Row
<1>3. i # j => lastUsed[i] # lastUsed[j]
  BY <1>1 DEF StoreInv, RankedOnce
<1>4. ~Before(i, i)
  BY <1>1 DEF Before
<1>5. i # j => Before(i, j) \/ Before(j, i)
  BY <1>1, <1>2, <1>3 DEF Before
<1>6. Before(i, j) /\ Before(j, k) => Before(i, k)
  BY <1>1, <1>2 DEF Before
<1>7. QED
  BY <1>4, <1>5, <1>6

\* The rows of F that come before id; their number is the place of id in F.
Front(F, id) == {j \in F : Before(j, id)}
Placed(F) == [id \in F |-> Cardinality(Front(F, id)) + 1]

\* Of two rows, the one that comes later has more rows before it.
LEMMA FrontGrows ==
  ASSUME StoreInv, NEW F \in SUBSET Live, NEW i \in F, NEW j \in F, Before(i, j)
  PROVE  Cardinality(Front(F, i)) < Cardinality(Front(F, j))
<1>1. /\ \A x \in F : ~Before(x, x)
      /\ \A x \in F : Before(x, i) => Before(x, j)
  BY BeforeOrder
<1>2. Front(F, i) \in SUBSET (Front(F, j) \ {i}) /\ i \in Front(F, j)
  BY <1>1 DEF Front
<1>3. IsFiniteSet(Front(F, j))
  <2>1. Front(F, j) \in SUBSET Live
    BY DEF Front
  <2>2. QED
    BY <2>1, LiveFinite, FS_Subset
<1>4. /\ IsFiniteSet(Front(F, j) \ {i})
      /\ Cardinality(Front(F, j) \ {i}) = Cardinality(Front(F, j)) - 1
  BY <1>2, <1>3, FS_RemoveElement
<1>5. /\ IsFiniteSet(Front(F, i))
      /\ Cardinality(Front(F, i)) <= Cardinality(Front(F, j) \ {i})
  BY <1>2, <1>4, FS_Subset
<1>6. Cardinality(Front(F, i)) \in Nat /\ Cardinality(Front(F, j)) \in Nat
  BY <1>3, <1>5, FS_CardinalityType
<1>7. QED
  BY <1>4, <1>5, <1>6

\* The places of the rows of F are 1, 2, 3 ... without a gap.
LEMMA PlacesFilled ==
  ASSUME StoreInv, NEW F \in SUBSET Live
  PROVE  /\ IsFiniteSet(F) /\ Cardinality(F) \in Nat
         /\ \A id \in F : Placed(F)[id] \in 1 .. Cardinality(F)
         /\ \A i, j \in F : Placed(F)[i] = Placed(F)[j] => i = j
         /\ \A n \in 1 .. Cardinality(F) : \E id \in F : Placed(F)[id] = n
<1> DEFINE N == Cardinality(F)
           f == Placed(F)
<1>1. IsFiniteSet(F) /\ N \in Nat
  BY LiveFinite, FS_Subset, FS_CardinalityType
<1>2. ASSUME NEW id \in F
      PROVE  f[id] \in 1 .. N /\ Cardinality(Front(F, id)) \in Nat
  <2>1. Front(F, id) \in SUBSET (F \ {id})
    BY BeforeOrder DEF Front
  <2>2. IsFiniteSet(F \ {id}) /\ Cardinality(F \ {id}) = N - 1
    BY <1>1, FS_RemoveElement
  <2>3. IsFiniteSet(Front(F, id)) /\ Cardinality(Front(F, id)) <= N - 1
    BY <2>1, <2>2, FS_Subset
  <2>4. Cardinality(Front(F, id)) \in Nat
    BY <2>3, FS_CardinalityType
  <2>5. QED
    BY <1>1, <2>3, <2>4 DEF Placed
<1>3. ASSUME NEW i \in F, NEW j \in F, f[i] = f[j]
      PROVE  i = j
  <2>1. Cardinality(Front(F, i)) = Cardinality(Front(F, j))
    BY <1>2, <1>3 DEF Placed
  <2>2. ~Before(i, j) /\ ~Before(j, i)
    BY <1>2, <2>1, FrontGrows
  <2>3. QED
    BY <2>2, BeforeOrder
<1>4. f \in Injection(F, 1 .. N)
  BY <1>2, <1>3 DEF Placed, Injection, IsInjective
<1>5. IsFiniteSet(1 .. N) /\ Cardinality(1 .. N) = N
  BY <1>1, FS_Interval
<1>6. f \in Surjection(F, 1 .. N)
  BY <1>4, <1>5, FS_Injection
<1>7. QED
  BY <1>1, <1>2, <1>3, <1>6 DEF Surjection

\* An order of F: a sequence of its rows in which each comes before the next.
Order(F, s) ==
  /\ s \in [1 .. Cardinality(F) -> F]
  /\ \A m, n \in 1 .. Cardinality(F) : m < n => Before(s[m], s[n])

\* In an order, each row is at its place.
LEMMA OrderPlaces ==
  ASSUME StoreInv, NEW F \in SUBSET Live, NEW s, Order(F, s), NEW n \in 1 .. Cardinality(F)
  PROVE  Placed(F)[s[n]] = n
<1> DEFINE N == Cardinality(F)
           A == 1 .. n - 1
           g == [m \in A |-> s[m]]
<1>1. IsFiniteSet(F) /\ N \in Nat /\ n \in Nat /\ n - 1 \in Nat /\ A \subseteq 1 .. N
  BY PlacesFilled
<1>2. s \in [1 .. N -> F] /\ \A i, j \in 1 .. N : i < j => Before(s[i], s[j])
  BY DEF Order
<1>3. \A i \in 1 .. N : s[i] \in F /\ s[i] \in Live
  BY <1>2
<1>4. \A i, j \in 1 .. N : s[i] = s[j] => i = j
  BY <1>1, <1>2, <1>3, BeforeOrder
<1>5. s \in Surjection(1 .. N, F)
  <2>1. s \in Injection(1 .. N, F)
    BY <1>2, <1>4 DEF Injection, IsInjective
  <2>2. Cardinality(1 .. N) = N
    BY <1>1, FS_Interval
  <2>3. QED
    BY <1>1, <2>1, <2>2, FS_Injection
<1>6. ASSUME NEW i \in 1 .. N
      PROVE  Before(s[i], s[n]) <=> i < n
  <2>1. CASE i < n
    BY <1>2, <2>1
  <2>2. CASE i = n
    BY <1>3, <2>2, BeforeOrder
  <2>3. CASE n < i
    <3>1. Before(s[n], s[i])
      BY <1>2, <2>3
    <3>2. Before(s[i], s[n]) => Before(s[i], s[i])
      BY <1>3, <3>1, BeforeOrder
    <3>3. QED
      BY <1>3, <2>3, <3>2, BeforeOrder
  <2>4. QED
    BY <1>1, <2>1, <2>2, <2>3
<1>7. \A m \in A : g[m] = s[m] /\ m \in 1 .. N /\ m < n
  BY <1>1
<1>8. g \in Bijection(A, Front(F, s[n]))
  <2>1. \A m \in A : g[m] \in Front(F, s[n])
    BY <1>3, <1>6, <1>7 DEF Front
  <2>2. \A i, j \in A : g[i] = g[j] => i = j
    BY <1>4, <1>7
  <2>3. ASSUME NEW x \in Front(F, s[n])
        PROVE  \E m \in A : g[m] = x
    <3>1. PICK m \in 1 .. N : s[m] = x
      BY <1>5 DEF Surjection, Front
    <3>2. m < n
      BY <1>6, <3>1 DEF Front
    <3>3. m \in A
      BY <1>1, <3>2
    <3>4. QED
      BY <3>1, <3>3
  <2>4. g \in [A -> Front(F, s[n])]
    BY <2>1
  <2> HIDE DEF g, A
  <2>5. g \in Injection(A, Front(F, s[n]))
    BY <2>2, <2>4 DEF Injection, IsInjective
  <2>6. g \in Surjection(A, Front(F, s[n]))
    BY <2>3, <2>4 DEF Surjection
  <2>7. QED
    BY <2>5, <2>6 DEF Bijection
<1>9. IsFiniteSet(A) /\ Cardinality(A) = n - 1
  <2>1. 1 \in Int /\ n - 1 \in Int /\ n >= 1
    BY <1>1
  <2>2. IsFiniteSet(A) /\ Cardinality(A) = IF 1 > n - 1 THEN 0 ELSE (n - 1) - 1 + 1
    BY <2>1, FS_Interval
  <2>3. QED
    BY <2>1, <2>2
<1>10. Cardinality(Front(F, s[n])) = n - 1
  <2>1. ExistsBijection(A, Front(F, s[n]))
    BY <1>8 DEF ExistsBijection
  <2>2. QED
    BY <1>9, <2>1, FS_Bijection
<1>11. QED
  BY <1>1, <1>3, <1>10 DEF Placed

\* So there is one order, the one that puts each row at its place.
LEMMA OneOrder ==
  ASSUME StoreInv, NEW F \in SUBSET Live
  PROVE  \E s : Order(F, s) /\ \A t : Order(F, t) => t = s
<1> DEFINE N == Cardinality(F)
           s == [n \in 1 .. N |-> CHOOSE id \in F : Placed(F)[id] = n]
<1>1. ASSUME NEW n \in 1 .. N
      PROVE  s[n] \in F /\ Placed(F)[s[n]] = n
  <2>1. \E id \in F : Placed(F)[id] = n
    BY PlacesFilled
  <2>2. QED
    BY <2>1
<1>2. s \in [1 .. N -> F]
  BY <1>1
<1>3. ASSUME NEW m \in 1 .. N, NEW n \in 1 .. N, m < n
      PROVE  Before(s[m], s[n])
  <2> DEFINE x == s[m]
             y == s[n]
  <2>1. /\ x \in F /\ y \in F /\ Placed(F)[x] = m /\ Placed(F)[y] = n
    BY <1>1
  <2> HIDE DEF x, y
  <2>2. m \in Int /\ n \in Int /\ x # y
    BY <1>3, <2>1, PlacesFilled
  <2>3. ~Before(y, x)
    <3> SUFFICES ASSUME Before(y, x) PROVE FALSE
      OBVIOUS
    <3>1. Cardinality(Front(F, y)) < Cardinality(Front(F, x))
      BY <2>1, FrontGrows
    <3>2. Cardinality(Front(F, y)) + 1 = n /\ Cardinality(Front(F, x)) + 1 = m
      BY <2>1 DEF Placed
    <3>3. IsFiniteSet(Front(F, y)) /\ IsFiniteSet(Front(F, x))
      BY PlacesFilled, FS_Subset DEF Front
    <3>4. Cardinality(Front(F, y)) \in Nat /\ Cardinality(Front(F, x)) \in Nat
      BY <3>3, FS_CardinalityType
    <3>5. QED
      BY <1>3, <2>2, <3>1, <3>2, <3>4
  <2>4. QED
    BY <2>1, <2>2, <2>3, BeforeOrder DEF x, y
<1> HIDE DEF s
<1>4. Order(F, s)
  BY <1>2, <1>3 DEF Order
<1>5. ASSUME NEW t, Order(F, t)
      PROVE  t = s
  <2>1. t \in [1 .. N -> F]
    BY <1>5 DEF Order
  <2>2. ASSUME NEW n \in 1 .. N
        PROVE  t[n] = s[n]
    <3>1. Placed(F)[t[n]] = n /\ Placed(F)[s[n]] = n
      BY <1>4, <1>5, OrderPlaces
    <3>2. t[n] \in F /\ s[n] \in F
      BY <1>2, <2>1
    <3>3. QED
      BY <3>1, <3>2, PlacesFilled
  <2>3. \A n \in 1 .. N : t[n] = s[n]
    BY <2>2
  <2> HIDE DEF N
  <2>4. t = [n \in 1 .. N |-> t[n]] /\ s = [n \in 1 .. N |-> s[n]]
    BY <1>2, <2>1
  <2>5. QED
    BY <2>3, <2>4
<1>6. QED
  BY <1>4, <1>5

\* A search has one answer.
LEMMA StoreListing == StoreInv => OneListing
<1> SUFFICES ASSUME StoreInv, NEW q \in Queries
             PROVE  \E s \in Listings(q) : Listings(q) = {s}
  BY DEF OneListing
<1> DEFINE F == Found(q)
<1>1. F \in SUBSET Live
  BY DEF Found, Window
<1>2. \A s : s \in Listings(q) <=> Order(F, s)
  BY DEF Listings, Order
<1>3. PICK s : Order(F, s) /\ \A t : Order(F, t) => t = s
  BY <1>1, OneOrder
<1> HIDE DEF F
<1>4. QED
  BY <1>2, <1>3
=============================================================================
