------------------------- MODULE AtomicServiceProofs -------------------------
(***************************************************************************)
(* The properties of the atomic service, for every set of ids, payloads,   *)
(* connections and requests, and every window size. Module Daemon          *)
(* implements this service, so they are what a client can rely on.         *)
(***************************************************************************)
EXTENDS AtomicService, RepositoryProofs

\* TypeOK alone is not inductive for the order of the rows; with the
\* invariants of the table it is.
IInv == TypeOK /\ StoreInv

\* Storing an answer keeps the calls well formed.
LEMMA AnswerType ==
  ASSUME TypeOK, NEW c \in Conns, NEW x \in Response, Answer(c, x)
  PROVE  call' \in [Conns -> Calls]
BY DEF TypeOK, Answer, Calls, Done

\* The request in progress is a request.
LEMMA PendingType ==
  ASSUME TypeOK, NEW c \in Conns, call[c].st = "pending"
  PROVE  call[c].req \in Request
BY DEF TypeOK, Calls

\* A request on one item names an id, and the value it sets is a Boolean.
LEMMA RequestFields ==
  ASSUME NEW r \in Request
  PROVE  /\ r.op \in {"restore", "delete", "pin", "favorite"} => r.id \in Ids
         /\ r.op \in {"pin", "favorite"} => r.value \in BOOLEAN
BY DEF Request

\* The answers are responses.
LEMMA ResponseType ==
  /\ Ok \in Response
  /\ \A b \in BOOLEAN : Captured(b) \in Response
  /\ \A s \in Seq(Item) : Items(s) \in Response
  /\ \A e \in Errors : Err(e) \in Response
BY DEF Response, Ok, Captured, Items, Err

\* Every statement keeps IInv: the effect of each service step.
LEMMA ServeInv ==
  ASSUME IInv, NEW c \in Conns, Serve(c)
  PROVE  IInv'
<1> USE DEF IInv
<1>1. CASE Capture(c)
  <2>1. CASE Answer(c, Captured(FALSE)) /\ UNCHANGED store
    BY <2>1, AnswerType, ResponseType, SameInv DEF TypeOK, StoreInv
  <2>2. CASE \E p \in Readable : ~IsEmpty(p) /\ Upsert(p) /\ Answer(c, Captured(TRUE))
    BY <2>2, AnswerType, ResponseType, UpsertInv DEF TypeOK, StoreInv, Readable, Content
  <2>3. QED
    BY <1>1, <2>1, <2>2 DEF Capture
<1>2. CASE Search(c)
  <2>1. PICK s \in Listings(call[c].req.query) :
             Answer(c, Items([n \in DOMAIN s |-> ItemOf(s[n])]))
    BY <1>2 DEF Search
  <2>2. Items([n \in DOMAIN s |-> ItemOf(s[n])]) \in Response
    BY ListingType, ResponseType DEF TypeOK
  <2>3. QED
    BY <1>2, <2>1, <2>2, AnswerType, SameInv DEF Search, TypeOK, StoreInv
<1>3. CASE Restore(c)
  <2>1. call[c].req.id \in Ids
    BY <1>3, PendingType, RequestFields DEF Restore, Asked
  <2>2. StoreInv'
    BY <1>3, <2>1, UpdateInv DEF Restore
  <2>3. QED
    BY <1>3, <2>2, AnswerType, ResponseType DEF Restore, TypeOK, StoreInv
<1>4. CASE Delete(c)
  <2>1. call[c].req.id \in Ids
    BY <1>4, PendingType, RequestFields DEF Delete, Asked
  <2>2. StoreInv'
    BY <1>4, <2>1, UpdateInv DEF Delete
  <2>3. QED
    BY <1>4, <2>2, AnswerType, ResponseType DEF Delete, TypeOK, StoreInv
<1>5. CASE Pin(c)
  <2>1. call[c].req.id \in Ids /\ call[c].req.value \in BOOLEAN
    BY <1>5, PendingType, RequestFields DEF Pin, Asked
  <2>2. StoreInv'
    BY <1>5, <2>1, UpdateInv DEF Pin
  <2>3. QED
    BY <1>5, <2>2, AnswerType, ResponseType DEF Pin, TypeOK, StoreInv
<1>6. CASE Favorite(c)
  <2>1. call[c].req.id \in Ids /\ call[c].req.value \in BOOLEAN
    BY <1>6, PendingType, RequestFields DEF Favorite, Asked
  <2>2. StoreInv'
    BY <1>6, <2>1, UpdateInv DEF Favorite
  <2>3. QED
    BY <1>6, <2>2, AnswerType, ResponseType DEF Favorite, TypeOK, StoreInv
<1>7. CASE Fail(c)
  <2>1. PICK e \in Errors : Answer(c, Err(e))
    BY <1>7 DEF Fail, Failures
  <2>2. QED
    BY <1>7, <2>1, AnswerType, ResponseType, SameInv DEF Fail, TypeOK, StoreInv
<1>8. QED
  BY <1>1, <1>2, <1>3, <1>4, <1>5, <1>6, <1>7 DEF Serve

\* Every step of the service keeps IInv.
LEMMA NextInv == IInv /\ [Next]_vars => IInv'
<1> SUFFICES ASSUME IInv, [Next]_vars PROVE IInv'
  OBVIOUS
<1>1. CASE UNCHANGED vars
  BY <1>1, SameInv DEF IInv, TypeOK, StoreInv, vars, store
<1>2. ASSUME NEW c \in Conns, Invoke(c)
      PROVE  IInv'
  <2>1. call' \in [Conns -> Calls]
    BY <1>2, ServiceAssumption DEF Invoke, IInv, TypeOK, Calls, Pending, ServiceAssumption
  <2>2. QED
    BY <1>2, <2>1, SameInv DEF Invoke, IInv, TypeOK, StoreInv
<1>3. CASE Drop
  <2>1. call' \in [Conns -> Calls]
    BY <1>3 DEF Drop, IInv, TypeOK, Calls, Idle
  <2>2. QED
    BY <1>3, <2>1, SameInv DEF Drop, IInv, TypeOK, StoreInv
<1>4. QED
  BY <1>1, <1>2, <1>3, ServeInv DEF Next

\* The inductive invariant of the atomic service.
THEOREM Inductive == Spec => []IInv
<1>1. Init => IInv
  BY InitInv DEF Init, IInv, TypeOK, StoreInv, Calls, Idle
<1>2. QED
  BY <1>1, NextInv, PTL DEF Spec

\* The table and the calls are always well formed.
THEOREM TypeCorrect == Spec => []TypeOK
<1>1. IInv => TypeOK
  BY DEF IInv
<1>2. QED
  BY <1>1, Inductive, PTL

\* No two rows ever hold the same content, however captures, restores and
\* deletes of any number of clients are interleaved.
THEOREM HashesUnique == Spec => []UniqueHash
<1>1. IInv => UniqueHash
  BY DEF IInv, StoreInv
<1>2. QED
  BY <1>1, Inductive, PTL

\* No two rows ever have the same rank, whoever uses them and in what order.
THEOREM RanksDistinct == Spec => []RankedOnce
<1>1. IInv => RankedOnce
  BY DEF IInv, StoreInv
<1>2. QED
  BY <1>1, Inductive, PTL

\* A search has one answer, whatever the marks and the past of the table: the
\* rows it finds can be put in the order of rank_items in one way.
THEOREM ListingUnique == Spec => []OneListing
<1>1. IInv => OneListing
  BY StoreListing DEF IInv
<1>2. QED
  BY <1>1, Inductive, PTL

-----------------------------------------------------------------------------
(***************************************************************************)
(* What a step does to one row.                                            *)
(***************************************************************************)
\* A pending pin or favorite request is the record the property names.
LEMMA MarkRequest ==
  ASSUME TypeOK, NEW c \in Conns, NEW op \in {"pin", "favorite"}, Asked(c, op)
  PROVE  MarkRequested(call[c].req.id, op, call[c].req.value)
<1>1. call[c] = Pending(call[c].req)
  BY DEF TypeOK, Calls, Asked, Pending
<1>2. call[c].req = [op |-> op, id |-> call[c].req.id, value |-> call[c].req.value]
  BY PendingType DEF Asked, Request
<1>3. QED
  BY <1>1, <1>2 DEF MarkRequested

\* A step of the service keeps the content and the marks of a stored row, up to
\* the mark it was asked to set.
LEMMA ServeKeepsMarks ==
  ASSUME IInv, NEW c \in Conns, Serve(c), NEW id \in Ids, Stored(id)
  PROVE  KeepsMarks(id)
<1> USE DEF IInv
<1>0. StoreType
  BY DEF TypeOK
<1>1. CASE UNCHANGED store
  BY <1>1 DEF store, KeepsMarks, Stored
<1>2. CASE \E p \in Readable : ~IsEmpty(p) /\ Upsert(p)
  <2>1. PICK p \in Content : Upsert(p)
    BY <1>2 DEF Readable, Content
  <2>2. PICK up \in Ids :
             /\ rows'[up].payload = p /\ Stored(up)'
             /\ Stored(up) => /\ rows[up].payload = p
                              /\ rows'[up].pinned = rows[up].pinned
                              /\ rows'[up].favorite = rows[up].favorite
             /\ \A j \in Ids : j # up => rows'[j] = rows[j]
    BY <1>0, <2>1, UpsertRows
  <2>3. QED
    BY <2>2 DEF KeepsMarks, Stored
<1>3. CASE Restore(c)
  BY <1>0, <1>3 DEF Restore, MarkUsed, KeepsMarks, Stored
<1>4. CASE Delete(c) \/ Pin(c) \/ Favorite(c)
  <2> DEFINE r == call[c].req
  <2>1. r.id \in Ids /\ Stored(r.id)
    BY <1>4, PendingType, RequestFields DEF Delete, Pin, Favorite, Asked
  <2>2. CASE id # r.id
    <3>1. rows'[id] = rows[id]
      BY <1>0, <1>4, <2>1, <2>2 DEF StoreType, Delete, Pin, Favorite, SoftDelete, SetPinned, SetFavorite
    <3>2. QED
      BY <3>1 DEF KeepsMarks, Stored
  <2>3. CASE id = r.id /\ Delete(c)
    BY <1>0, <2>1, <2>3, UpdateRows, UpdateMarks DEF Delete, KeepsMarks
  <2>4. CASE id = r.id /\ Pin(c)
    <3>1. r.value \in BOOLEAN /\ SetPinned(id, r.value) /\ Asked(c, "pin")
      BY <2>4, PendingType, RequestFields DEF Pin, Asked
    <3>2. MarkRequested(id, "pin", r.value)
      BY <2>4, <3>1, MarkRequest
    <3>3. QED
      BY <1>0, <3>1, <3>2, UpdateRows, UpdateMarks DEF KeepsMarks
  <2>5. CASE id = r.id /\ Favorite(c)
    <3>1. r.value \in BOOLEAN /\ SetFavorite(id, r.value) /\ Asked(c, "favorite")
      BY <2>5, PendingType, RequestFields DEF Favorite, Asked
    <3>2. MarkRequested(id, "favorite", r.value)
      BY <2>5, <3>1, MarkRequest
    <3>3. QED
      BY <1>0, <3>1, <3>2, UpdateRows, UpdateMarks DEF KeepsMarks
  <2>6. QED
    BY <1>4, <2>2, <2>3, <2>4, <2>5
<1>5. QED
  BY <1>1, <1>2, <1>3, <1>4 DEF Serve, Capture, Search, Fail

\* A step of the service that undeletes a row answers a capture of it.
LEMMA ServeUndeletes ==
  ASSUME IInv, NEW c \in Conns, Serve(c), NEW id \in Ids, Stored(id),
         rows[id].deleted, ~rows'[id].deleted
  PROVE  CameBack(id)
<1> USE DEF IInv
<1>0. StoreType
  BY DEF TypeOK
<1>1. CASE Capture(c)
  <2>1. PICK p \in Readable : ~IsEmpty(p) /\ Upsert(p) /\ Answer(c, Captured(TRUE))
    BY <1>1 DEF Capture, store
  <2>2. PICK up \in Ids : Touch(up) /\ \A j \in Ids : j # up => rows'[j] = rows[j]
    BY <1>0, <2>1, UpsertRows DEF Readable, Content
  <2>3. id = up
    BY <2>2
  <2>4. lastUsed'[id] = 1
    BY <2>2, <2>3 DEF Touch
  <2>5. call'[c] = Done(Captured(TRUE))
    BY <2>1 DEF Answer, TypeOK
  <2>6. QED
    BY <1>1, <2>4, <2>5 DEF CameBack, Capture
<1>2. CASE Delete(c) \/ Pin(c) \/ Favorite(c)
  <2> DEFINE r == call[c].req
  <2>1. r.id \in Ids /\ Stored(r.id)
    BY <1>2, PendingType, RequestFields DEF Delete, Pin, Favorite, Asked
  <2>2. CASE id # r.id
    BY <1>0, <1>2, <2>1, <2>2 DEF StoreType, Delete, Pin, Favorite, SoftDelete, SetPinned, SetFavorite
  <2>3. CASE id = r.id /\ Delete(c)
    BY <1>0, <2>1, <2>3, UpdateMarks DEF Delete
  <2>4. CASE id = r.id /\ (Pin(c) \/ Favorite(c))
    <3>1. r.value \in BOOLEAN /\ (SetPinned(id, r.value) \/ SetFavorite(id, r.value))
      BY <2>4, PendingType, RequestFields DEF Pin, Favorite, Asked
    <3>2. QED
      BY <1>0, <3>1, UpdateMarks
  <2>5. QED
    BY <1>2, <2>2, <2>3, <2>4
<1>3. QED
  BY <1>1, <1>2 DEF Serve, Search, Restore, MarkUsed, Fail, store

\* Content is for good, and the marks of an item survive everything but the
\* request to change them.
THEOREM MarksKept == Spec => MarksOnlyByRequest
<1>1. IInv /\ [Next]_vars => [\A id \in Ids : Stored(id) => KeepsMarks(id)]_vars
  <2> SUFFICES ASSUME IInv, Next, NEW id \in Ids, Stored(id) PROVE KeepsMarks(id)
    OBVIOUS
  <2>1. CASE UNCHANGED store
    BY <2>1 DEF store, KeepsMarks, Stored
  <2>2. QED
    BY <2>1, ServeKeepsMarks DEF Next, Invoke, Drop
<1>2. QED
  BY <1>1, Inductive, PTL DEF Spec, MarksOnlyByRequest

\* A deleted item comes back only with a capture that saw it on the clipboard.
THEOREM UndeletedByCapture == Spec => UndeletedOnlyByCapture
<1>1. IInv /\ [Next]_vars =>
        [\A id \in Ids : Stored(id) /\ rows[id].deleted /\ ~rows'[id].deleted => CameBack(id)]_vars
  <2> SUFFICES ASSUME IInv, Next, NEW id \in Ids, Stored(id), rows[id].deleted, ~rows'[id].deleted
               PROVE  CameBack(id)
    OBVIOUS
  <2>1. QED
    BY ServeUndeletes DEF Next, Invoke, Drop, store
<1>2. QED
  BY <1>1, Inductive, PTL DEF Spec, UndeletedOnlyByCapture
-----------------------------------------------------------------------------
(***************************************************************************)
(* What a listing shows.                                                   *)
(***************************************************************************)
\* Only a search is answered with items, those of one of its listings.
LEMMA ItemsFromSearch ==
  ASSUME TypeOK, Next, NEW c \in Conns,
         call[c].st = "pending", call'[c].st = "done", call'[c].res.type = "Items"
  PROVE  \E s \in Listings(call[c].req.query) :
           call'[c].res = Items([n \in DOMAIN s |-> ItemOf(s[n])]) /\ UNCHANGED store
<1>1. ASSUME NEW d \in Conns, NEW x, Answer(d, x)
      PROVE  call'[d].res = x /\ (d # c => call'[c] = call[c])
  BY <1>1 DEF Answer, Done, TypeOK
<1>2. ASSUME NEW d \in Conns, Serve(d)
      PROVE  Search(c)
  <2>1. PICK x : Answer(d, x)
    BY <1>2 DEF Serve, Capture, Search, Restore, Delete, Pin, Favorite, Fail
  <2>2. d = c
    <3>1. call'[c] # call[c]
      OBVIOUS
    <3>2. QED
      BY <1>1, <2>1, <3>1, Zenon
  <2>3. ASSUME NEW y, Answer(c, y) PROVE y.type = "Items"
    <3>1. call'[c].res = y
      BY <1>1, <2>3, Zenon
    <3>2. QED
      BY <3>1
  <2>4. ~(Capture(c) \/ Restore(c) \/ Delete(c) \/ Pin(c) \/ Favorite(c) \/ Fail(c))
    <3>1. /\ Ok.type # "Items"
          /\ \A b : Captured(b).type # "Items"
          /\ \A e : Err(e).type # "Items"
      BY DEF Ok, Captured, Err
    <3>2. ~Answer(c, Ok) /\ (\A b : ~Answer(c, Captured(b))) /\ (\A e : ~Answer(c, Err(e)))
      BY <2>3, <3>1, Zenon
    <3>3. QED
      BY <3>2, Zenon DEF Capture, Restore, Delete, Pin, Favorite, Fail
  <2>5. QED
    BY <1>2, <2>2, <2>4 DEF Serve
<1>3. ASSUME NEW d \in Conns, Invoke(d) PROVE FALSE
  BY <1>3 DEF Invoke, Idle, Pending, TypeOK
<1>4. ~Drop
  BY DEF Drop, Idle
<1>5. Search(c)
  BY <1>2, <1>3, <1>4 DEF Next
<1>6. PICK s \in Listings(call[c].req.query) : Answer(c, Items([n \in DOMAIN s |-> ItemOf(s[n])]))
  BY <1>5 DEF Search
<1>7. call'[c].res = Items([n \in DOMAIN s |-> ItemOf(s[n])])
  BY <1>1, <1>6, Zenon
<1>8. QED
  BY <1>5, <1>7 DEF Search

\* A listing is the history as it was when it was answered, for any window
\* size: live rows only, none twice, none left out that fits, pinned ones first.
THEOREM ListingsAreHonest == Spec => ListingsHonest
<1> DEFINE Honest(c, t) ==
      /\ Len(t) <= SearchLimit
      /\ \A m, n \in DOMAIN t :
           /\ t[m].id = t[n].id => m = n
           /\ t[n].pinned /\ m < n => t[m].pinned
      /\ \A n \in DOMAIN t : t[n].id \in Live /\ t[n] = ItemOf(t[n].id)
      /\ call[c].req.query = NoQuery /\ Len(t) < SearchLimit =>
           \A id \in Live : \E n \in DOMAIN t : t[n].id = id
<1>1. ASSUME IInv, Next, NEW c \in Conns,
             call[c].st = "pending", call'[c].st = "done", call'[c].res.type = "Items"
      PROVE  Honest(c, call'[c].res.items)
  <2>1. PICK s \in Listings(call[c].req.query) :
               call'[c].res = Items([n \in DOMAIN s |-> ItemOf(s[n])])
    BY <1>1, ItemsFromSearch DEF IInv
  <2> DEFINE N == Cardinality(Found(call[c].req.query))
             t == [n \in DOMAIN s |-> ItemOf(s[n])]
  <2>2. /\ N \in Nat /\ N <= SearchLimit /\ DOMAIN s = 1 .. N
        /\ \A n \in 1 .. N : s[n] \in Live
        /\ \A m, n \in 1 .. N : s[m] = s[n] => m = n
        /\ \A m, n \in 1 .. N : rows[s[n]].pinned /\ m < n => rows[s[m]].pinned
        /\ call[c].req.query = NoQuery /\ N < SearchLimit =>
             \A id \in Live : \E n \in 1 .. N : s[n] = id
    BY <1>1, ListingSound DEF IInv
  <2>3. /\ DOMAIN t = 1 .. N /\ Len(t) = N
        /\ \A n \in 1 .. N : t[n] = ItemOf(s[n]) /\ t[n].id = s[n] /\ t[n].pinned = rows[s[n]].pinned
    BY <2>2 DEF ItemOf
  <2>4. call'[c].res.items = t
    BY <2>1 DEF Items
  <2> HIDE DEF t, N
  <2>5. QED
    BY <2>2, <2>3, <2>4
<1>2. IInv /\ [Next]_vars =>
        [\A c \in Conns : call[c].st = "pending" /\ call'[c].st = "done" /\ call'[c].res.type = "Items"
           => Honest(c, call'[c].res.items)]_vars
  BY <1>1
<1>3. QED
  BY <1>2, Inductive, PTL DEF Spec, ListingsHonest
=============================================================================
