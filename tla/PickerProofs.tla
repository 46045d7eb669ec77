----------------------------- MODULE PickerProofs ----------------------------
(***************************************************************************)
(* The picker, for any history, any number of threads and any keys: it is  *)
(* a client of the atomic service, its requests never name an unknown item *)
(* and its selection is always on a row.                                   *)
(***************************************************************************)
EXTENDS Picker, AtomicServiceProofs, SequenceTheorems

-----------------------------------------------------------------------------
(***************************************************************************)
(* The picker's steps as steps of the service.                             *)
(***************************************************************************)
\* What the window does leaves the service alone; what a thread does is an
\* arrival, a loss or nothing; what the daemon does is a step of the service.
LEMMA StepServes ==
  ASSUME IInv, PickerNext
  PROVE  [Next]_vars
<1>1. CASE User
  BY <1>1 DEF User, Open, Close, Type, Start, MoveUp, MoveDown, SelectRow, RestoreSelected, Press,
              DeleteSelected, TogglePin, ToggleFavorite
<1>2. CASE Receiver
  BY <1>2 DEF Receiver, Read, SearchFinished, SearchFailed, RestoreFinished, DeleteFinished,
              PinFinished, FavoriteFinished, ActionFailed
<1>3. ASSUME NEW c \in Conns, Thread(c)
      PROVE  [Next]_vars
  <2>1. CASE SendRequest(c)
    BY <2>1 DEF SendRequest, Next
  <2>2. CASE Refused(c)
    BY <2>2 DEF Refused, Finish, vars, store
  <2>3. CASE call[c] # Idle /\ call' = [call EXCEPT ![c] = Idle] /\ UNCHANGED store
    <3>1. call' = [d \in Conns |-> IF d \in {c} THEN Idle ELSE call[d]]
      BY <2>3 DEF IInv, TypeOK
    <3>2. {c} \in SUBSET Conns /\ \E d \in {c} : call[d] # Idle
      BY <2>3
    <3>3. QED
      BY <2>3, <3>1, <3>2 DEF Drop, Next
  <2>4. QED
    BY <1>3, <2>1, <2>2, <2>3 DEF Thread, Respond, Disconnect, Discard, Finish, Idle
<1>4. ASSUME NEW c \in Conns, Served(c)
      PROVE  [Next]_vars
  BY <1>4 DEF Served, Next
<1>5. QED
  BY <1>1, <1>2, <1>3, <1>4 DEF PickerNext

\* The picker uses the service as its clients may: whatever holds of the
\* service holds under the picker.
THEOREM PickerServes == PickerSpec => Spec
<1>1. PickerInit => Init /\ IInv
  BY InitInv DEF PickerInit, Init, IInv, TypeOK, StoreInv, Calls, Idle
<1>2. IInv /\ [PickerNext]_pvars => [Next]_vars
  BY StepServes DEF pvars
<1>3. IInv /\ [PickerNext]_pvars => IInv'
  BY <1>2, NextInv
<1>4. QED
  BY <1>1, <1>2, <1>3, PTL DEF PickerSpec, Spec

-----------------------------------------------------------------------------
(***************************************************************************)
(* Rows and ids stay.                                                      *)
(***************************************************************************)
\* A row, once there, is there for good.
LEMMA StoredKept ==
  ASSUME IInv, [Next]_vars, NEW id \in Ids, Stored(id)
  PROVE  Stored(id)'
<1>1. CASE UNCHANGED store
  BY <1>1 DEF store, Stored
<1>2. ASSUME NEW c \in Conns, Serve(c)
      PROVE  Stored(id)'
  BY <1>2, ServeKeepsMarks DEF KeepsMarks
<1>3. QED
  BY <1>1, <1>2 DEF Next, Invoke, Drop, vars, store

\* Known requests and responses stay known.
LEMMA KnownKept ==
  ASSUME IInv, [Next]_vars
  PROVE  /\ \A r \in Request : KnownRequest(r) => KnownRequest(r)'
         /\ \A x \in Response \cup {Lost} : KnownResponse(x) => KnownResponse(x)'
<1>1. ASSUME NEW r \in Request, KnownRequest(r)
      PROVE  KnownRequest(r)'
  BY <1>1, StoredKept, RequestFields DEF KnownRequest
<1>2. ASSUME NEW x \in Response \cup {Lost}, KnownResponse(x)
      PROVE  KnownResponse(x)'
  <2>1. ASSUME x.type = "Items", NEW n \in DOMAIN x.items
        PROVE  Stored(x.items[n].id)'
    <3>1. x.items \in Seq(Item)
      BY <2>1 DEF Response, Lost
    <3>2. x.items[n] \in Item
      BY <2>1, <3>1, LenProperties
    <3>3. x.items[n].id \in Ids
      BY <3>2 DEF Item
    <3>4. QED
      BY <1>2, <2>1, <3>3, StoredKept DEF KnownResponse
  <2>2. QED
    BY <1>2, <2>1 DEF KnownResponse
<1>3. QED
  BY <1>1, <1>2

-----------------------------------------------------------------------------
(***************************************************************************)
(* Sequences.                                                              *)
(***************************************************************************)
\* The head and the rest of a sequence that is not empty.
LEMMA HeadTail ==
  ASSUME NEW S, NEW s \in Seq(S), s # << >>
  PROVE  /\ 1 \in DOMAIN s /\ Head(s) = s[1] /\ Head(s) \in S
         /\ Tail(s) \in Seq(S)
         /\ \A n \in DOMAIN Tail(s) : n + 1 \in DOMAIN s /\ Tail(s)[n] = s[n + 1]
<1>1. Len(s) \in Nat \ {0} /\ DOMAIN s = 1 .. Len(s)
  BY EmptySeq, LenProperties
<1>2. QED
  BY <1>1, HeadTailProperties

\* A list without one row has one row less, and only rows it had.
LEMMA WithoutRow ==
  ASSUME items \in Seq(Item), NEW n \in DOMAIN items
  PROVE  /\ Without(n) \in Seq(Item)
         /\ Len(Without(n)) = Len(items) - 1
         /\ \A m \in DOMAIN Without(n) : \E k \in DOMAIN items : Without(n)[m] = items[k]
<1> DEFINE a == SubSeq(items, 1, n - 1)
           b == SubSeq(items, n + 1, Len(items))
<1>1. n \in 1 .. Len(items) /\ Len(items) \in Nat /\ DOMAIN items = 1 .. Len(items)
  BY LenProperties
<1>2. /\ a \in Seq(Item) /\ Len(a) = n - 1
      /\ \A m \in 1 .. n - 1 : a[m] = items[m]
  BY <1>1, SubSeqProperties
<1>3. /\ b \in Seq(Item) /\ Len(b) = Len(items) - n
      /\ \A m \in 1 .. Len(items) - n : b[m] = items[n + m]
  <2>1. CASE n = Len(items)
    BY <1>1, <2>1, SubSeqProperties
  <2>2. CASE n < Len(items)
    BY <1>1, <2>2, SubSeqProperties
  <2>3. QED
    BY <1>1, <2>1, <2>2
<1> HIDE DEF a, b
<1>4. /\ a \o b \in Seq(Item) /\ Len(a \o b) = Len(items) - 1
      /\ \A m \in 1 .. Len(items) - 1 : (a \o b)[m] = IF m <= n - 1 THEN a[m] ELSE b[m - (n - 1)]
  <2>1. /\ a \o b \in Seq(Item) /\ Len(a \o b) = Len(a) + Len(b)
        /\ \A m \in 1 .. Len(a) + Len(b) :
             (a \o b)[m] = IF m <= Len(a) THEN a[m] ELSE b[m - Len(a)]
    BY <1>2, <1>3, ConcatProperties
  <2>2. Len(a) + Len(b) = Len(items) - 1 /\ Len(a) = n - 1
    BY <1>1, <1>2, <1>3
  <2>3. QED
    BY <2>1, <2>2, Zenon
<1> DEFINE w == a \o b
<1>5. /\ w \in Seq(Item) /\ Len(w) = Len(items) - 1
      /\ \A m \in 1 .. Len(items) - 1 : w[m] = IF m <= n - 1 THEN items[m] ELSE items[m + 1]
  <2>1. ASSUME NEW m \in 1 .. Len(items) - 1
        PROVE  w[m] = IF m <= n - 1 THEN items[m] ELSE items[m + 1]
    <3>1. CASE m <= n - 1
      BY <1>1, <1>2, <1>4, <3>1
    <3>2. CASE ~(m <= n - 1)
      <4>1. b[m - (n - 1)] = items[n + (m - (n - 1))]
        BY <1>1, <1>3, <3>2
      <4>2. n + (m - (n - 1)) = m + 1
        BY <1>1
      <4>3. QED
        BY <1>4, <3>2, <4>1, <4>2
    <3>3. QED
      BY <3>1, <3>2
  <2>2. QED
    BY <1>4, <2>1
<1> HIDE DEF w
<1>6. ASSUME NEW m \in DOMAIN w
      PROVE  \E k \in DOMAIN items : w[m] = items[k]
  <2>1. DOMAIN w = 1 .. Len(items) - 1
    BY <1>1, <1>5, LenProperties
  <2>2. m \in DOMAIN items /\ m + 1 \in DOMAIN items
    BY <1>1, <2>1
  <2>3. QED
    BY <1>5, <2>1, <2>2
<1>7. Without(n) = w
  BY DEF Without, a, b, w
<1>8. QED
  BY <1>5, <1>6, <1>7

-----------------------------------------------------------------------------
(***************************************************************************)
(* The calls.                                                              *)
(***************************************************************************)
\* What the service answers to a known request is known, and fits it.
LEMMA ServeKnown ==
  ASSUME IInv, CallsKnown, NEW c \in Conns, Serve(c)
  PROVE  \E x \in Response : Answer(c, x) /\ KnownResponse(x)' /\ Fits(call[c].req, x)
<1>0. KnownResponse(Ok)' /\ \A v \in BOOLEAN : KnownResponse(Captured(v))'
  BY DEF KnownResponse, Ok, Captured, Err
<1>1. CASE Capture(c)
  BY <1>0, <1>1, ResponseType DEF Capture, Asked, Fits
<1>2. CASE Search(c)
  <2>1. PICK s \in Listings(call[c].req.query) :
             Answer(c, Items([n \in DOMAIN s |-> ItemOf(s[n])]))
    BY <1>2 DEF Search
  <2>2. Items([n \in DOMAIN s |-> ItemOf(s[n])]) \in Response
    BY ListingType, ResponseType DEF IInv, TypeOK
  <2>3. PICK x \in Response : x = Items([n \in DOMAIN s |-> ItemOf(s[n])])
    BY <2>2
  <2>4. \A n \in DOMAIN s : Stored(s[n])
    BY <2>1 DEF Listings, Found, Window, Live
  <2>5. /\ x # Err("NotFound")
        /\ \A n \in DOMAIN x.items : Stored(x.items[n].id)
    BY <2>3, <2>4 DEF Items, Err, ItemOf
  <2>6. KnownResponse(x)'
    BY <1>2, <2>5 DEF Search, KnownResponse, Stored, store
  <2>7. Fits(call[c].req, x)
    BY <2>3 DEF Fits, Items
  <2>8. QED
    BY <2>1, <2>3, <2>6, <2>7
<1>3. CASE Restore(c) \/ Delete(c) \/ Pin(c) \/ Favorite(c)
  BY <1>0, <1>3, ResponseType DEF Restore, Delete, Pin, Favorite, Asked, Fits
<1>4. CASE Fail(c)
  <2>1. PICK e \in Failures(call[c].req) : Answer(c, Err(e))
    BY <1>4 DEF Fail
  <2>2. e \in Errors /\ e # "NotFound"
    BY <1>4, <2>1 DEF Fail, Failures, CallsKnown, CallKnown, KnownRequest
  <2>3. KnownResponse(Err(e))'
    BY <2>2 DEF KnownResponse, Err
  <2>4. Fits(call[c].req, Err(e))
    BY DEF Fits, Err
  <2>5. QED
    BY <2>1, <2>2, <2>3, <2>4, ResponseType
<1>5. QED
  BY <1>1, <1>2, <1>3, <1>4 DEF Serve

\* A call that a step does not touch stays known.
LEMMA CallKept ==
  ASSUME IInv, CallsKnown, [Next]_vars, NEW c \in Conns, call'[c] = call[c]
  PROVE  CallKnown(c)'
<1>1. /\ call[c].st = "pending" => call[c].req \in Request
      /\ call[c].st = "done" => call[c].res \in Response
  BY DEF IInv, TypeOK, Calls
<1>2. QED
  BY <1>1, KnownKept DEF CallsKnown, CallKnown, KnownRequest, KnownResponse, Stored

\* No step of the picker makes a call unknown.
LEMMA CallsStep ==
  ASSUME PickerInv, PickerNext
  PROVE  CallsKnown'
<1>1. IInv /\ [Next]_vars
  BY StepServes DEF PickerInv, PickerTypeOK, IInv
<1>2. SUFFICES ASSUME NEW c \in Conns
               PROVE  CallKnown(c)'
  BY DEF CallsKnown
<1>3. CASE call'[c] = call[c]
  BY <1>1, <1>3, CallKept DEF PickerInv
<1>4. CASE call'[c] = Idle
  BY <1>4 DEF Idle, CallKnown
<1>5. CASE SendRequest(c)
  <2>1. work[c] \in Seq(Request) /\ work[c] # << >>
    BY <1>5 DEF SendRequest, Busy, PickerInv, PickerTypeOK
  <2>2. Head(work[c]) \in Request /\ KnownRequest(Head(work[c]))
    BY <2>1, HeadTail DEF PickerInv, WorkKnown
  <2>3. QED
    BY <1>1, <1>5, <2>2, KnownKept DEF SendRequest, Pending, CallKnown, KnownRequest, Stored
<1>6. CASE Served(c)
  <2>1. PICK x \in Response : Answer(c, x) /\ KnownResponse(x)'
    BY <1>1, <1>6, ServeKnown DEF Served, PickerInv
  <2>2. call'[c] = Done(x)
    BY <1>1, <2>1 DEF Answer, IInv, TypeOK
  <2>3. QED
    BY <2>1, <2>2 DEF Done, CallKnown, KnownResponse, Stored
<1>7. call'[c] = call[c] \/ call'[c] = Idle \/ SendRequest(c) \/ Served(c)
  <2>1. CASE User
    BY <2>1 DEF User, Open, Close, Type, Start, MoveUp, MoveDown, SelectRow, RestoreSelected, Press,
                DeleteSelected, TogglePin, ToggleFavorite, vars
  <2>2. CASE Receiver
    BY <2>2 DEF Receiver, Read, SearchFinished, SearchFailed, RestoreFinished, DeleteFinished,
                PinFinished, FavoriteFinished, ActionFailed, vars
  <2>3. ASSUME NEW d \in Conns, Thread(d) \/ Served(d)
        PROVE  call'[c] = call[c] \/ call'[c] = Idle \/ SendRequest(c) \/ Served(c)
    <3>1. CASE d = c
      BY <1>1, <2>3, <3>1
         DEF Thread, Refused, Respond, Disconnect, Discard, IInv, TypeOK
    <3>2. CASE d # c
      <4>1. CASE Thread(d)
        BY <1>1, <3>2, <4>1
           DEF Thread, SendRequest, Invoke, Refused, Respond, Disconnect, Discard, IInv, TypeOK
      <4>2. CASE Served(d)
        <5>1. \E x \in Response : Answer(d, x)
          BY <1>1, <4>2, ServeKnown DEF Served, PickerInv
        <5>2. QED
          BY <1>1, <3>2, <5>1 DEF Answer, IInv, TypeOK
      <4>3. QED
        BY <2>3, <4>1, <4>2
    <3>3. QED
      BY <3>1, <3>2
  <2>4. QED
    BY <2>1, <2>2, <2>3 DEF PickerNext
<1>8. QED
  BY <1>3, <1>4, <1>5, <1>6, <1>7

-----------------------------------------------------------------------------
(***************************************************************************)
(* The list.                                                               *)
(***************************************************************************)
\* What a step has to say of the list and its selection.
ListInv == items \in Seq(Item) /\ sel \in Nat \ {0} /\ SelectionShown /\ ListKnown

\* The oldest message of the channel, and the others.
LEMMA Oldest ==
  ASSUME PickerInv, inbox # << >>
  PROVE  /\ Head(inbox) \in Message
         /\ KnownResponse(Head(inbox).res) /\ Fits(Head(inbox).req, Head(inbox).res)
         /\ Tail(inbox) \in Seq(Message)
         /\ \A n \in DOMAIN Tail(inbox) :
              KnownResponse(Tail(inbox)[n].res) /\ Fits(Tail(inbox)[n].req, Tail(inbox)[n].res)
<1>1. inbox \in Seq(Message) /\ InboxKnown
  BY DEF PickerInv, PickerTypeOK
<1>2. QED
  BY <1>1, HeadTail DEF InboxKnown

\* A list that only loses rows, or none, is as known as before.
LEMMA ListKept ==
  ASSUME PickerInv, PickerNext, items' \in Seq(Item),
         \A m \in DOMAIN items' : \E k \in DOMAIN items : items'[m].id = items[k].id
  PROVE  ListKnown'
<1>1. IInv /\ [Next]_vars
  BY StepServes DEF PickerInv, PickerTypeOK, IInv
<1>2. \A k \in DOMAIN items : items[k].id \in Ids /\ Stored(items[k].id)
  <2>1. items \in Seq(Item)
    BY DEF PickerInv, PickerTypeOK
  <2>2. \A k \in DOMAIN items : items[k] \in Item
    BY <2>1, LenProperties
  <2>3. QED
    BY <2>2 DEF Item, PickerInv, ListKnown
<1>3. \A id \in Ids : Stored(id) => Stored(id)'
  BY <1>1, StoredKept
<1>4. QED
  BY <1>2, <1>3 DEF ListKnown, Stored

\* An empty list is known.
LEMMA ListEmpty ==
  ASSUME items' = << >>, sel' = 1
  PROVE  ListInv'
BY EmptySeq DEF ListInv, SelectionShown, ListKnown

\* The user's steps.
LEMMA UserList ==
  ASSUME PickerInv, PickerNext, User
  PROVE  ListInv'
<1>1. items \in Seq(Item) /\ sel \in Nat \ {0} /\ SelectionShown
  BY DEF PickerInv, PickerTypeOK
<1>2. Len(items) \in Nat /\ DOMAIN items = 1 .. Len(items) /\ (items = << >> <=> Len(items) = 0)
  BY <1>1, LenProperties, EmptySeq
<1>3. CASE UNCHANGED items /\ sel' \in Nat \ {0} /\ (sel' = sel \/ sel' \in DOMAIN items)
  BY <1>1, <1>3, ListKept DEF ListInv, SelectionShown
<1>4. CASE Close
  BY <1>4, ListEmpty DEF Close, Closes
<1>5. CASE MoveUp
  <2>1. sel' \in Nat \ {0} /\ (sel' = sel \/ sel' \in DOMAIN items \/ items = << >>)
    BY <1>1, <1>2, <1>5 DEF MoveUp, SelectionShown
  <2>2. QED
    BY <1>1, <1>5, <2>1, ListKept DEF MoveUp, ListInv, SelectionShown
<1>6. CASE MoveDown
  <2>1. sel' \in Nat \ {0} /\ (sel' = sel \/ sel' \in DOMAIN items)
    BY <1>1, <1>2, <1>6 DEF MoveDown
  <2>2. QED
    BY <1>3, <1>6, <2>1 DEF MoveDown
<1>7. CASE SelectRow
  <2>1. sel' \in DOMAIN items
    BY <1>7 DEF SelectRow
  <2>2. QED
    BY <1>2, <1>3, <1>7, <2>1 DEF SelectRow
<1>8. CASE Open \/ Type \/ RestoreSelected \/ DeleteSelected \/ TogglePin \/ ToggleFavorite
  <2>1. UNCHANGED <<items, sel>>
    BY <1>8 DEF Open, Type, Start, RestoreSelected, Press, DeleteSelected, TogglePin, ToggleFavorite
  <2>2. QED
    BY <1>1, <1>3, <2>1
<1>9. QED
  BY <1>4, <1>5, <1>6, <1>7, <1>8 DEF User

\* The receiver's steps.
LEMMA ReceiverList ==
  ASSUME PickerInv, PickerNext, Receiver
  PROVE  ListInv'
<1>1. items \in Seq(Item) /\ sel \in Nat \ {0} /\ SelectionShown
  BY DEF PickerInv, PickerTypeOK
<1>2. Len(items) \in Nat /\ DOMAIN items = 1 .. Len(items) /\ (items = << >> <=> Len(items) = 0)
  BY <1>1, LenProperties, EmptySeq
<1>3. inbox # << >>
  BY DEF Receiver, Read, SearchFinished, SearchFailed, RestoreFinished, DeleteFinished, PinFinished,
         FavoriteFinished, ActionFailed
<1>4. CASE UNCHANGED <<items, sel>>
  BY <1>1, <1>4, ListKept DEF ListInv, SelectionShown
<1>5. CASE SearchFinished
  <2> DEFINE s == Head(inbox).res.items
  <2>1. items' = s /\ sel' = 1 /\ UNCHANGED store
    BY <1>5 DEF SearchFinished, Read, Show, vars, store
  <2>2. Head(inbox).res.type = "Items"
    BY <1>3, <1>5, Oldest DEF SearchFinished, Read, Succeeded, Failed, Fits
  <2>3. s \in Seq(Item) /\ \A n \in DOMAIN s : Stored(s[n].id)
    BY <1>3, <2>2, Oldest DEF Message, Response, Lost, KnownResponse
  <2>4. s # << >> => 1 \in DOMAIN s
    BY <2>3, HeadTail
  <2>5. QED
    BY <2>1, <2>3, <2>4 DEF ListInv, SelectionShown, ListKnown, Stored, store
<1>6. CASE SearchFailed \/ RestoreFinished
  BY <1>6, ListEmpty DEF SearchFailed, Show, RestoreFinished, Closes
<1>7. CASE DeleteFinished
  <2>1. CASE Show(items, sel)
    BY <1>4, <2>1 DEF Show
  <2>2. ASSUME NEW n \in DOMAIN items,
               Show(Without(n), IF sel < Len(items) \/ sel = 1 THEN sel ELSE Len(items) - 1)
        PROVE  ListInv'
    <3>1. /\ items' \in Seq(Item) /\ Len(items') = Len(items) - 1
          /\ \A m \in DOMAIN items' : \E k \in DOMAIN items : items'[m] = items[k]
      BY <1>1, <2>2, WithoutRow DEF Show
    <3>2. DOMAIN items' = 1 .. Len(items')
      BY <3>1, LenProperties
    <3>3. items' # << >> => Len(items') # 0
      BY <3>1, EmptySeq
    <3>4. sel' = IF sel < Len(items) \/ sel = 1 THEN sel ELSE Len(items) - 1
      BY <2>2 DEF Show
    <3>5. sel' \in Nat \ {0} /\ SelectionShown'
      BY <1>1, <1>2, <3>1, <3>2, <3>3, <3>4 DEF SelectionShown
    <3>6. QED
      BY <3>1, <3>5, ListKept DEF ListInv
  <2>3. QED
    BY <1>7, <2>1, <2>2 DEF DeleteFinished, RemoveById
<1>8. CASE PinFinished \/ FavoriteFinished
  <2>1. /\ sel' = sel
        /\ DOMAIN items' = DOMAIN items
        /\ \A n \in DOMAIN items : items'[n] \in Item /\ items'[n].id = items[n].id
    <3>1. \A n \in DOMAIN items : items[n] \in Item
      BY <1>1, LenProperties
    <3>2. /\ Head(inbox).req \in Request
          /\ Head(inbox).req.op \in {"pin", "favorite"} => Head(inbox).req.value \in BOOLEAN
      BY <1>3, Oldest, RequestFields DEF Message
    <3>3. CASE PinFinished
      BY <3>1, <3>2, <3>3 DEF PinFinished, Read, SetById, Show, Item
    <3>4. CASE FavoriteFinished
      BY <3>1, <3>2, <3>4 DEF FavoriteFinished, Read, SetById, Show, Item
    <3>5. QED
      BY <1>8, <3>3, <3>4
  <2>2. items' \in Seq(Item)
    <3>1. items' = [n \in 1 .. Len(items) |-> items'[n]]
      BY <1>2, <1>8, <2>1 DEF PinFinished, FavoriteFinished, SetById, Show
    <3>2. QED
      BY <1>2, <2>1, <3>1
  <2>3. items' # << >> => items # << >>
    BY <1>1, <1>2, <2>1, <2>2, LenProperties, EmptySeq
  <2>4. QED
    BY <1>1, <2>1, <2>2, <2>3, ListKept DEF ListInv, SelectionShown
<1>9. CASE ActionFailed
  BY <1>4, <1>9 DEF ActionFailed, Show
<1>10. QED
  BY <1>5, <1>6, <1>7, <1>8, <1>9 DEF Receiver

\* Every step.
LEMMA ListStep ==
  ASSUME PickerInv, PickerNext
  PROVE  ListInv'
<1>1. ASSUME NEW c \in Conns, Thread(c) \/ Served(c)
      PROVE  ListInv'
  <2>1. UNCHANGED <<items, sel>>
    BY <1>1 DEF Thread, SendRequest, Refused, Respond, Disconnect, Discard, Finish, Served, window
  <2>2. QED
    BY <2>1, ListKept DEF PickerInv, PickerTypeOK, ListInv, SelectionShown
<1>2. QED
  BY <1>1, UserList, ReceiverList DEF PickerNext

-----------------------------------------------------------------------------
(***************************************************************************)
(* The threads.                                                            *)
(***************************************************************************)
\* What a step has to say of the entry and the threads.
WorkInv ==
  open \in BOOLEAN /\ typed \in Queries /\ work \in [Conns -> Seq(Request)] /\ WorkKnown

\* What the steps that start threads do to them, and to what they know.
LEMMA Started ==
  ASSUME PickerInv, UNCHANGED vars, NEW r \in Request, KnownRequest(r), Start(r)
  PROVE  /\ work' \in [Conns -> Seq(Request)] /\ WorkKnown' /\ UNCHANGED open
         /\ ThreadsFit'
<1>1. work \in [Conns -> Seq(Request)] /\ <<r>> \in Seq(Request)
  BY DEF PickerInv, PickerTypeOK
<1>2. PICK c \in Conns : Free(c) /\ work' = [work EXCEPT ![c] = <<r>>]
  BY DEF Start
<1>3. work' \in [Conns -> Seq(Request)]
  BY <1>1, <1>2
<1>4. WorkKnown'
  BY <1>1, <1>2 DEF PickerInv, WorkKnown, KnownRequest, Stored, vars
<1>5. ThreadsFit'
  BY <1>1, <1>2 DEF PickerInv, ThreadsFit, Busy, Free, Idle, vars, Fits
<1>6. QED
  BY <1>3, <1>4, <1>5 DEF Start

\* The requests made from the selected row know it.
LEMMA Pressed ==
  ASSUME PickerInv, sel \in DOMAIN items
  PROVE  LET id == items[sel].id
         IN  /\ id \in Ids /\ Stored(id)
             /\ items[sel].pinned \in BOOLEAN /\ items[sel].favorite \in BOOLEAN
             /\ \A plain \in BOOLEAN : Restoring(id, plain) \in Request
             /\ [op |-> "delete", id |-> id] \in Request
             /\ \A v \in BOOLEAN, op \in {"pin", "favorite"} :
                  [op |-> op, id |-> id, value |-> v] \in Request
<1>1. items[sel] \in Item
  BY LenProperties DEF PickerInv, PickerTypeOK
<1>2. QED
  BY <1>1 DEF PickerInv, ListKnown, Item, Request, Restoring

\* No thread is left when the window closes.
LEMMA NoThreads ==
  ASSUME Closes
  PROVE  WorkInv' /\ ThreadsFit' /\ inbox' = << >>
<1>1. /\ open' = FALSE /\ typed' = NoQuery /\ inbox' = << >>
      /\ work' = [c \in Conns |-> << >>]
  BY DEF Closes
<1>2. << >> \in Seq(Request)
  BY EmptySeq
<1>3. work' \in [Conns -> Seq(Request)] /\ \A c \in Conns : work'[c] = << >>
  BY <1>1, <1>2
<1>4. DOMAIN << >> = {}
  OBVIOUS
<1>5. WorkKnown'
  BY <1>3, <1>4 DEF WorkKnown
<1>6. ThreadsFit'
  BY <1>3 DEF ThreadsFit, Busy
<1>7. QED
  BY <1>1, <1>3, <1>5, <1>6, TypesAssumption DEF WorkInv, TypesAssumption

\* The user's steps.
LEMMA UserWork ==
  ASSUME PickerInv, PickerNext, User
  PROVE  WorkInv' /\ ThreadsFit'
<1>1. work \in [Conns -> Seq(Request)] /\ open \in BOOLEAN /\ typed \in Queries
  BY DEF PickerInv, PickerTypeOK
<1>2. CASE Open
  <2>1. PICK a \in Conns, b \in Conns :
             /\ a # b /\ call[a] = Idle /\ call[b] = Idle
             /\ work' = [work EXCEPT ![a] = <<Searching(NoQuery)>>,
                                     ![b] = <<Capturing, Searching(NoQuery)>>]
    BY <1>2 DEF Open
  <2>2. Searching(NoQuery) \in Request /\ Capturing \in Request
    BY TypesAssumption DEF TypesAssumption, Searching, Capturing, Request
  <2>3. <<Searching(NoQuery)>> \in Seq(Request) /\ <<Capturing, Searching(NoQuery)>> \in Seq(Request)
    BY <2>2
  <2>4. work' \in [Conns -> Seq(Request)] /\ open' \in BOOLEAN /\ UNCHANGED <<typed, vars>>
    BY <1>1, <1>2, <2>1, <2>3 DEF Open
  <2>5. WorkKnown'
    BY <1>1, <2>1, <2>4
       DEF PickerInv, WorkKnown, KnownRequest, Stored, vars, Searching, Capturing
  <2>6. ThreadsFit'
    BY <1>1, <2>1, <2>4 DEF PickerInv, ThreadsFit, Busy, Idle, vars, Fits
  <2>7. QED
    BY <1>1, <2>4, <2>5, <2>6 DEF WorkInv
<1>3. CASE Close
  BY <1>3, NoThreads DEF Close
<1>4. CASE Type
  <2>1. PICK q \in Queries : typed' = q /\ Start(Searching(q))
    BY <1>4 DEF Type
  <2>2. Searching(q) \in Request /\ KnownRequest(Searching(q))
    BY DEF Searching, Request, KnownRequest
  <2>3. QED
    BY <1>1, <2>1, <2>2, Started DEF WorkInv, Start
<1>5. CASE RestoreSelected \/ DeleteSelected \/ TogglePin \/ ToggleFavorite
  <2>1. PICK r \in Request : Start(r) /\ KnownRequest(r) /\ UNCHANGED typed
    <3>1. CASE RestoreSelected
      BY <3>1, Pressed DEF RestoreSelected, Press, KnownRequest, Restoring
    <3>2. CASE DeleteSelected
      BY <3>2, Pressed DEF DeleteSelected, Press, KnownRequest
    <3>3. CASE TogglePin
      BY <3>3, Pressed DEF TogglePin, Press, KnownRequest
    <3>4. CASE ToggleFavorite
      BY <3>4, Pressed DEF ToggleFavorite, Press, KnownRequest
    <3>5. QED
      BY <1>5, <3>1, <3>2, <3>3, <3>4
  <2>2. QED
    BY <1>1, <2>1, Started DEF WorkInv, Start
<1>6. CASE MoveUp \/ MoveDown \/ SelectRow
  <2>1. UNCHANGED <<vars, open, typed, work>>
    BY <1>6 DEF MoveUp, MoveDown, SelectRow
  <2>2. QED
    BY <1>1, <2>1 DEF PickerInv, WorkInv, WorkKnown, KnownRequest, Stored, ThreadsFit, Busy, vars
<1>7. QED
  BY <1>2, <1>3, <1>4, <1>5, <1>6 DEF User

\* The receiver's steps.
LEMMA ReceiverWork ==
  ASSUME PickerInv, PickerNext, Receiver
  PROVE  WorkInv' /\ ThreadsFit'
<1>1. CASE RestoreFinished
  BY <1>1, NoThreads DEF RestoreFinished
<1>2. CASE UNCHANGED <<vars, open, typed, work>>
  BY <1>2 DEF PickerInv, PickerTypeOK, WorkInv, WorkKnown, KnownRequest, Stored, ThreadsFit, Busy, vars
<1>3. QED
  BY <1>1, <1>2
     DEF Receiver, Read, SearchFinished, SearchFailed, DeleteFinished, RemoveById, PinFinished,
         FavoriteFinished, SetById, ActionFailed, Show

\* A thread that has finished a request goes on to the next.
LEMMA FinishWork ==
  ASSUME PickerInv, NEW c \in Busy, NEW x, Finish(c, x), call'[c] = Idle,
         \A d \in Conns : d # c => call'[d] = call[d]
  PROVE  WorkInv' /\ ThreadsFit'
<1>1. work \in [Conns -> Seq(Request)] /\ open \in BOOLEAN /\ typed \in Queries /\ c \in Conns
  BY DEF PickerInv, PickerTypeOK, Busy
<1>2. work[c] \in Seq(Request) /\ work[c] # << >>
  BY <1>1 DEF Busy
<1>3. work' = [work EXCEPT ![c] = Tail(work[c])]
  BY <1>1 DEF Finish
<1>4. /\ Tail(work[c]) \in Seq(Request)
      /\ \A n \in DOMAIN Tail(work[c]) : KnownRequest(Tail(work[c])[n])
  BY <1>1, <1>2, HeadTail DEF PickerInv, WorkKnown
<1>5. WorkKnown'
  BY <1>1, <1>3, <1>4 DEF PickerInv, WorkKnown, KnownRequest, Stored, Finish, store
<1>6. ThreadsFit'
  BY <1>1, <1>3 DEF PickerInv, ThreadsFit, Busy, Idle
<1>7. QED
  BY <1>1, <1>3, <1>4, <1>5, <1>6 DEF WorkInv, Finish

\* The steps of a thread and of the daemon.
LEMMA ThreadWork ==
  ASSUME PickerInv, PickerNext, NEW c \in Conns, Thread(c) \/ Served(c)
  PROVE  WorkInv' /\ ThreadsFit'
<1>1. IInv /\ [Next]_vars
  BY StepServes DEF PickerInv, PickerTypeOK, IInv
<1>2. call \in [Conns -> Calls] /\ work \in [Conns -> Seq(Request)]
  BY DEF PickerInv, PickerTypeOK, TypeOK
<1>3. CASE Refused(c) \/ Respond(c) \/ Disconnect(c)
  <2>1. c \in Busy /\ call'[c] = Idle /\ \A d \in Conns : d # c => call'[d] = call[d]
    BY <1>2, <1>3 DEF Refused, Respond, Disconnect
  <2>2. \E x : Finish(c, x)
    BY <1>3 DEF Refused, Respond, Disconnect
  <2>3. QED
    BY <2>1, <2>2, FinishWork
<1>4. CASE UNCHANGED window
  <2>1. WorkInv'
    <3>1. \A d \in Conns : \A n \in DOMAIN work[d] : work[d][n] \in Request
      BY <1>2, LenProperties
    <3>2. WorkKnown'
      BY <1>1, <1>4, <3>1, KnownKept DEF PickerInv, WorkKnown, window, KnownRequest, Stored
    <3>3. QED
      BY <1>4, <3>2 DEF PickerInv, PickerTypeOK, WorkInv, window
  <2>2. Busy' = Busy
    BY <1>4 DEF Busy, window
  <2>3. CASE SendRequest(c)
    BY <1>2, <1>4, <2>1, <2>2, <2>3
       DEF PickerInv, ThreadsFit, SendRequest, Invoke, Pending, window, Busy
  <2>4. CASE Discard(c)
    BY <1>2, <1>4, <2>1, <2>2, <2>4 DEF PickerInv, ThreadsFit, Discard, window, Busy
  <2>5. CASE Served(c)
    <3>1. PICK x \in Response : Answer(c, x) /\ Fits(call[c].req, x)
      BY <1>1, <2>5, ServeKnown DEF Served, PickerInv
    <3>2. call[c].st = "pending"
      BY <2>5 DEF Served, Serve, Capture, Search, Restore, Delete, Pin, Favorite, Fail, Asked
    <3>3. call' = [call EXCEPT ![c] = Done(x)]
      BY <3>1 DEF Answer
    <3>4. QED
      BY <1>2, <1>4, <2>1, <2>2, <3>1, <3>2, <3>3 DEF PickerInv, ThreadsFit, Done, window, Busy
  <2>6. QED
    BY <1>4, <2>3, <2>4, <2>5, <1>3 DEF Thread
<1>5. QED
  BY <1>3, <1>4 DEF Thread, SendRequest, Discard, Served

\* Every step.
LEMMA WorkStep ==
  ASSUME PickerInv, PickerNext
  PROVE  WorkInv' /\ ThreadsFit'
BY UserWork, ReceiverWork, ThreadWork DEF PickerNext

-----------------------------------------------------------------------------
(***************************************************************************)
(* The channel.                                                            *)
(***************************************************************************)
\* What a step has to say of the channel.
InboxInv == inbox \in Seq(Message) /\ InboxKnown

\* A channel that a step does not touch stays known.
LEMMA InboxKept ==
  ASSUME PickerInv, PickerNext, UNCHANGED inbox
  PROVE  InboxInv'
<1>1. IInv /\ [Next]_vars
  BY StepServes DEF PickerInv, PickerTypeOK, IInv
<1>2. inbox \in Seq(Message) /\ InboxKnown
  BY DEF PickerInv, PickerTypeOK
<1>3. \A n \in DOMAIN inbox : inbox[n].res \in Response \cup {Lost}
  <2>1. \A n \in DOMAIN inbox : inbox[n] \in Message
    BY <1>2, LenProperties
  <2>2. \A e \in Message : e.res \in Response \cup {Lost}
    BY DEF Message
  <2>3. QED
    BY <2>1, <2>2
<1>4. QED
  BY <1>1, <1>2, <1>3, KnownKept DEF InboxInv, InboxKnown, KnownResponse, Stored

\* A thread sends what it knows.
LEMMA FinishInbox ==
  ASSUME PickerInv, NEW c \in Busy, NEW x \in Response \cup {Lost}, Finish(c, x),
         KnownResponse(x), Fits(Head(work[c]), x)
  PROVE  InboxInv'
<1>1. inbox \in Seq(Message) /\ InboxKnown /\ UNCHANGED store
  BY DEF PickerInv, PickerTypeOK, Finish
<1>2. CASE UNCHANGED inbox
  BY <1>1, <1>2 DEF InboxInv, InboxKnown, KnownResponse, Stored, store
<1>3. CASE inbox' = Append(inbox, [req |-> Head(work[c]), res |-> x])
  <2>1. c \in Conns /\ work[c] \in Seq(Request) /\ work[c] # << >>
    BY DEF Busy, PickerInv, PickerTypeOK
  <2>2. PICK e \in Message : e.req = Head(work[c]) /\ e.res = x /\ inbox' = Append(inbox, e)
    BY <1>3, <2>1, HeadTail DEF Message
  <2>3. /\ inbox' \in Seq(Message) /\ DOMAIN inbox' = 1 .. Len(inbox) + 1
        /\ \A n \in 1 .. Len(inbox) : inbox'[n] = inbox[n]
        /\ inbox'[Len(inbox) + 1] = e
    BY <1>1, <2>2, AppendProperties, LenProperties
  <2>4. Len(inbox) \in Nat /\ DOMAIN inbox = 1 .. Len(inbox)
    BY <1>1, LenProperties
  <2>5. \A n \in DOMAIN inbox' : KnownResponse(inbox'[n].res) /\ Fits(inbox'[n].req, inbox'[n].res)
    <3>1. ASSUME NEW n \in DOMAIN inbox'
          PROVE  inbox'[n] = e \/ (n \in DOMAIN inbox /\ inbox'[n] = inbox[n])
      BY <2>3, <2>4
    <3>2. QED
      BY <1>1, <2>2, <3>1 DEF InboxKnown
  <2>6. QED
    BY <1>1, <2>3, <2>5 DEF InboxInv, InboxKnown, KnownResponse, Fits, Stored, store
<1>4. QED
  BY <1>2, <1>3 DEF Finish

\* Every step.
LEMMA InboxStep ==
  ASSUME PickerInv, PickerNext
  PROVE  InboxInv'
<1>1. CASE User
  <2>1. CASE Close
    BY <2>1, EmptySeq DEF Close, Closes, InboxInv, InboxKnown
  <2>2. CASE UNCHANGED inbox
    BY <2>2, InboxKept
  <2>3. QED
    BY <1>1, <2>1, <2>2
       DEF User, Open, Type, Start, MoveUp, MoveDown, SelectRow, RestoreSelected, Press,
           DeleteSelected, TogglePin, ToggleFavorite
<1>2. CASE Receiver
  <2>1. CASE RestoreFinished
    BY <2>1, EmptySeq DEF RestoreFinished, Closes, InboxInv, InboxKnown
  <2>2. CASE inbox # << >> /\ inbox' = Tail(inbox) /\ UNCHANGED vars
    BY <2>2, Oldest DEF InboxInv, InboxKnown, KnownResponse, Stored, vars
  <2>3. QED
    BY <1>2, <2>1, <2>2
       DEF Receiver, Read, SearchFinished, SearchFailed, DeleteFinished, PinFinished,
           FavoriteFinished, ActionFailed
<1>3. ASSUME NEW c \in Conns, Thread(c) \/ Served(c)
      PROVE  InboxInv'
  <2>1. CASE Refused(c) \/ Disconnect(c)
    <3>1. c \in Busy /\ Finish(c, Lost)
      BY <2>1 DEF Refused, Disconnect
    <3>2. KnownResponse(Lost) /\ Fits(Head(work[c]), Lost)
      BY DEF KnownResponse, Fits, Lost, Err
    <3>3. QED
      BY <3>1, <3>2, FinishInbox
  <2>2. CASE Respond(c)
    <3>1. c \in Busy /\ Finish(c, call[c].res) /\ call[c].st = "done"
      BY <2>2 DEF Respond
    <3>2. call[c].res \in Response
      BY <3>1 DEF PickerInv, PickerTypeOK, TypeOK, Calls
    <3>3. KnownResponse(call[c].res) /\ Fits(Head(work[c]), call[c].res)
      BY <3>1 DEF PickerInv, CallsKnown, CallKnown, ThreadsFit
    <3>4. QED
      BY <3>1, <3>2, <3>3, FinishInbox
  <2>3. CASE UNCHANGED inbox
    BY <2>3, InboxKept
  <2>4. QED
    BY <1>3, <2>1, <2>2, <2>3 DEF Thread, SendRequest, Discard, Served, window
<1>4. QED
  BY <1>1, <1>2, <1>3 DEF PickerNext

-----------------------------------------------------------------------------
(***************************************************************************)
(* The theorems.                                                           *)
(***************************************************************************)
\* The inductive invariant of the picker.
THEOREM PickerInductive == PickerSpec => []PickerInv
<1>1. PickerInit => PickerInv
  <2> SUFFICES ASSUME PickerInit PROVE PickerInv
    OBVIOUS
  <2>1. StoreInv /\ TypeOK
    BY InitInv DEF PickerInit, Init, TypeOK, StoreInv, Calls, Idle
  <2>2. << >> \in Seq(Item) /\ << >> \in Seq(Request) /\ << >> \in Seq(Message)
    BY EmptySeq
  <2>3. PickerTypeOK
    <3>1. open \in BOOLEAN /\ typed \in Queries /\ sel \in Nat \ {0}
      <4>1. open = FALSE /\ typed = NoQuery /\ sel = 1
        BY DEF PickerInit, Closed
      <4>2. NoQuery \in Queries
        BY TypesAssumption
      <4>3. open \in BOOLEAN
        BY <4>1, Zenon
      <4>4. QED
        BY <4>1, <4>2, <4>3
    <3>2. items \in Seq(Item) /\ inbox \in Seq(Message)
      BY <2>2 DEF PickerInit, Closed
    <3>3. work \in [Conns -> Seq(Request)]
      BY <2>2 DEF PickerInit, Closed
    <3>4. QED
      BY <2>1, <3>1, <3>2, <3>3 DEF PickerTypeOK
  <2>4. SelectionShown /\ ListKnown /\ InboxKnown
    BY DEF PickerInit, Closed, SelectionShown, ListKnown, InboxKnown
  <2>5. \A c \in Conns : work[c] = << >> /\ call[c] = Idle
    BY DEF PickerInit, Init, Closed
  <2>6. CallsKnown /\ ThreadsFit
    BY <2>5 DEF CallsKnown, CallKnown, Idle, ThreadsFit, Busy
  <2>7. DOMAIN << >> = {}
    OBVIOUS
  <2>8. WorkKnown
    BY <2>5, <2>7 DEF WorkKnown
  <2>9. QED
    BY <2>1, <2>3, <2>4, <2>6, <2>8 DEF PickerInv
<1>2. PickerInv /\ [PickerNext]_pvars => PickerInv'
  <2> SUFFICES ASSUME PickerInv, [PickerNext]_pvars PROVE PickerInv'
    OBVIOUS
  <2>1. CASE PickerNext
    <3>1. IInv'
      BY <2>1, StepServes, NextInv DEF PickerInv, PickerTypeOK, IInv
    <3>2. QED
      BY <2>1, <3>1, CallsStep, ListStep, WorkStep, InboxStep
         DEF PickerInv, PickerTypeOK, IInv, ListInv, WorkInv, InboxInv
  <2>2. CASE UNCHANGED pvars
    <3>1. StoreInv'
      BY <2>2, SameInv DEF PickerInv, pvars, vars, store
    <3>2. QED
      BY <2>2, <3>1
         DEF PickerInv, pvars, vars, window, PickerTypeOK, TypeOK, StoreType, SelectionShown,
             CallsKnown, CallKnown, KnownRequest, KnownResponse, Stored, ListKnown, WorkKnown,
             ThreadsFit, Fits, Busy, InboxKnown
  <2>3. QED
    BY <2>1, <2>2
<1>3. QED
  BY <1>1, <1>2, PTL DEF PickerSpec

\* The picker's state is always well formed: the index never goes below the
\* first row, messages are responses to requests.
THEOREM PickerTypeCorrect == PickerSpec => []PickerTypeOK
<1>1. PickerInv => PickerTypeOK
  BY DEF PickerInv
<1>2. QED
  BY <1>1, PickerInductive, PTL

\* While rows are shown one of them is selected, whatever messages come
\* between the user's keys.
THEOREM SelectionAlwaysShown == PickerSpec => []SelectionShown
<1>1. PickerInv => SelectionShown
  BY DEF PickerInv
<1>2. QED
  BY <1>1, PickerInductive, PTL

\* No request of a picker is answered with NotFound, however old its list.
THEOREM ItemsAlwaysFound == PickerSpec => []NeverNotFound
<1>1. PickerInv => NeverNotFound
  BY DEF PickerInv, CallsKnown, CallKnown, KnownResponse, NeverNotFound, Done
<1>2. QED
  BY <1>1, PickerInductive, PTL
=============================================================================
