----------------------------- MODULE DaemonProofs ----------------------------
(***************************************************************************)
(* The safety of rcopyd, for every number of connections, every set of     *)
(* requests, ids and payloads, and whatever the other programs do with the *)
(* selection: the service is used by one task at a time, a restore pastes  *)
(* what it wrote, and the history stays well formed. And with its awaits,  *)
(* time-outs and crashes it implements the atomic service.                 *)
(***************************************************************************)
EXTENDS Daemon, RepositoryProofs

-----------------------------------------------------------------------------
(***************************************************************************)
(* The mutex's queue.                                                      *)
(***************************************************************************)
\* Appending a connection that is not queued keeps the queue without
\* duplicates, adds this connection, and leaves the head where there was one.
LEMMA AppendQueue ==
  ASSUME NEW q \in Seq(Conns), NEW c \in Conns,
         \A n \in DOMAIN q : q[n] # c,
         \A m, n \in DOMAIN q : q[m] = q[n] => m = n
  PROVE  /\ Append(q, c) \in Seq(Conns)
         /\ \A m, n \in DOMAIN Append(q, c) : Append(q, c)[m] = Append(q, c)[n] => m = n
         /\ \A d : (\E n \in DOMAIN Append(q, c) : Append(q, c)[n] = d)
                     <=> d = c \/ (\E n \in DOMAIN q : q[n] = d)
         /\ q # << >> => Append(q, c) # << >> /\ Head(Append(q, c)) = Head(q)
<1> DEFINE a == Append(q, c)
<1>1. /\ a \in Seq(Conns) /\ Len(a) = Len(q) + 1 /\ a[Len(q) + 1] = c /\ Len(q) \in Nat
      /\ \A n \in 1 .. Len(q) : a[n] = q[n]
      /\ DOMAIN a = 1 .. Len(q) + 1 /\ DOMAIN q = 1 .. Len(q)
  OBVIOUS
<1>2. \A m, n \in DOMAIN a : a[m] = a[n] => m = n
  BY <1>1
<1>3. ASSUME NEW d
      PROVE  (\E n \in DOMAIN a : a[n] = d) <=> d = c \/ (\E n \in DOMAIN q : q[n] = d)
  <2>1. ASSUME NEW n \in DOMAIN a, a[n] = d, d # c
        PROVE  \E k \in DOMAIN q : q[k] = d
    <3>1. n \in 1 .. Len(q)
      BY <1>1, <2>1
    <3>2. QED
      BY <1>1, <2>1, <3>1
  <2>2. d = c => \E n \in DOMAIN a : a[n] = d
    BY <1>1
  <2>3. ASSUME NEW n \in DOMAIN q, q[n] = d
        PROVE  \E k \in DOMAIN a : a[k] = d
    <3>1. n \in DOMAIN a /\ a[n] = d
      BY <1>1, <2>3
    <3>2. QED
      BY <3>1
  <2>4. QED
    BY <2>1, <2>2, <2>3
<1>4. q # << >> => a # << >> /\ Head(a) = Head(q)
  OBVIOUS
<1>5. QED
  BY <1>1, <1>2, <1>3, <1>4

\* Removing the head of a queue without duplicates removes this connection.
LEMMA TailQueue ==
  ASSUME NEW q \in Seq(Conns), q # << >>,
         \A m, n \in DOMAIN q : q[m] = q[n] => m = n
  PROVE  /\ Tail(q) \in Seq(Conns)
         /\ \A m, n \in DOMAIN Tail(q) : Tail(q)[m] = Tail(q)[n] => m = n
         /\ \A d : (\E n \in DOMAIN Tail(q) : Tail(q)[n] = d)
                     <=> d # Head(q) /\ (\E n \in DOMAIN q : q[n] = d)
<1> DEFINE r == Tail(q)
<1>1. /\ r \in Seq(Conns) /\ Len(q) \in Nat \ {0} /\ Len(r) = Len(q) - 1
      /\ \A n \in 1 .. Len(q) - 1 : r[n] = q[n + 1]
      /\ DOMAIN r = 1 .. Len(q) - 1 /\ DOMAIN q = 1 .. Len(q)
      /\ Head(q) = q[1]
  OBVIOUS
<1>2. \A m, n \in DOMAIN r : r[m] = r[n] => m = n
  <2> SUFFICES ASSUME NEW m \in 1 .. Len(q) - 1, NEW n \in 1 .. Len(q) - 1, r[m] = r[n]
               PROVE  m = n
    BY <1>1
  <2>1. m + 1 \in DOMAIN q /\ n + 1 \in DOMAIN q /\ q[m + 1] = q[n + 1]
    BY <1>1
  <2>2. QED
    BY <2>1
<1>3. ASSUME NEW d
      PROVE  (\E n \in DOMAIN r : r[n] = d) <=> d # Head(q) /\ (\E n \in DOMAIN q : q[n] = d)
  <2>1. ASSUME NEW n \in DOMAIN r, r[n] = d
        PROVE  d # Head(q) /\ \E k \in DOMAIN q : q[k] = d
    <3>1. n + 1 \in DOMAIN q /\ q[n + 1] = d /\ n + 1 # 1 /\ 1 \in DOMAIN q
      BY <1>1, <2>1
    <3>2. QED
      BY <1>1, <3>1
  <2>2. ASSUME NEW k \in DOMAIN q, q[k] = d, d # Head(q)
        PROVE  \E n \in DOMAIN r : r[n] = d
    <3>1. k # 1
      BY <1>1, <2>2
    <3>2. k - 1 \in DOMAIN r /\ r[k - 1] = d
      BY <1>1, <2>2, <3>1
    <3>3. QED
      BY <3>2
  <2>3. QED
    BY <2>1, <2>2
<1>4. QED
  BY <1>1, <1>2, <1>3

-----------------------------------------------------------------------------
(***************************************************************************)
(* The shapes of the steps of a task.                                      *)
(***************************************************************************)
\* All of TypeOK but the table.
TasksType ==
  /\ clip \in Selection
  /\ up \in BOOLEAN
  /\ queue \in Seq(Conns)
  /\ pc \in [Conns -> Places]
  /\ req \in [Conns -> Request]
  /\ job \in [Conns -> Jobs]
  /\ resp \in [Conns -> Response]

\* Connection c has the service: it is about to be served, or being served.
Holds(c) == Granted(c) \/ pc[c] \in Serving

\* The responses are responses, the constant locals are locals.
LEMMA ConstantTypes ==
  /\ Ok \in Response
  /\ \A b \in BOOLEAN : Captured(b) \in Response
  /\ \A s \in Seq(Item) : Items(s) \in Response
  /\ \A e \in Errors : Err(e) \in Response
  /\ \A b, d \in BOOLEAN : Restored(b, d) \in Response
  /\ Blank \in Payload /\ NoJob \in Jobs /\ NoReq \in Request /\ Nobody \in Selection
<1>1. Blank \in Payload
  BY DEF Blank, Payload
<1>2. NoJob \in Jobs /\ Nobody \in Selection
  BY <1>1 DEF NoJob, Jobs, Nobody, Selection
<1>3. QED
  BY <1>1, <1>2 DEF Response, Ok, Captured, Items, Err, Restored, NoReq, Request

\* The one that holds the service is the head of the queue; no other task is
\* in the middle of a request.
LEMMA HolderAlone ==
  ASSUME OneAtATime, TasksType, NEW c \in Conns, Holds(c)
  PROVE  /\ queue # << >> /\ Head(queue) = c
         /\ \A d \in Conns : pc[d] \in Serving => d = c
<1>1. queue # << >>
  <2>1. CASE Granted(c)
    <3>1. Queued(c)
      BY <2>1 DEF Granted, OneAtATime, WaitersQueued
    <3>2. QED
      BY <3>1 DEF Queued
  <2>2. CASE pc[c] \in Serving
    BY <2>2 DEF OneAtATime, HolderServes
  <2>3. QED
    BY <2>1, <2>2 DEF Holds
<1>2. Head(queue) = c
  BY DEF Holds, Granted, OneAtATime, HolderServes
<1>3. QED
  BY <1>1, <1>2 DEF OneAtATime, HolderServes

\* The holder answers: it leaves the queue, and the next one may be served.
LEMMA AnswerTasks ==
  ASSUME OneAtATime, TasksType, NEW c \in Conns, Holds(c), NEW x \in Response, Answer(c, x)
  PROVE  OneAtATime' /\ TasksType'
<1>1. /\ queue # << >> /\ Head(queue) = c
      /\ \A d \in Conns : pc[d] \in Serving => d = c
  BY HolderAlone
<1>2. /\ queue' \in Seq(Conns)
      /\ QueuedOnce'
      /\ \A d : Queued(d)' <=> d # c /\ Queued(d)
  BY <1>1, TailQueue DEF TasksType, OneAtATime, QueuedOnce, Queued, Answer
<1>3. pc'[c] = "answer" /\ \A d \in Conns : d # c => pc'[d] = pc[d]
  BY DEF Answer, TasksType
<1>4. \A d \in Conns : pc'[d] \notin Serving
  BY <1>1, <1>3 DEF Serving, Reading
<1>5. WaitersQueued'
  BY <1>2, <1>3 DEF OneAtATime, WaitersQueued, Serving, Reading
<1>6. HolderServes'
  BY <1>4 DEF HolderServes
<1>7. TasksType'
  BY <1>2, ConstantTypes DEF Answer, TasksType, Places
<1>8. QED
  BY <1>2, <1>5, <1>6, <1>7 DEF OneAtATime

\* The holder goes on to another place of its request.
LEMMA ProceedTasks ==
  ASSUME OneAtATime, TasksType, NEW c \in Conns, Holds(c),
         NEW p \in Serving, NEW j \in Jobs, Proceed(c, p, j), clip' \in Selection
  PROVE  OneAtATime' /\ TasksType'
<1>1. queue # << >> /\ Head(queue) = c
  BY HolderAlone
<1>2. pc'[c] = p /\ \A d \in Conns : d # c => pc'[d] = pc[d]
  BY DEF Proceed, TasksType
<1>3. pc[c] \in Serving \cup {"wait"}
  BY DEF Holds, Granted
<1>4. queue' = queue
  BY DEF Proceed
<1>5. HolderServes'
  BY <1>1, <1>2, <1>4 DEF OneAtATime, HolderServes
<1>6. WaitersQueued'
  BY <1>2, <1>3, <1>4 DEF OneAtATime, WaitersQueued, Queued
<1>7. QueuedOnce'
  BY <1>4 DEF OneAtATime, QueuedOnce
<1>8. TasksType'
  BY DEF Proceed, TasksType, Places
<1>9. QED
  BY <1>5, <1>6, <1>7, <1>8 DEF OneAtATime

\* A task that neither has nor awaits the service, before and after the step.
LEMMA OutsideTasks ==
  ASSUME OneAtATime, TasksType, NEW c \in Conns,
         pc[c] \notin Serving \cup {"wait"},
         NEW p \in Places \ (Serving \cup {"wait"}),
         pc' = [pc EXCEPT ![c] = p], queue' = queue
  PROVE  OneAtATime'
<1>1. pc'[c] = p /\ \A d \in Conns : d # c => pc'[d] = pc[d]
  BY DEF TasksType
<1>2. HolderServes' /\ WaitersQueued'
  BY <1>1 DEF OneAtATime, HolderServes, WaitersQueued, Queued
<1>3. QED
  BY <1>2 DEF OneAtATime, QueuedOnce

-----------------------------------------------------------------------------
(***************************************************************************)
(* The inductive invariant through the shapes of a step.                   *)
(***************************************************************************)
\* What IInv says of the holder c in place p with locals j.
PlaceOK(c, p, j) ==
  /\ p \in Reading \cup {"store"} => req[c].op = "capture"
  /\ p \in {"targets", "text"} => j.payload = Blank
  /\ p = "html" => j.payload.text = None
  /\ p \in {"png", "store"} => j.payload.text = None \/ j.payload.html = None
  /\ p \in {"write", "mark", "paste"} =>
       /\ req[c].op = "restore"
       /\ rows'[req[c].id] # NoRow
       /\ Represents(j.payload, rows'[req[c].id].payload, req[c].plain)
  /\ p \in {"mark", "paste"} /\ clip'.owner = "xclip" => clip'.data = j.payload
  /\ p = "paste" => lastUsed'[req[c].id] = 1

\* An answer keeps the invariant: the one that was in the middle of a request
\* no longer is.
LEMMA AnswerInv ==
  ASSUME IInv, NEW c \in Conns, Holds(c), NEW x \in Response, Answer(c, x),
         StoreInv'
  PROVE  IInv'
<1>1. TasksType /\ OneAtATime
  BY DEF IInv, TypeOK, TasksType
<1>2. OneAtATime' /\ TasksType'
  BY <1>1, AnswerTasks
<1>3. TypeOK'
  BY <1>2 DEF TypeOK, TasksType, StoreInv
<1>4. pc'[c] = "answer" /\ \A d \in Conns : d # c => pc'[d] = pc[d] /\ pc[d] \notin Serving
  BY <1>1, HolderAlone DEF Answer, TasksType
<1>5. \A d \in Conns : pc'[d] \notin Serving
  BY <1>4 DEF Serving, Reading
<1>6. WritesItsItem' /\ OwnsSelection' /\ MarkedBeforePaste' /\ ReadsInOrder'
  BY <1>5 DEF WritesItsItem, OwnsSelection, MarkedBeforePaste, ReadsInOrder, Serving, Reading
<1>7. RequestsWait'
  BY <1>4 DEF IInv, RequestsWait, Answer
<1>8. QED
  BY <1>2, <1>3, <1>6, <1>7 DEF IInv

\* Going on to place p keeps the invariant if p's part of it holds.
LEMMA ProceedInv ==
  ASSUME IInv, NEW c \in Conns, Holds(c), NEW p \in Serving, NEW j \in Jobs, Proceed(c, p, j),
         clip' \in Selection, StoreInv', PlaceOK(c, p, j)
  PROVE  IInv'
<1>1. TasksType /\ OneAtATime
  BY DEF IInv, TypeOK, TasksType
<1>2. OneAtATime' /\ TasksType'
  BY <1>1, ProceedTasks
<1>3. TypeOK'
  BY <1>2 DEF TypeOK, TasksType, StoreInv
<1>4. /\ pc'[c] = p /\ job'[c] = j /\ req' = req
      /\ \A d \in Conns : d # c => pc'[d] = pc[d] /\ pc[d] \notin Serving
  BY <1>1, HolderAlone DEF Proceed, TasksType
<1>5. WritesItsItem' /\ OwnsSelection' /\ MarkedBeforePaste'
  <2>1. \A d \in Conns : pc'[d] \in {"write", "mark", "paste"} => d = c
    BY <1>4 DEF Serving
  <2>2. WritesItsItem'
    BY <1>4, <2>1 DEF WritesItsItem, PlaceOK, Stored
  <2>3. OwnsSelection' /\ MarkedBeforePaste'
    BY <1>4, <2>1 DEF OwnsSelection, MarkedBeforePaste, PlaceOK
  <2>4. QED
    BY <2>2, <2>3
<1>6. ReadsInOrder'
  BY <1>4 DEF ReadsInOrder, Serving, Reading, PlaceOK
<1>7. RequestsWait'
  BY <1>4 DEF IInv, RequestsWait, Serving, Reading
<1>8. QED
  BY <1>2, <1>3, <1>5, <1>6, <1>7 DEF IInv

\* The table is left alone, and so is what is said of it.
LEMMA SameTable == IInv /\ UNCHANGED store => StoreInv'
BY SameInv DEF IInv, store

\* A statement on one stored row keeps the invariants of the table.
LEMMA UpdateTable ==
  ASSUME IInv, NEW id \in Ids, Stored(id), NEW value \in BOOLEAN,
         SoftDelete(id) \/ SetPinned(id, value) \/ SetFavorite(id, value) \/ MarkUsed(id)
  PROVE  StoreInv'
BY UpdateInv DEF IInv

\* The request of a task that is served has an id if its operation has one.
LEMMA RequestFields ==
  ASSUME IInv, NEW c \in Conns
  PROVE  /\ req[c].op \in {"restore", "delete", "pin", "favorite"} => req[c].id \in Ids
         /\ req[c].op \in {"pin", "favorite"} => req[c].value \in BOOLEAN
         /\ req[c].op = "restore" => req[c].paste \in BOOLEAN /\ req[c].plain \in BOOLEAN
<1>1. req[c] \in Request
  BY DEF IInv, TypeOK
<1>2. QED
  BY <1>1 DEF Request

-----------------------------------------------------------------------------
(***************************************************************************)
(* One lemma per group of actions.                                         *)
(***************************************************************************)
\* The requests without an await.
LEMMA ShortInv ==
  ASSUME IInv, NEW c \in Conns, Search(c) \/ Delete(c) \/ Pin(c) \/ Favorite(c)
  PROVE  IInv'
<1>1. CASE Search(c)
  <2>1. PICK s \in Listings(req[c].query) : Answer(c, Items([n \in DOMAIN s |-> ItemOf(s[n])]))
    BY <1>1 DEF Search
  <2>2. Items([n \in DOMAIN s |-> ItemOf(s[n])]) \in Response
    BY ListingType, ConstantTypes DEF IInv, TypeOK
  <2>3. QED
    BY <1>1, <2>1, <2>2, AnswerInv, SameTable DEF Search, Holds
<1>2. CASE Delete(c)
  <2>1. CASE Stored(req[c].id)
    <3>1. SoftDelete(req[c].id) /\ Answer(c, Ok)
      BY <1>2, <2>1 DEF Delete, Update
    <3>2. StoreInv'
      BY <1>2, <2>1, <3>1, RequestFields, UpdateTable DEF Delete
    <3>3. QED
      BY <1>2, <3>1, <3>2, AnswerInv, ConstantTypes DEF Delete, Holds
  <2>2. CASE ~Stored(req[c].id)
    BY <1>2, <2>2, AnswerInv, SameTable, ConstantTypes DEF Delete, Update, Holds, Errors
  <2>3. QED
    BY <2>1, <2>2
<1>3. CASE Pin(c)
  <2>1. CASE Stored(req[c].id)
    <3>1. SetPinned(req[c].id, req[c].value) /\ Answer(c, Ok)
      BY <1>3, <2>1 DEF Pin, Update
    <3>2. StoreInv'
      BY <1>3, <2>1, <3>1, RequestFields, UpdateTable DEF Pin
    <3>3. QED
      BY <1>3, <3>1, <3>2, AnswerInv, ConstantTypes DEF Pin, Holds
  <2>2. CASE ~Stored(req[c].id)
    BY <1>3, <2>2, AnswerInv, SameTable, ConstantTypes DEF Pin, Update, Holds, Errors
  <2>3. QED
    BY <2>1, <2>2
<1>4. CASE Favorite(c)
  <2>1. CASE Stored(req[c].id)
    <3>1. SetFavorite(req[c].id, req[c].value) /\ Answer(c, Ok)
      BY <1>4, <2>1 DEF Favorite, Update
    <3>2. StoreInv'
      BY <1>4, <2>1, <3>1, RequestFields, UpdateTable DEF Favorite
    <3>3. QED
      BY <1>4, <3>1, <3>2, AnswerInv, ConstantTypes DEF Favorite, Holds
  <2>2. CASE ~Stored(req[c].id)
    BY <1>4, <2>2, AnswerInv, SameTable, ConstantTypes DEF Favorite, Update, Holds, Errors
  <2>3. QED
    BY <2>1, <2>2
<1>5. QED
  BY <1>1, <1>2, <1>3, <1>4

\* A value read from the selection makes the locals locals.
LEMMA ReadTypes ==
  ASSUME IInv, NEW c \in Conns
  PROVE  /\ job[c] \in Jobs /\ clip.data \in Payload
         /\ \A v \in Texts \cup {None} :
              LET j == [job[c] EXCEPT !.payload.text = v]
              IN  j \in Jobs /\ j.payload = [job[c].payload EXCEPT !.text = v]
         /\ \A v \in Htmls \cup {None} :
              LET j == [job[c] EXCEPT !.payload.html = v]
              IN  j \in Jobs /\ j.payload = [job[c].payload EXCEPT !.html = v]
         /\ \A v \in Pngs \cup {None} :
              LET j == [job[c] EXCEPT !.payload.png = v]
              IN  j \in Jobs /\ j.payload = [job[c].payload EXCEPT !.png = v]
<1>1. job[c] \in Jobs /\ clip.data \in Payload
  BY DEF IInv, TypeOK, Selection
<1>2. QED
  BY <1>1 DEF Jobs, Payload

\* The steps of a capture.
LEMMA CaptureInv ==
  ASSUME IInv, NEW c \in Conns,
         \/ BeginCapture(c) \/ ListTargets(c) \/ ReadText(c) \/ ReadHtml(c) \/ ReadPng(c)
         \/ ReadFails(c) \/ StoreCapture(c)
  PROVE  IInv'
<1>0. TasksType /\ clip \in Selection
  BY DEF IInv, TypeOK, TasksType
<1>1. CASE BeginCapture(c)
  <2>1. PlaceOK(c, "targets", NoJob)
    BY <1>1 DEF BeginCapture, PlaceOK, NoJob, Reading
  <2>2. Proceed(c, "targets", NoJob) /\ clip' = clip /\ UNCHANGED store /\ Holds(c)
    BY <1>1 DEF BeginCapture, Holds
  <2>3. QED
    BY <1>0, <2>1, <2>2, ProceedInv, SameTable, ConstantTypes DEF Serving, Reading
<1>2. CASE ListTargets(c)
  <2> DEFINE j == [NoJob EXCEPT !.offered = {k \in Kinds : clip.data[k] # None}]
  <2>1. j \in Jobs /\ j.payload = Blank
    BY ConstantTypes DEF NoJob, Jobs
  <2>2. /\ Proceed(c, NextRead("targets", j), j) /\ clip' = clip /\ UNCHANGED store
        /\ pc[c] = "targets"
    BY <1>2 DEF ListTargets
  <2>3. Holds(c) /\ req[c].op = "capture"
    BY <2>2 DEF Holds, Serving, Reading, IInv, ReadsInOrder
  <2> HIDE DEF j
  <2>4. NextRead("targets", j) \in {"text", "html", "png", "store"}
    BY DEF NextRead
  <2>5. PlaceOK(c, NextRead("targets", j), j)
    BY <2>1, <2>3, <2>4 DEF PlaceOK, Blank
  <2>6. QED
    BY <1>0, <2>1, <2>2, <2>3, <2>4, <2>5, ProceedInv, SameTable DEF Serving, Reading
<1>3. CASE ReadText(c)
  <2> DEFINE v == IF clip.data.text = None THEN None ELSE Cleaned[clip.data.text]
             j == [job[c] EXCEPT !.payload.text = v]
  <2>1. /\ Proceed(c, NextRead("text", j), j) /\ clip' = clip /\ UNCHANGED store
        /\ pc[c] = "text"
    BY <1>3 DEF ReadText
  <2>2. Holds(c) /\ req[c].op = "capture" /\ job[c].payload = Blank
    BY <2>1 DEF Holds, Serving, Reading, IInv, ReadsInOrder
  <2>3. v \in Texts \cup {None}
    BY ReadTypes, TypesAssumption DEF Payload, TypesAssumption
  <2> HIDE DEF v
  <2>4. j \in Jobs /\ j.payload = [Blank EXCEPT !.text = v]
    BY <2>2, <2>3, ReadTypes
  <2> HIDE DEF j
  <2>5. j.payload.html = None
    BY <2>4 DEF Blank
  <2>6. /\ NextRead("text", j) \in {"html", "png", "store"}
        /\ NextRead("text", j) = "html" => j.payload.text = None
    BY DEF NextRead
  <2>7. PlaceOK(c, NextRead("text", j), j)
    BY <2>2, <2>5, <2>6 DEF PlaceOK
  <2>8. QED
    BY <1>0, <2>1, <2>2, <2>4, <2>6, <2>7, ProceedInv, SameTable DEF Serving, Reading
<1>4. CASE ReadHtml(c)
  <2> DEFINE j == [job[c] EXCEPT !.payload.html = clip.data.html]
  <2>1. /\ Proceed(c, NextRead("html", j), j) /\ clip' = clip /\ UNCHANGED store
        /\ pc[c] = "html"
    BY <1>4 DEF ReadHtml
  <2>2. Holds(c) /\ req[c].op = "capture" /\ job[c].payload.text = None
    BY <2>1 DEF Holds, Serving, Reading, IInv, ReadsInOrder
  <2>3. clip.data.html \in Htmls \cup {None}
    BY ReadTypes DEF Payload
  <2>4. j \in Jobs /\ j.payload = [job[c].payload EXCEPT !.html = clip.data.html]
    BY <2>3, ReadTypes
  <2> HIDE DEF j
  <2>5. j.payload.text = None
    BY <2>2, <2>4, ReadTypes DEF Jobs, Payload
  <2>6. NextRead("html", j) \in {"png", "store"}
    BY DEF NextRead
  <2>7. PlaceOK(c, NextRead("html", j), j)
    BY <2>2, <2>5, <2>6 DEF PlaceOK
  <2>8. QED
    BY <1>0, <2>1, <2>2, <2>4, <2>6, <2>7, ProceedInv, SameTable DEF Serving, Reading
<1>5. CASE ReadPng(c)
  <2> DEFINE j == [job[c] EXCEPT !.payload.png = clip.data.png]
  <2>1. /\ Proceed(c, NextRead("png", j), j) /\ clip' = clip /\ UNCHANGED store
        /\ pc[c] = "png"
    BY <1>5 DEF ReadPng
  <2>2. /\ Holds(c) /\ req[c].op = "capture"
        /\ job[c].payload.text = None \/ job[c].payload.html = None
    BY <2>1 DEF Holds, Serving, Reading, IInv, ReadsInOrder
  <2>3. clip.data.png \in Pngs \cup {None}
    BY ReadTypes DEF Payload
  <2>4. j \in Jobs /\ j.payload = [job[c].payload EXCEPT !.png = clip.data.png]
    BY <2>3, ReadTypes
  <2> HIDE DEF j
  <2>5. j.payload.text = None \/ j.payload.html = None
    BY <2>2, <2>4, ReadTypes DEF Jobs, Payload
  <2>6. NextRead("png", j) = "store"
    BY DEF NextRead
  <2>7. PlaceOK(c, NextRead("png", j), j)
    BY <2>2, <2>5, <2>6 DEF PlaceOK
  <2>8. QED
    BY <1>0, <2>1, <2>2, <2>4, <2>6, <2>7, ProceedInv, SameTable DEF Serving, Reading
<1>6. CASE ReadFails(c)
  BY <1>6, AnswerInv, SameTable, ConstantTypes DEF ReadFails, Holds, Serving, Errors
<1>7. CASE StoreCapture(c)
  <2>1. Holds(c) /\ job[c].payload \in Payload
    BY <1>7, ReadTypes DEF StoreCapture, Holds, Serving, Jobs
  <2>2. CASE IsEmpty(job[c].payload)
    BY <1>7, <2>1, <2>2, AnswerInv, SameTable, ConstantTypes DEF StoreCapture
  <2>3. CASE ~IsEmpty(job[c].payload)
    <3>1. Upsert(job[c].payload) /\ Answer(c, Captured(TRUE))
      BY <1>7, <2>3 DEF StoreCapture
    <3>2. StoreInv'
      BY <2>1, <2>3, <3>1, UpsertInv DEF IInv, Content
    <3>3. QED
      BY <2>1, <3>1, <3>2, AnswerInv, ConstantTypes
  <2>4. QED
    BY <2>2, <2>3
<1>8. QED
  BY <1>1, <1>2, <1>3, <1>4, <1>5, <1>6, <1>7

\* What is written is one representation of the payload, the text cleaned.
LEMMA WriteMimeRepresents ==
  ASSUME NEW p \in Payload, ~IsEmpty(p)
  PROVE  /\ WriteMime(p) \in Payload
         /\ Represents(WriteMime(p), p, FALSE)
         /\ p.png = None /\ p.text # None => WriteMime(p).text # None
<1>1. CASE p.png # None
  <2>1. WriteMime(p) = [text |-> None, html |-> None, png |-> p.png]
    BY <1>1 DEF WriteMime, Blank
  <2>2. QED
    BY <1>1, <2>1 DEF Payload, Represents, IsEmpty
<1>2. CASE p.png = None /\ p.text # None
  <2>1. WriteMime(p) = [text |-> Cleaned[p.text], html |-> None, png |-> None]
    BY <1>2 DEF WriteMime, Blank
  <2>2. Cleaned[p.text] \in Texts /\ Cleaned[p.text] # None
    BY <1>2, TypesAssumption DEF TypesAssumption, Payload
  <2>3. QED
    BY <1>2, <2>1, <2>2 DEF Payload, Represents, IsEmpty
<1>3. CASE p.png = None /\ p.text = None
  <2>1. WriteMime(p) = [text |-> None, html |-> p.html, png |-> None]
    BY <1>3 DEF WriteMime, Blank
  <2>2. QED
    BY <1>3, <2>1 DEF Payload, Represents, IsEmpty
<1>4. QED
  BY <1>1, <1>2, <1>3

\* A row that is left alone stays, with its content.
LEMMA StillStored ==
  ASSUME NEW id, Stored(id), rows' = rows
  PROVE  rows'[id].payload = rows[id].payload /\ rows'[id] # NoRow
BY DEF Stored

\* Up to the first await of a restore.
LEMMA BeginRestoreInv ==
  ASSUME IInv, NEW c \in Conns, BeginRestore(c)
  PROVE  IInv'
<1> DEFINE r == req[c]
           whole == rows[r.id].payload
           p == IF r.plain THEN [Blank EXCEPT !.text = whole.text] ELSE whole
<1>0. TasksType /\ clip \in Selection
  BY DEF IInv, TypeOK, TasksType
<1>1. /\ Holds(c) /\ r.op = "restore" /\ r.id \in Ids /\ r.plain \in BOOLEAN
      /\ UNCHANGED store /\ rows' = rows
  BY RequestFields DEF BeginRestore, Holds, store
<1>2. CASE ~Stored(r.id)
  BY <1>1, <1>2, AnswerInv, SameTable, ConstantTypes DEF BeginRestore, Errors
<1>3. CASE Stored(r.id) /\ r.plain /\ whole.text = None
  BY <1>1, <1>3, AnswerInv, SameTable, ConstantTypes DEF BeginRestore, Errors
<1>4. CASE Stored(r.id) /\ ~(r.plain /\ whole.text = None)
  <2>1. whole \in Payload /\ ~IsEmpty(whole)
    BY <1>1, <1>4 DEF IInv, TypeOK, StoreType, Row, Content, Stored
  <2>2. /\ p \in Payload /\ ~IsEmpty(p)
        /\ p.text # None => p.text = whole.text
        /\ p.html \in {None, whole.html} /\ p.png \in {None, whole.png}
        /\ r.plain => p.png = None /\ p.text # None
    <3>1. CASE r.plain
      <4>1. p = [text |-> whole.text, html |-> None, png |-> None]
        BY <3>1 DEF Blank
      <4>2. QED
        BY <1>4, <2>1, <3>1, <4>1 DEF Payload, IsEmpty
    <3>2. CASE ~r.plain
      BY <2>1, <3>2
    <3>3. QED
      BY <3>1, <3>2
  <2> DEFINE j == [NoJob EXCEPT !.payload = WriteMime(p)]
  <2>3. Proceed(c, "write", j) /\ clip' = clip
    BY <1>1, <1>4 DEF BeginRestore
  <2> HIDE DEF p
  <2>4. WriteMime(p) \in Payload /\ Represents(WriteMime(p), whole, r.plain)
    BY <2>2, WriteMimeRepresents DEF Represents
  <2>5. j \in Jobs /\ j.payload = WriteMime(p)
    BY <2>4 DEF NoJob, Jobs
  <2> HIDE DEF j
  <2>6. rows'[r.id].payload = whole /\ rows'[r.id] # NoRow
    BY <1>1, <1>4, StillStored
  <2>7. Represents(j.payload, rows'[r.id].payload, r.plain)
    BY <2>4, <2>5, <2>6, Zenon
  <2>8. PlaceOK(c, "write", j)
    BY <1>1, <2>6, <2>7 DEF PlaceOK, Reading
  <2>9. QED
    BY <1>0, <1>1, <2>3, <2>5, <2>8, ProceedInv, SameTable DEF Serving
<1>5. QED
  BY <1>2, <1>3, <1>4

\* The steps of a restore after its first await.
LEMMA RestoreInv ==
  ASSUME IInv, NEW c \in Conns, Write(c) \/ WriteFails(c) \/ Mark(c) \/ Paste(c)
  PROVE  IInv'
<1>0. TasksType /\ clip \in Selection /\ job[c] \in Jobs
  BY DEF IInv, TypeOK, TasksType
<1>1. pc[c] \in {"write", "mark", "paste"} /\ Holds(c)
  BY DEF Write, WriteFails, Mark, Paste, Holds, Serving
<1>2. /\ req[c].op = "restore" /\ req[c].id \in Ids /\ Stored(req[c].id)
      /\ Represents(job[c].payload, rows[req[c].id].payload, req[c].plain)
  BY <1>1, RequestFields DEF IInv, WritesItsItem
<1>3. CASE Write(c)
  <2>1. clip' = ByXclip(job[c].payload)
    BY <1>2, <1>3 DEF Write, Represents
  <2>2. clip' \in Selection /\ clip'.data = job[c].payload
    BY <1>0, <2>1 DEF ByXclip, Selection, Jobs
  <2>3. Proceed(c, "mark", job[c]) /\ UNCHANGED store
    BY <1>3 DEF Write
  <2>4. rows'[req[c].id].payload = rows[req[c].id].payload /\ rows'[req[c].id] # NoRow
    BY <1>2, <2>3, StillStored, Zenon DEF store
  <2>5. PlaceOK(c, "mark", job[c])
    BY <1>2, <2>2, <2>4, Zenon DEF PlaceOK, Reading
  <2>6. QED
    BY <1>0, <1>1, <2>2, <2>3, <2>5, ProceedInv, SameTable DEF Serving
<1>4. CASE WriteFails(c)
  BY <1>1, <1>4, AnswerInv, SameTable, ConstantTypes DEF WriteFails, Errors
<1>5. CASE Mark(c)
  <2>1. MarkUsed(req[c].id)
    BY <1>2, <1>5 DEF Mark
  <2>2. StoreInv'
    BY <1>2, <2>1, UpdateTable
  <2>3. rows' = rows /\ lastUsed'[req[c].id] = 1
    BY <1>2, <2>1 DEF MarkUsed, Touch
  <2>4. CASE req[c].paste
    <3>1. Proceed(c, "paste", job[c]) /\ clip' = clip
      BY <1>2, <1>5, <2>4 DEF Mark
    <3>2. clip.owner = "xclip" => clip.data = job[c].payload
      BY <1>5 DEF Mark, IInv, OwnsSelection
    <3>3. rows'[req[c].id].payload = rows[req[c].id].payload /\ rows'[req[c].id] # NoRow
      BY <1>2, <2>3, StillStored, Zenon
    <3>4. PlaceOK(c, "paste", job[c])
      BY <1>2, <2>3, <3>1, <3>2, <3>3, Zenon DEF PlaceOK, Reading
    <3>5. QED
      BY <1>0, <1>1, <2>2, <3>1, <3>4, ProceedInv DEF Serving
  <2>5. CASE ~req[c].paste
    BY <1>1, <1>2, <1>5, <2>2, <2>5, AnswerInv, ConstantTypes DEF Mark
  <2>6. QED
    BY <2>4, <2>5
<1>6. CASE Paste(c)
  BY <1>1, <1>6, AnswerInv, SameTable, ConstantTypes DEF Paste
<1>7. QED
  BY <1>3, <1>4, <1>5, <1>6

\* A statement fails: an answer like another.
LEMMA StorageFailsInv ==
  ASSUME IInv, NEW c \in Conns, StorageFails(c)
  PROVE  IInv'
<1>1. Holds(c)
  BY DEF StorageFails, Holds, Serving
<1>2. QED
  BY <1>1, AnswerInv, SameTable, ConstantTypes DEF StorageFails, Errors

\* The request arrives and joins the queue.
LEMMA AcceptInv ==
  ASSUME IInv, NEW c \in Conns, Accept(c)
  PROVE  IInv'
<1>1. TasksType /\ OneAtATime
  BY DEF IInv, TypeOK, TasksType
<1>2. /\ UNCHANGED <<rows, lastUsed, clip, up, req, job>>
      /\ pc[c] = "sent"
      /\ StoreInv'
  BY SameTable DEF Accept, store
<1>3. \E p \in {"answer", "wait"} : pc' = [pc EXCEPT ![c] = p]
  BY DEF Accept
<1>4. \A d \in Conns : d # c => pc'[d] = pc[d]
  BY <1>1, <1>3 DEF TasksType
<1>5. pc'[c] \in {"answer", "wait"}
  BY <1>1, <1>3 DEF TasksType
<1>6. OneAtATime' /\ TasksType'
  <2>1. CASE req[c].op = "malformed"
    <3>1. pc' = [pc EXCEPT ![c] = "answer"] /\ queue' = queue /\ resp' = [resp EXCEPT ![c] = Err("Malformed")]
      BY <2>1 DEF Accept
    <3>2. OneAtATime'
      BY <1>1, <1>2, <3>1, OutsideTasks DEF Serving, Reading, Places
    <3>3. Err("Malformed") \in Response
      BY ConstantTypes DEF Errors
    <3>4. QED
      BY <1>1, <1>2, <3>1, <3>2, <3>3 DEF TasksType, Places
  <2>2. CASE req[c].op # "malformed"
    <3>1. pc' = [pc EXCEPT ![c] = "wait"] /\ queue' = Append(queue, c) /\ resp' = resp
      BY <2>2 DEF Accept
    <3>2. ~Queued(c)
      BY <1>1, <1>2 DEF OneAtATime, WaitersQueued, Serving, Reading
    <3>3. /\ queue' \in Seq(Conns)
          /\ QueuedOnce'
          /\ \A d : Queued(d)' <=> d = c \/ Queued(d)
          /\ queue # << >> => queue' # << >> /\ Head(queue') = Head(queue)
      <4>1. /\ queue \in Seq(Conns)
            /\ \A n \in DOMAIN queue : queue[n] # c
            /\ \A m, n \in DOMAIN queue : queue[m] = queue[n] => m = n
        BY <1>1, <3>2 DEF TasksType, OneAtATime, QueuedOnce, Queued
      <4>2. QED
        <5> DEFINE a == Append(queue, c)
        <5>1. /\ a \in Seq(Conns)
              /\ \A m, n \in DOMAIN a : a[m] = a[n] => m = n
              /\ \A d : (\E n \in DOMAIN a : a[n] = d) <=> d = c \/ (\E n \in DOMAIN queue : queue[n] = d)
              /\ queue # << >> => a # << >> /\ Head(a) = Head(queue)
          BY <4>1, AppendQueue
        <5>2. queue' = a
          BY <3>1
        <5> HIDE DEF a
        <5>3. QED
          BY <5>1, <5>2 DEF QueuedOnce, Queued
    <3>4. pc'[c] = "wait"
      BY <1>1, <3>1 DEF TasksType
    <3>5. HolderServes'
      BY <1>1, <1>4, <3>3, <3>4 DEF OneAtATime, HolderServes, Serving, Reading
    <3>6. WaitersQueued'
      BY <1>1, <1>4, <3>3, <3>4 DEF OneAtATime, WaitersQueued
    <3>7. TasksType'
      BY <1>1, <1>2, <3>1, <3>3 DEF TasksType, Places
    <3>8. QED
      BY <3>3, <3>5, <3>6, <3>7 DEF OneAtATime
  <2>3. QED
    BY <2>1, <2>2
<1>7. TypeOK'
  BY <1>2, <1>6 DEF TypeOK, TasksType, StoreInv
<1>8. RequestsWait'
  <2>1. pc'[c] = "wait" => req[c].op # "malformed"
    BY <1>1 DEF Accept, TasksType
  <2>2. QED
    BY <1>2, <1>4, <2>1 DEF IInv, RequestsWait
<1>9. WritesItsItem'
  BY <1>2, <1>4, <1>5 DEF IInv, WritesItsItem, Stored
<1>10. OwnsSelection' /\ MarkedBeforePaste'
  BY <1>2, <1>4, <1>5 DEF IInv, OwnsSelection, MarkedBeforePaste
<1>11. ReadsInOrder'
  BY <1>2, <1>4, <1>5 DEF IInv, ReadsInOrder, Reading
<1>12. QED
  BY <1>2, <1>6, <1>7, <1>8, <1>9, <1>10, <1>11 DEF IInv

\* A client sends, or its connection ends: the request of a task that is not with
\* the service changes.
LEMMA ClientInv ==
  ASSUME IInv, NEW c \in Conns, Send(c) \/ ReadLineFails(c) \/ Reply(c)
  PROVE  IInv'
<1>1. TasksType /\ OneAtATime
  BY DEF IInv, TypeOK, TasksType
<1>2. /\ UNCHANGED <<rows, lastUsed, clip, up, queue, job>>
      /\ pc[c] \in {"idle", "sent", "answer"}
      /\ StoreInv'
  BY SameTable DEF Send, ReadLineFails, Reply, Close, store
<1>3. PICK p \in {"sent", "idle"} : pc' = [pc EXCEPT ![c] = p]
  BY DEF Send, ReadLineFails, Reply, Close
<1>4. PICK r \in Request : req' = [req EXCEPT ![c] = r]
  BY ConstantTypes, DaemonAssumption DEF Send, ReadLineFails, Reply, Close, DaemonAssumption
<1>5. PICK x \in Response : resp' = [resp EXCEPT ![c] = x]
  <2>1. CASE Send(c)
    <3>1. resp' = [resp EXCEPT ![c] = resp[c]] /\ resp[c] \in Response
      BY <1>1, <2>1 DEF Send, TasksType
    <3>2. QED
      BY <3>1
  <2>2. CASE ReadLineFails(c) \/ Reply(c)
    BY <2>2, ConstantTypes DEF ReadLineFails, Reply, Close
  <2>3. QED
    BY <2>1, <2>2
<1>6. /\ \A d \in Conns : d # c => pc'[d] = pc[d] /\ req'[d] = req[d]
      /\ pc'[c] \in {"sent", "idle"}
  BY <1>1, <1>3, <1>4 DEF TasksType
<1>7. OneAtATime'
  BY <1>1, <1>2, <1>3, OutsideTasks DEF Serving, Reading, Places
<1>8. TypeOK'
  BY <1>1, <1>2, <1>3, <1>4, <1>5 DEF TypeOK, TasksType, StoreInv, Places
<1>9. WritesItsItem'
  BY <1>2, <1>6 DEF IInv, WritesItsItem, Stored
<1>10. OwnsSelection' /\ MarkedBeforePaste'
  BY <1>2, <1>6 DEF IInv, OwnsSelection, MarkedBeforePaste
<1>11. ReadsInOrder' /\ RequestsWait'
  BY <1>2, <1>6 DEF IInv, ReadsInOrder, RequestsWait, Reading
<1>12. QED
  BY <1>2, <1>7, <1>8, <1>9, <1>10, <1>11 DEF IInv

\* Another program takes the selection: it is no xclip's any more.
LEMMA TakeSelectionInv ==
  ASSUME IInv, TakeSelection
  PROVE  IInv'
<1>1. /\ UNCHANGED <<rows, lastUsed, up, queue, pc, req, job, resp>>
      /\ clip' \in Selection /\ clip'.owner # "xclip"
      /\ StoreInv'
  BY SameTable, DaemonAssumption DEF TakeSelection, tasks, store, DaemonAssumption
<1>2. TypeOK'
  BY <1>1 DEF IInv, TypeOK, StoreInv
<1>3. OneAtATime'
  BY <1>1 DEF IInv, OneAtATime, HolderServes, WaitersQueued, QueuedOnce, Queued
<1>4. RequestsWait' /\ ReadsInOrder' /\ MarkedBeforePaste'
  BY <1>1 DEF IInv, RequestsWait, ReadsInOrder, MarkedBeforePaste
<1>5. WritesItsItem'
  BY <1>1 DEF IInv, WritesItsItem, Stored
<1>6. OwnsSelection'
  BY <1>1 DEF OwnsSelection
<1>7. QED
  BY <1>1, <1>2, <1>3, <1>4, <1>5, <1>6 DEF IInv

\* No task is with the service: the initial state, and the one after a crash.
LEMMA AllIdle ==
  ASSUME queue = << >>, pc = [c \in Conns |-> "idle"]
  PROVE  /\ OneAtATime /\ RequestsWait /\ ReadsInOrder
         /\ WritesItsItem /\ OwnsSelection /\ MarkedBeforePaste
<1>1. \A c \in Conns : pc[c] \notin Serving \cup {"wait"}
  BY DEF Serving, Reading
<1>2. \A c : ~Queued(c)
  BY DEF Queued
<1>3. OneAtATime
  BY <1>1, <1>2 DEF OneAtATime, HolderServes, WaitersQueued, QueuedOnce
<1>4. QED
  BY <1>3 DEF RequestsWait, ReadsInOrder, WritesItsItem, OwnsSelection, MarkedBeforePaste, Reading

\* The daemon dies and is started again.
LEMMA CrashInv ==
  ASSUME IInv, Crash \/ Restart
  PROVE  IInv'
<1>1. StoreInv'
  BY SameTable DEF Crash, Restart
<1>2. CASE Crash
  <2>1. clip' \in Selection /\ queue' \in Seq(Conns)
    BY <1>2, ConstantTypes DEF Crash, IInv, TypeOK
  <2>2. TypeOK'
    BY <1>1, <1>2, <2>1, ConstantTypes DEF Crash, TypeOK, StoreInv, Places
  <2>3. /\ OneAtATime' /\ RequestsWait' /\ ReadsInOrder'
        /\ WritesItsItem' /\ OwnsSelection' /\ MarkedBeforePaste'
    <3>1. queue' = << >> /\ pc' = [c \in Conns |-> "idle"]
      BY <1>2 DEF Crash
    <3>2. (queue = << >> /\ pc = [c \in Conns |-> "idle"] =>
             /\ OneAtATime /\ RequestsWait /\ ReadsInOrder
             /\ WritesItsItem /\ OwnsSelection /\ MarkedBeforePaste)'
      BY AllIdle, PTL
    <3>3. QED
      BY <3>1, <3>2
  <2>4. QED
    BY <1>1, <2>2, <2>3 DEF IInv
<1>3. CASE Restart
  <2>1. UNCHANGED <<rows, lastUsed, clip, queue, pc, req, job, resp>> /\ up' \in BOOLEAN
    BY <1>3 DEF Restart, store, tasks
  <2>2. TypeOK'
    BY <1>1, <2>1 DEF IInv, TypeOK, StoreInv
  <2>3. OneAtATime'
    BY <2>1 DEF IInv, OneAtATime, HolderServes, WaitersQueued, QueuedOnce, Queued
  <2>4. RequestsWait' /\ ReadsInOrder' /\ MarkedBeforePaste' /\ OwnsSelection'
    BY <2>1 DEF IInv, RequestsWait, ReadsInOrder, MarkedBeforePaste, OwnsSelection
  <2>5. WritesItsItem'
    BY <2>1 DEF IInv, WritesItsItem, Stored
  <2>6. QED
    BY <1>1, <2>2, <2>3, <2>4, <2>5 DEF IInv
<1>4. QED
  BY <1>2, <1>3

-----------------------------------------------------------------------------
(***************************************************************************)
(* The theorems.                                                           *)
(***************************************************************************)
LEMMA Initially == Init => IInv
<1> SUFFICES ASSUME Init PROVE IInv
  OBVIOUS
<1>1. StoreInv
  BY InitInv DEF Init
<1>2. TypeOK
  BY <1>1, ConstantTypes, DaemonAssumption DEF Init, TypeOK, StoreInv, Places, DaemonAssumption
<1>3. QED
  BY <1>1, <1>2, AllIdle DEF Init, IInv

\* A step that changes nothing keeps the invariant.
LEMMA Stuttering == IInv /\ UNCHANGED vars => IInv'
<1> SUFFICES ASSUME IInv, UNCHANGED vars PROVE IInv'
  OBVIOUS
<1>1. UNCHANGED <<rows, lastUsed, clip, up, queue, pc, req, job, resp>> /\ StoreInv'
  BY SameTable DEF vars, store
<1>2. TypeOK'
  BY <1>1 DEF IInv, TypeOK, StoreInv
<1>3. OneAtATime'
  BY <1>1 DEF IInv, OneAtATime, HolderServes, WaitersQueued, QueuedOnce, Queued
<1>4. RequestsWait' /\ ReadsInOrder' /\ MarkedBeforePaste' /\ OwnsSelection'
  BY <1>1 DEF IInv, RequestsWait, ReadsInOrder, MarkedBeforePaste, OwnsSelection
<1>5. WritesItsItem'
  BY <1>1 DEF IInv, WritesItsItem, Stored
<1>6. QED
  BY <1>1, <1>2, <1>3, <1>4, <1>5 DEF IInv

\* The steps of tasks, clients, other programs and systemd keep the invariant.
LEMMA NextInv == IInv /\ [Next]_vars => IInv'
<1> SUFFICES ASSUME IInv, [Next]_vars PROVE IInv'
  OBVIOUS
<1>1. CASE TakeSelection
  BY <1>1, TakeSelectionInv
<1>2. CASE Crash \/ Restart
  BY <1>2, CrashInv
<1>3. ASSUME NEW c \in Conns, Send(c) \/ Accept(c) \/ ReadLineFails(c) \/ Serve(c) \/ Reply(c)
      PROVE  IInv'
  <2>1. CASE Send(c) \/ ReadLineFails(c) \/ Reply(c)
    BY <2>1, ClientInv
  <2>2. CASE Accept(c)
    BY <2>2, AcceptInv
  <2>3. CASE Serve(c)
    BY <2>3, ShortInv, CaptureInv, BeginRestoreInv, RestoreInv, StorageFailsInv DEF Serve
  <2>4. QED
    BY <1>3, <2>1, <2>2, <2>3
<1>4. CASE UNCHANGED vars
  BY <1>4, Stuttering
<1>5. QED
  BY <1>1, <1>2, <1>3, <1>4 DEF Next

\* The invariant of the daemon, for any number of connections and any requests.
THEOREM Inductive == Spec => []IInv
BY Initially, NextInv, PTL DEF Spec

\* The state of the daemon stays what its declarations say.
THEOREM TypeCorrect == Spec => []TypeOK
<1>1. IInv => TypeOK
  BY DEF IInv
<1>2. QED
  BY <1>1, Inductive, PTL

\* The mutex around the service does its work: no two tasks are in the middle
\* of a request, though each awaits xclip and xdotool several times.
THEOREM ServesOneAtATime == Spec => []OneAtATime
<1>1. IInv => OneAtATime
  BY DEF IInv
<1>2. QED
  BY <1>1, Inductive, PTL

\* Interleaved captures, restores and crashes never make two rows of one
\* content, nor two rows that are equally recent, nor a search with two answers.
THEOREM TableSound == Spec => [](UniqueHash /\ RankedOnce /\ OneListing)
<1>1. IInv => UniqueHash /\ RankedOnce /\ OneListing
  BY StoreListing DEF IInv, StoreInv
<1>2. QED
  BY <1>1, Inductive, PTL

\* A restore pastes what it wrote, unless another program took the selection.
THEOREM RestoresPasteTheirOwn == Spec => []PastesItsOwn
<1>1. IInv => PastesItsOwn
  BY DEF IInv, OwnsSelection, PastesItsOwn
<1>2. QED
  BY <1>1, Inductive, PTL

\* A restore writes a representation of the item asked for, never nothing and
\* never an image when plain text was asked for, whatever other requests did to
\* the item in the meantime.
THEOREM RestoresWriteTheirItem == Spec => []WritesItsItem
<1>1. IInv => WritesItsItem
  BY DEF IInv
<1>2. QED
  BY <1>1, Inductive, PTL

\* The item is the latest of the history when the paste key is sent.
THEOREM MarkedWhenPasting == Spec => []MarkedBeforePaste
<1>1. IInv => MarkedBeforePaste
  BY DEF IInv
<1>2. QED
  BY <1>1, Inductive, PTL

\* A step changes the selection only if another program takes it, the xclip of
\* a restore takes it, or that xclip dies with the daemon.
LEMMA SelectionSteps ==
  ASSUME Next
  PROVE  clip' \in {clip, Nobody} \cup Outside \/ \E c \in Conns : Write(c)
<1>1. CASE TakeSelection
  BY <1>1 DEF TakeSelection
<1>2. CASE Crash \/ Restart
  BY <1>2 DEF Crash, Restart
<1>3. ASSUME NEW c \in Conns, Send(c) \/ Accept(c) \/ ReadLineFails(c) \/ Reply(c)
      PROVE  clip' = clip
  BY <1>3 DEF Send, Accept, ReadLineFails, Reply, Close
<1>4. ASSUME NEW c \in Conns, Serve(c), ~Write(c)
      PROVE  clip' = clip
  <2>1. CASE Search(c) \/ Delete(c) \/ Pin(c) \/ Favorite(c)
    BY <2>1 DEF Search, Delete, Pin, Favorite, Update, Answer
  <2>2. CASE BeginCapture(c) \/ ListTargets(c) \/ ReadText(c) \/ ReadHtml(c) \/ ReadPng(c)
    BY <2>2 DEF BeginCapture, ListTargets, ReadText, ReadHtml, ReadPng
  <2>3. CASE ReadFails(c) \/ StoreCapture(c) \/ WriteFails(c) \/ Paste(c) \/ StorageFails(c)
    BY <2>3 DEF ReadFails, StoreCapture, WriteFails, Paste, StorageFails, Answer
  <2>4. CASE BeginRestore(c) \/ Mark(c)
    BY <2>4 DEF BeginRestore, Mark, Answer
  <2>5. QED
    BY <1>4, <2>1, <2>2, <2>3, <2>4 DEF Serve
<1>5. QED
  BY <1>1, <1>2, <1>3, <1>4 DEF Next

\* Between two reads of a capture the daemon does not change the selection: no
\* restore writes while a capture is under way.
THEOREM CapturesUndisturbed == Spec => CaptureUndisturbed
<1>1. ASSUME IInv, Next, NEW c \in Conns, pc[c] \in Reading, clip' # clip
      PROVE  clip' \in Outside \cup {Nobody}
  <2>1. ASSUME NEW d \in Conns, Write(d) PROVE FALSE
    <3>1. pc[d] = "write"
      BY <2>1 DEF Write
    <3>2. c = d
      BY <1>1, <3>1 DEF IInv, OneAtATime, HolderServes, Serving
    <3>3. QED
      BY <1>1, <3>1, <3>2 DEF Reading
  <2>2. QED
    BY <1>1, <2>1, SelectionSteps
<1>2. IInv /\ [Next]_vars =>
        [\A c \in Conns : pc[c] \in Reading /\ clip' # clip => clip' \in Outside \cup {Nobody}]_vars
  BY <1>1
<1>3. QED
  BY <1>2, Inductive, PTL DEF Spec, CaptureUndisturbed

-----------------------------------------------------------------------------
(***************************************************************************)
(* rcopyd implements the atomic service: every step of a task, of another  *)
(* program or of systemd is a step of AtomicService or leaves it where it  *)
(* was, for every number of connections and any requests. The request in   *)
(* progress is seen through AbsCall (Daemon); its place among the steps of *)
(* the daemon is the one step that changes the table.                      *)
(***************************************************************************)

(***************************************************************************)
(* What the atomic service sees of a step.                                 *)
(***************************************************************************)
\* The response as the atomic service gives it.
Shown(x) == IF x.type = "Restored" THEN Ok ELSE x

\* AbsCall of one connection, from its place, request and response.
View(p, r, x) ==
  CASE p = "idle" -> Svc!Idle
    [] p = "paste" -> Svc!Done(Ok)
    [] p = "answer" -> Svc!Done(Shown(x))
    [] OTHER -> Svc!Pending(r)

\* The mapping, connection by connection, before and after a step.
LEMMA AbsView ==
  /\ AbsCall = [c \in Conns |-> View(pc[c], req[c], resp[c])]
  /\ AbsCall' = [c \in Conns |-> View(pc'[c], req'[c], resp'[c])]
BY DEF AbsCall, View, Shown, Svc!Idle, Svc!Done, Svc!Pending, Svc!Ok, Ok

\* A step of one connection changes its call alone.
LEMMA OneMoves ==
  ASSUME NEW c \in Conns, TasksType, NEW p, NEW r, NEW x,
         pc' = [pc EXCEPT ![c] = p], req' = [req EXCEPT ![c] = r], resp' = [resp EXCEPT ![c] = x]
  PROVE  AbsCall' = [AbsCall EXCEPT ![c] = View(p, r, x)]
<1>1. /\ pc'[c] = p /\ req'[c] = r /\ resp'[c] = x
      /\ \A d \in Conns : d # c => pc'[d] = pc[d] /\ req'[d] = req[d] /\ resp'[d] = resp[d]
  BY DEF TasksType
<1>2. QED
  BY <1>1, AbsView

\* The call of a connection that is not idle, pasting or answered.
LEMMA PendingCall ==
  ASSUME NEW c \in Conns, pc[c] \notin {"idle", "paste", "answer"}
  PROVE  AbsCall[c] = Svc!Pending(req[c])
BY AbsView DEF View

\* An answer of the daemon is one of the atomic service.
LEMMA AbsAnswer ==
  ASSUME NEW c \in Conns, TasksType, NEW x, Answer(c, x)
  PROVE  Svc!Answer(c, Shown(x))
<1>1. /\ pc' = [pc EXCEPT ![c] = "answer"] /\ resp' = [resp EXCEPT ![c] = x]
      /\ req' = [req EXCEPT ![c] = req[c]]
  BY DEF Answer, TasksType
<1>2. AbsCall' = [AbsCall EXCEPT ![c] = View("answer", req[c], x)]
  BY <1>1, OneMoves
<1>3. QED
  BY <1>2 DEF View, Svc!Answer

\* The atomic service does not see a request go from one place to the next.
LEMMA AbsProceed ==
  ASSUME NEW c \in Conns, TasksType, pc[c] \notin {"idle", "paste", "answer"},
         NEW p \in Serving \ {"paste"}, NEW j, Proceed(c, p, j)
  PROVE  AbsCall' = AbsCall
<1>1. /\ pc' = [pc EXCEPT ![c] = p] /\ resp' = [resp EXCEPT ![c] = resp[c]]
      /\ req' = [req EXCEPT ![c] = req[c]]
  BY DEF Proceed, TasksType
<1>2. AbsCall' = [AbsCall EXCEPT ![c] = View(p, req[c], resp[c])]
  BY <1>1, OneMoves
<1>3. View(p, req[c], resp[c]) = AbsCall[c]
  BY PendingCall DEF View, Serving, Reading
<1>4. QED
  BY <1>2, <1>3, AbsView

\* The paste and its answer are after the effect.
LEMMA AbsPaste ==
  ASSUME NEW c \in Conns, TasksType, Paste(c)
  PROVE  AbsCall' = AbsCall
<1>1. PICK done \in BOOLEAN : Answer(c, Restored(TRUE, done))
  BY DEF Paste
<1>2. AbsCall' = [AbsCall EXCEPT ![c] = Svc!Done(Ok)]
  BY <1>1, AbsAnswer DEF Svc!Answer, Shown, Restored
<1>3. AbsCall[c] = Svc!Done(Ok)
  BY AbsView DEF Paste, View
<1>4. QED
  BY <1>2, <1>3, AbsView

-----------------------------------------------------------------------------
(***************************************************************************)
(* The failures.                                                           *)
(***************************************************************************)
\* An error of the daemon is one that the atomic service allows.
LEMMA AbsFail ==
  ASSUME NEW c \in Conns, TasksType, pc[c] \notin {"idle", "paste", "answer"},
         NEW e \in Svc!Failures(req[c]), Answer(c, Err(e)), UNCHANGED store
  PROVE  Svc!Fail(c)
<1>1. AbsCall[c] = Svc!Pending(req[c])
  BY PendingCall
<1>2. Svc!Answer(c, Err(e))
  BY AbsAnswer DEF Shown, Err
<1>3. QED
  BY <1>1, <1>2 DEF Svc!Fail, Svc!Pending, Svc!Err, Err, Svc!store, store

\* What a task with the service meets: a request, and one of its errors.
LEMMA ErrorsAllowed ==
  ASSUME NEW r \in Request
  PROVE  /\ r.op # "malformed" => "Storage" \in Svc!Failures(r)
         /\ r.op = "malformed" => "Malformed" \in Svc!Failures(r)
         /\ r.op \in {"capture", "restore"} => "Clipboard" \in Svc!Failures(r)
         /\ r.op \in {"restore", "delete", "pin", "favorite"} /\ ~Stored(r.id)
              => "NotFound" \in Svc!Failures(r)
         /\ r.op = "restore" /\ r.plain /\ Stored(r.id) /\ rows[r.id].payload.text = None
              => "PlainTextUnavailable" \in Svc!Failures(r)
BY DEF Svc!Failures, Svc!Errors, Svc!Stored, Stored

\* A task that serves, or that is about to be served, has a request.
LEMMA ServedRequest ==
  ASSUME IInv, NEW c \in Conns
  PROVE  /\ TasksType /\ req[c] \in Request
         /\ Granted(c) => req[c].op # "malformed"
         /\ pc[c] \in Reading \cup {"store"} => req[c].op = "capture"
         /\ pc[c] \in {"write", "mark", "paste"} => req[c].op = "restore"
BY DEF IInv, TypeOK, TasksType, RequestsWait, ReadsInOrder, WritesItsItem, Granted

\* The steps that fail a request, by a failed statement, read or write.
LEMMA FailureSteps ==
  ASSUME IInv, NEW c \in Conns, ReadFails(c) \/ WriteFails(c) \/ StorageFails(c)
  PROVE  Svc!Fail(c)
<1>1. CASE ReadFails(c)
  <2>1. req[c].op = "capture" /\ pc[c] \notin {"idle", "paste", "answer"}
    BY <1>1, ServedRequest DEF ReadFails, Reading
  <2>2. "Clipboard" \in Svc!Failures(req[c])
    BY <2>1, ServedRequest, ErrorsAllowed
  <2>3. QED
    BY <1>1, <2>1, <2>2, AbsFail, ServedRequest DEF ReadFails
<1>2. CASE WriteFails(c)
  <2>1. req[c].op = "restore" /\ pc[c] \notin {"idle", "paste", "answer"}
    BY <1>2, ServedRequest DEF WriteFails
  <2>2. "Clipboard" \in Svc!Failures(req[c])
    BY <2>1, ServedRequest, ErrorsAllowed
  <2>3. QED
    BY <1>2, <2>1, <2>2, AbsFail, ServedRequest DEF WriteFails
<1>3. CASE StorageFails(c)
  <2>1. req[c].op # "malformed" /\ pc[c] \notin {"idle", "paste", "answer"}
    BY <1>3, ServedRequest DEF StorageFails, Granted
  <2>2. "Storage" \in Svc!Failures(req[c])
    BY <2>1, ServedRequest, ErrorsAllowed
  <2>3. QED
    BY <1>3, <2>1, <2>2, AbsFail, ServedRequest DEF StorageFails
<1>4. QED
  BY <1>1, <1>2, <1>3

-----------------------------------------------------------------------------
(***************************************************************************)
(* The operations.                                                         *)
(***************************************************************************)
\* A pending request of kind op, seen from the atomic service.
LEMMA AbsAsked ==
  ASSUME NEW c \in Conns, pc[c] \notin {"idle", "paste", "answer"}
  PROVE  /\ AbsCall[c].req = req[c]
         /\ \A op : Svc!Asked(c, op) <=> req[c].op = op
<1>1. AbsCall[c] = [st |-> "pending", req |-> req[c]]
  BY PendingCall DEF Svc!Pending
<1>2. AbsCall[c].req = req[c] /\ AbsCall[c].st = "pending"
  BY <1>1
<1>3. QED
  BY <1>2, Zenon DEF Svc!Asked

\* The instance of the table is the table: its listings are the same.
LEMMA SameListings == ASSUME NEW q PROVE Svc!Listings(q) = Listings(q)
<1>0. \A S : Svc!Cardinality(S) = Cardinality(S)
  BY Zenon DEF Svc!Cardinality, Cardinality
<1>1. Svc!Live = Live
  BY Zenon DEF Live, Svc!Live, Stored, Svc!Stored
<1>2. Svc!Window = Window
  BY <1>0, <1>1, Zenon DEF Window, Svc!Window
<1>3. Svc!Found(q) = Found(q)
  BY <1>2, Zenon DEF Found, Svc!Found, Matches, Svc!Matches
<1>4. \A i, j : Svc!Before(i, j) <=> Before(i, j)
  BY Zenon DEF Before, Svc!Before
<1>5. QED
  BY <1>0, <1>3, <1>4, Zenon DEF Listings, Svc!Listings

\* A search answers with a listing of the same history.
LEMMA SearchSteps ==
  ASSUME IInv, NEW c \in Conns, Search(c)
  PROVE  Svc!Search(c)
<1>1. PICK s \in Listings(req[c].query) : Answer(c, Items([n \in DOMAIN s |-> ItemOf(s[n])]))
  BY DEF Search
<1>2. req[c].op = "search" /\ pc[c] = "wait" /\ UNCHANGED store
  BY DEF Search, Granted
<1>3. Svc!Answer(c, Items([n \in DOMAIN s |-> ItemOf(s[n])]))
  BY <1>1, AbsAnswer, ServedRequest DEF Shown, Items
<1>4. Items([n \in DOMAIN s |-> ItemOf(s[n])]) = Svc!Items([n \in DOMAIN s |-> Svc!ItemOf(s[n])])
  BY DEF Items, Svc!Items, ItemOf, Svc!ItemOf
<1>5. s \in Svc!Listings(req[c].query)
  BY <1>1, SameListings
<1>6. AbsCall[c].req = req[c] /\ Svc!Asked(c, "search")
  BY <1>2, AbsAsked
<1>7. UNCHANGED Svc!store
  BY <1>2 DEF store, Svc!store
<1>8. QED
  BY <1>3, <1>4, <1>5, <1>6, <1>7 DEF Svc!Search

\* Delete, Pin and Favorite: the update of a stored row, or NotFound.
LEMMA UpdateSteps ==
  ASSUME IInv, NEW c \in Conns, Delete(c) \/ Pin(c) \/ Favorite(c)
  PROVE  Svc!Delete(c) \/ Svc!Pin(c) \/ Svc!Favorite(c) \/ Svc!Fail(c)
<1>1. /\ pc[c] = "wait" /\ req[c].op \in {"delete", "pin", "favorite"}
      /\ TasksType
  BY ServedRequest DEF Delete, Pin, Favorite, Granted
<1>2. CASE ~Stored(req[c].id)
  <2>1. Answer(c, Err("NotFound")) /\ UNCHANGED store
    BY <1>2 DEF Delete, Pin, Favorite, Update
  <2>2. "NotFound" \in Svc!Failures(req[c])
    BY <1>1, <1>2, ErrorsAllowed, ServedRequest
  <2>3. QED
    BY <1>1, <2>1, <2>2, AbsFail
<1>3. CASE Stored(req[c].id)
  <2>1. Answer(c, Ok)
    BY <1>3 DEF Delete, Pin, Favorite, Update
  <2>2. Svc!Answer(c, Svc!Ok)
    BY <1>1, <2>1, AbsAnswer DEF Shown, Ok, Svc!Ok
  <2>3. AbsCall[c].req = req[c] /\ \A op : Svc!Asked(c, op) <=> req[c].op = op
    BY <1>1, AbsAsked
  <2>4. Svc!Stored(req[c].id)
    BY <1>3 DEF Stored, Svc!Stored
  <2>5. CASE Delete(c)
    BY <1>3, <2>2, <2>3, <2>4, <2>5
    DEF Delete, Update, Svc!Delete, SoftDelete, Svc!SoftDelete
  <2>6. CASE Pin(c)
    BY <1>3, <2>2, <2>3, <2>4, <2>6 DEF Pin, Update, Svc!Pin, SetPinned, Svc!SetPinned
  <2>7. CASE Favorite(c)
    BY <1>3, <2>2, <2>3, <2>4, <2>7
    DEF Favorite, Update, Svc!Favorite, SetFavorite, Svc!SetFavorite
  <2>8. QED
    BY <2>5, <2>6, <2>7
<1>4. QED
  BY <1>2, <1>3

\* A capture takes effect at its last step; before, it is not seen.
LEMMA SameUpsert == ASSUME NEW p, Upsert(p) PROVE Svc!Upsert(p)
BY Zenon DEF Upsert, Svc!Upsert, Touch, Svc!Touch, Stored, Svc!Stored

\* The last step of a capture is the capture of the atomic service.
LEMMA CaptureSteps ==
  ASSUME IInv, NEW c \in Conns, StoreCapture(c)
  PROVE  Svc!Capture(c)
<1>1. /\ pc[c] = "store" /\ TasksType /\ req[c].op = "capture"
  BY ServedRequest DEF StoreCapture
<1>2. Svc!Asked(c, "capture")
  BY <1>1, AbsAsked
<1>3. \A b \in BOOLEAN : Answer(c, Captured(b)) => Svc!Answer(c, Svc!Captured(b))
  BY <1>1, AbsAnswer DEF Shown, Captured, Svc!Captured
<1>4. CASE IsEmpty(job[c].payload)
  <2>1. Svc!Answer(c, Svc!Captured(FALSE)) /\ UNCHANGED store
    BY <1>3, <1>4 DEF StoreCapture
  <2>2. QED
    BY <1>2, <2>1 DEF Svc!Capture, store, Svc!store
<1>5. CASE ~IsEmpty(job[c].payload)
  <2>1. Upsert(job[c].payload) /\ Svc!Answer(c, Svc!Captured(TRUE))
    BY <1>3, <1>5 DEF StoreCapture
  <2>2. job[c].payload \in Svc!Readable
    <3>1. job[c].payload \in Payload
      BY <1>1 DEF TasksType, Jobs
    <3>2. job[c].payload.text = None \/ job[c].payload.html = None
      BY <1>1 DEF IInv, ReadsInOrder
    <3>3. QED
      BY <3>1, <3>2 DEF Svc!Readable, Svc!Payload, Payload
  <2>3. ~Svc!IsEmpty(job[c].payload) /\ Svc!Upsert(job[c].payload)
    BY <1>5, <2>1, SameUpsert DEF IsEmpty, Svc!IsEmpty
  <2>4. QED
    BY <1>2, <2>1, <2>2, <2>3 DEF Svc!Capture
<1>6. QED
  BY <1>4, <1>5

\* The places of a capture and of a restore before its mark are not seen.
LEMMA HiddenSteps ==
  ASSUME IInv, NEW c \in Conns,
         BeginCapture(c) \/ ListTargets(c) \/ ReadText(c) \/ ReadHtml(c) \/ ReadPng(c) \/ Write(c)
  PROVE  UNCHANGED Svc!vars
<1>1. pc[c] \in {"wait", "targets", "text", "html", "png", "write"} /\ UNCHANGED store
  BY DEF BeginCapture, Granted, ListTargets, ReadText, ReadHtml, ReadPng, Write
<1>2. \A k, j : NextRead(k, j) \in {"text", "html", "png", "store"}
  BY Zenon DEF NextRead
<1>3. \E j : \E p \in {"targets", "text", "html", "png", "store", "mark"} : Proceed(c, p, j)
  BY <1>2 DEF BeginCapture, ListTargets, ReadText, ReadHtml, ReadPng, Write
<1>4. AbsCall' = AbsCall
  BY <1>1, <1>3, AbsProceed, ServedRequest DEF Serving, Reading
<1>5. QED
  BY <1>1, <1>4 DEF Svc!vars, store

\* A restore is begun, or refused.
LEMMA BeginRestoreSteps ==
  ASSUME IInv, NEW c \in Conns, BeginRestore(c)
  PROVE  Svc!Fail(c) \/ UNCHANGED Svc!vars
<1> DEFINE plainless == req[c].plain /\ rows[req[c].id].payload.text = None
<1>1. /\ pc[c] = "wait" /\ req[c].op = "restore" /\ UNCHANGED store
      /\ TasksType /\ req[c] \in Request
  BY ServedRequest DEF BeginRestore, Granted
<1>2. CASE ~Stored(req[c].id)
  <2>1. Answer(c, Err("NotFound"))
    BY <1>2 DEF BeginRestore
  <2>2. "NotFound" \in Svc!Failures(req[c])
    BY <1>1, <1>2, ErrorsAllowed
  <2>3. QED
    BY <1>1, <2>1, <2>2, AbsFail
<1>3. CASE Stored(req[c].id) /\ plainless
  <2>1. Answer(c, Err("PlainTextUnavailable"))
    BY <1>3 DEF BeginRestore
  <2>2. "PlainTextUnavailable" \in Svc!Failures(req[c])
    BY <1>1, <1>3, ErrorsAllowed
  <2>3. QED
    BY <1>1, <2>1, <2>2, AbsFail
<1>4. CASE Stored(req[c].id) /\ ~plainless
  <2>1. \E j : Proceed(c, "write", j)
    BY <1>4 DEF BeginRestore
  <2>2. AbsCall' = AbsCall
    BY <1>1, <2>1, AbsProceed DEF Serving, Reading
  <2>3. QED
    BY <1>1, <2>2 DEF Svc!vars, store
<1>5. QED
  BY <1>2, <1>3, <1>4

\* A restore takes effect when its item is marked used: the item is stored,
\* and has a text if plain text was asked for.
LEMMA MarkSteps ==
  ASSUME IInv, NEW c \in Conns, Mark(c)
  PROVE  Svc!Restore(c)
<1>1. pc[c] = "mark" /\ TasksType /\ req[c].op = "restore" /\ req[c] \in Request
  BY ServedRequest DEF Mark
<1>2. /\ Stored(req[c].id)
      /\ req[c].plain => rows[req[c].id].payload.text # None
  <2>1. Stored(req[c].id) /\ Represents(job[c].payload, rows[req[c].id].payload, req[c].plain)
    BY <1>1 DEF IInv, WritesItsItem
  <2>2. QED
    BY <2>1 DEF Represents
<1>3. MarkUsed(req[c].id)
  BY <1>2 DEF Mark
<1>4. Svc!MarkUsed(req[c].id) /\ Svc!Stored(req[c].id)
  BY <1>2, <1>3, Zenon DEF MarkUsed, Svc!MarkUsed, Touch, Svc!Touch, Stored, Svc!Stored
<1>5. Svc!Answer(c, Svc!Ok)
  <2>1. CASE req[c].paste
    <3>1. Proceed(c, "paste", job[c])
      BY <1>2, <2>1 DEF Mark
    <3>2. /\ pc' = [pc EXCEPT ![c] = "paste"] /\ resp' = [resp EXCEPT ![c] = resp[c]]
          /\ req' = [req EXCEPT ![c] = req[c]]
      BY <1>1, <3>1 DEF Proceed, TasksType
    <3>3. AbsCall' = [AbsCall EXCEPT ![c] = View("paste", req[c], resp[c])]
      BY <1>1, <3>2, OneMoves
    <3>4. QED
      BY <3>3 DEF View, Svc!Answer, Ok, Svc!Ok
  <2>2. CASE ~req[c].paste
    <3>1. Answer(c, Restored(FALSE, FALSE))
      BY <1>2, <2>2 DEF Mark
    <3>2. QED
      BY <1>1, <3>1, AbsAnswer DEF Shown, Restored, Ok, Svc!Ok
  <2>3. QED
    BY <2>1, <2>2
<1>6. AbsCall[c].req = req[c] /\ Svc!Asked(c, "restore")
  BY <1>1, AbsAsked
<1>7. QED
  BY <1>2, <1>4, <1>5, <1>6 DEF Svc!Restore
-----------------------------------------------------------------------------
(***************************************************************************)
(* The clients, the socket and the daemon's death.                         *)
(***************************************************************************)
LEMMA SendSteps ==
  ASSUME IInv, NEW c \in Conns, Send(c)
  PROVE  Svc!Invoke(c)
<1>1. PICK r \in Requests : req' = [req EXCEPT ![c] = r]
  BY DEF Send
<1>2. /\ pc' = [pc EXCEPT ![c] = "sent"] /\ resp' = [resp EXCEPT ![c] = resp[c]]
      /\ pc[c] = "idle" /\ UNCHANGED store /\ TasksType
  BY ServedRequest DEF Send, TasksType, store
<1>3. AbsCall' = [AbsCall EXCEPT ![c] = Svc!Pending(r)]
  BY <1>1, <1>2, OneMoves DEF View
<1>4. AbsCall[c] = Svc!Idle
  BY <1>2, AbsView DEF View
<1>5. QED
  BY <1>2, <1>3, <1>4 DEF Svc!Invoke, store, Svc!store

\* A line that is parsed waits, or is answered as malformed.
LEMMA AcceptSteps ==
  ASSUME IInv, NEW c \in Conns, Accept(c)
  PROVE  Svc!Fail(c) \/ UNCHANGED Svc!vars
<1>1. /\ pc[c] = "sent" /\ UNCHANGED <<rows, lastUsed>> /\ TasksType /\ req[c] \in Request
      /\ req' = [req EXCEPT ![c] = req[c]]
  BY ServedRequest DEF Accept, TasksType
<1>2. AbsCall[c] = Svc!Pending(req[c])
  BY <1>1, PendingCall
<1>3. CASE req[c].op = "malformed"
  <2>1. /\ pc' = [pc EXCEPT ![c] = "answer"]
        /\ resp' = [resp EXCEPT ![c] = Err("Malformed")]
    BY <1>3 DEF Accept
  <2>2. AbsCall' = [AbsCall EXCEPT ![c] = Svc!Done(Err("Malformed"))]
    BY <1>1, <2>1, OneMoves DEF View, Shown, Err
  <2>3. "Malformed" \in Svc!Failures(req[c])
    BY <1>1, <1>3, ErrorsAllowed
  <2>4. AbsCall[c].st = "pending" /\ AbsCall[c].req = req[c]
    BY <1>2 DEF Svc!Pending
  <2>5. Svc!Answer(c, Svc!Err("Malformed"))
    BY <2>2 DEF Svc!Answer, Svc!Err, Err
  <2>6. QED
    BY <1>1, <2>3, <2>4, <2>5 DEF Svc!Fail, Svc!store
<1>4. CASE req[c].op # "malformed"
  <2>1. pc' = [pc EXCEPT ![c] = "wait"] /\ resp' = [resp EXCEPT ![c] = resp[c]]
    BY <1>1, <1>4 DEF Accept, TasksType
  <2>2. AbsCall' = [AbsCall EXCEPT ![c] = Svc!Pending(req[c])]
    BY <1>1, <2>1, OneMoves DEF View
  <2>3. AbsCall' = AbsCall
    BY <1>2, <2>2, AbsView
  <2>4. QED
    BY <1>1, <2>3 DEF Svc!vars
<1>5. QED
  BY <1>3, <1>4

\* The connection ends, after the response was written back or without one.
LEMMA CloseSteps ==
  ASSUME IInv, NEW c \in Conns, ReadLineFails(c) \/ Reply(c)
  PROVE  Svc!Drop
<1>1. /\ pc' = [pc EXCEPT ![c] = "idle"] /\ req' = [req EXCEPT ![c] = NoReq]
      /\ resp' = [resp EXCEPT ![c] = Ok]
      /\ pc[c] \in {"sent", "answer"} /\ UNCHANGED store /\ TasksType
  BY ServedRequest DEF ReadLineFails, Reply, Close, store
<1>2. AbsCall' = [AbsCall EXCEPT ![c] = Svc!Idle]
  BY <1>1, OneMoves DEF View
<1>3. AbsCall[c] # Svc!Idle
  BY <1>1, AbsView DEF View, Svc!Done, Svc!Pending, Svc!Idle
<1>4. AbsCall' = [d \in Conns |-> IF d \in {c} THEN Svc!Idle ELSE AbsCall[d]]
  BY <1>2, AbsView
<1>5. QED
  <2>1. {c} \in SUBSET Conns /\ c \in {c}
    OBVIOUS
  <2>2. UNCHANGED Svc!store
    BY <1>1 DEF store, Svc!store
  <2>3. QED
    BY <1>3, <1>4, <2>1, <2>2 DEF Svc!Drop

\* With the daemon all connections end, those with a request in progress, if
\* there are any, before their answer.
LEMMA CrashSteps ==
  ASSUME Crash
  PROVE  Svc!Drop \/ UNCHANGED Svc!vars
<1>1. AbsCall' = [c \in Conns |-> Svc!Idle]
  BY AbsView DEF Crash, View
<1>2. UNCHANGED <<rows, lastUsed>>
  BY DEF Crash, store
<1>3. CASE \E c \in Conns : AbsCall[c] # Svc!Idle
  <2>1. AbsCall' = [c \in Conns |-> IF c \in Conns THEN Svc!Idle ELSE AbsCall[c]]
    BY <1>1
  <2>2. Conns \in SUBSET Conns
    OBVIOUS
  <2>3. QED
    BY <1>2, <1>3, <2>1, <2>2 DEF Svc!Drop, Svc!store
<1>4. CASE \A c \in Conns : AbsCall[c] = Svc!Idle
  BY <1>1, <1>2, <1>4, AbsView DEF Svc!vars
<1>5. QED
  BY <1>3, <1>4

\* The steps the service does not see at all.
LEMMA OtherSteps ==
  ASSUME TakeSelection \/ Restart \/ UNCHANGED vars
  PROVE  UNCHANGED Svc!vars
<1>1. UNCHANGED <<rows, lastUsed, pc, req, resp>>
  BY DEF TakeSelection, Restart, vars, store, tasks
<1>2. QED
  BY <1>1, AbsView DEF Svc!vars

-----------------------------------------------------------------------------
(***************************************************************************)
(* The theorem.                                                            *)
(***************************************************************************)
\* A step of a task is a step of the service on its request, or none.
LEMMA TaskRefines ==
  ASSUME IInv, NEW c \in Conns, Accept(c) \/ Serve(c)
  PROVE  Svc!Serve(c) \/ UNCHANGED Svc!vars
<1>1. CASE Accept(c)
  BY <1>1, AcceptSteps DEF Svc!Serve
<1>2. CASE Search(c) \/ Delete(c) \/ Pin(c) \/ Favorite(c)
  BY <1>2, SearchSteps, UpdateSteps DEF Svc!Serve
<1>3. CASE \/ BeginCapture(c) \/ ListTargets(c) \/ ReadText(c) \/ ReadHtml(c) \/ ReadPng(c)
           \/ Write(c)
  BY <1>3, HiddenSteps
<1>4. CASE ReadFails(c) \/ WriteFails(c) \/ StorageFails(c)
  BY <1>4, FailureSteps DEF Svc!Serve
<1>5. CASE StoreCapture(c)
  BY <1>5, CaptureSteps DEF Svc!Serve
<1>6. CASE BeginRestore(c)
  BY <1>6, BeginRestoreSteps DEF Svc!Serve
<1>7. CASE Mark(c)
  BY <1>7, MarkSteps DEF Svc!Serve
<1>8. CASE Paste(c)
  <2>1. AbsCall' = AbsCall /\ UNCHANGED store
    BY <1>8, AbsPaste, ServedRequest DEF Paste
  <2>2. QED
    BY <2>1 DEF Svc!vars, store
<1>9. QED
  BY <1>1, <1>2, <1>3, <1>4, <1>5, <1>6, <1>7, <1>8 DEF Serve

\* Every step of the daemon is one of the atomic service, or none.
LEMMA StepRefines == IInv /\ [Next]_vars => [Svc!Next]_(Svc!vars)
<1> SUFFICES ASSUME IInv, [Next]_vars PROVE [Svc!Next]_(Svc!vars)
  OBVIOUS
<1>1. CASE TakeSelection \/ Restart \/ UNCHANGED vars
  BY <1>1, OtherSteps
<1>2. CASE Crash
  BY <1>2, CrashSteps DEF Svc!Next
<1>3. ASSUME NEW c \in Conns, Send(c) \/ ReadLineFails(c) \/ Reply(c)
      PROVE  Svc!Next
  BY <1>3, SendSteps, CloseSteps DEF Svc!Next
<1>4. ASSUME NEW c \in Conns, Accept(c) \/ Serve(c)
      PROVE  [Svc!Next]_(Svc!vars)
  BY <1>4, TaskRefines DEF Svc!Next
<1>5. QED
  BY <1>1, <1>2, <1>3, <1>4 DEF Next

\* The daemon implements the atomic service: suspended half-way, overtaken by
\* other programs, failed or killed, a request has taken effect once, in one
\* step, or not at all; with any number of clients.
THEOREM Implements == Spec => Atomic
<1>1. Init => Svc!Init
  <2> SUFFICES ASSUME Init PROVE Svc!Init
    OBVIOUS
  <2>1. AbsCall = [c \in Conns |-> Svc!Idle]
    BY AbsView DEF Init, View
  <2>2. QED
    BY <2>1 DEF Init, Svc!Init, StoreInit, Svc!StoreInit
<1>2. IInv /\ [Next]_vars => [Svc!Next]_(Svc!vars)
  BY StepRefines
<1>3. QED
  BY <1>1, <1>2, Inductive, PTL DEF Spec, Atomic, Svc!Spec
-----------------------------------------------------------------------------
(***************************************************************************)
(* What is proved of the atomic service, on the daemon. AS is the service  *)
(* that the daemon implements once more, now with its theorems; what it    *)
(* and Svc define is the same formula, once every definition is expanded.  *)
(***************************************************************************)
AS == INSTANCE AtomicServiceProofs WITH call <- AbsCall

\* The theorems of the service are under its assumptions on the constants, which
\* the daemon shares.
LEMMA ServiceAssumptions ==
  AS!TypesAssumption /\ AS!RepositoryAssumption /\ AS!ServiceAssumption
<1>1. \A S : AS!IsFiniteSet(S) <=> IsFiniteSet(S)
  BY Zenon DEF IsFiniteSet, AS!IsFiniteSet
<1>2. AS!Payload = Payload /\ AS!Request = Request
  BY Zenon DEF Payload, AS!Payload, Request, AS!Request
<1>3. AS!TypesAssumption
  BY <1>1, TypesAssumption DEF TypesAssumption, AS!TypesAssumption
<1>4. AS!RepositoryAssumption
  BY <1>2, RepositoryAssumption DEF RepositoryAssumption, AS!RepositoryAssumption
<1>5. AS!ServiceAssumption
  BY <1>1, <1>2, DaemonAssumption DEF DaemonAssumption, AS!ServiceAssumption
<1>6. QED
  BY <1>3, <1>4, <1>5

\* The two services start in the same states and make the same steps.
LEMMA SameService == (Svc!Init <=> AS!Init) /\ (Svc!Next <=> AS!Next)
<1>1. Svc!Init <=> AS!Init
  BY Zenon DEF Svc!Init, AS!Init, Svc!StoreInit, AS!StoreInit, Svc!Idle, AS!Idle
<1>2. \A c : Svc!Invoke(c) <=> AS!Invoke(c)
  BY Zenon
  DEF Svc!Invoke, AS!Invoke, Svc!Idle, AS!Idle, Svc!Pending, AS!Pending, Svc!store, AS!store
<1>3. \A c : Svc!Serve(c) <=> AS!Serve(c)
  BY Zenon
  DEF Svc!Stored, AS!Stored, Svc!Touch, AS!Touch, Svc!Upsert, AS!Upsert, Svc!SoftDelete,
      AS!SoftDelete, Svc!SetPinned, AS!SetPinned, Svc!SetFavorite, AS!SetFavorite, Svc!MarkUsed,
      AS!MarkUsed, Svc!Live, AS!Live, Svc!Window, AS!Window, Svc!Found, AS!Found, Svc!Before,
      AS!Before, Svc!Listings, AS!Listings, Svc!ItemOf, AS!ItemOf, Svc!store, AS!store,
      Svc!Payload, AS!Payload, Svc!IsEmpty, AS!IsEmpty, Svc!Matches, AS!Matches, Svc!Errors,
      AS!Errors, Svc!Ok, AS!Ok, Svc!Captured, AS!Captured, Svc!Items, AS!Items, Svc!Err, AS!Err,
      Svc!Cardinality, AS!Cardinality, Svc!Pending, AS!Pending, Svc!Done, AS!Done, Svc!Readable,
      AS!Readable, Svc!Failures, AS!Failures, Svc!Answer, AS!Answer, Svc!Asked, AS!Asked,
      Svc!Capture, AS!Capture, Svc!Search, AS!Search, Svc!Restore, AS!Restore, Svc!Delete,
      AS!Delete, Svc!Pin, AS!Pin, Svc!Favorite, AS!Favorite, Svc!Fail, AS!Fail, Svc!Serve, AS!Serve
<1>4. Svc!Drop <=> AS!Drop
  BY Zenon DEF Svc!Drop, AS!Drop, Svc!Idle, AS!Idle, Svc!store, AS!store
<1>5. QED
  BY <1>1, <1>2, <1>3, <1>4, Zenon DEF Svc!Next, AS!Next

\* The daemon is a behaviour of the service the theorems are about.
LEMMA DaemonServes == Spec => AS!Spec
<1>1. [Svc!Next]_(Svc!vars) => [AS!Next]_(AS!vars)
  BY SameService DEF Svc!vars, AS!vars
<1>2. QED
  BY <1>1, SameService, Implements, PTL DEF Atomic, Svc!Spec, AS!Spec

\* On the daemon, too, with requests suspended and cut off in the middle, an item
\* keeps its content and its marks until a request to change that mark.
THEOREM DaemonKeepsMarks == Spec => Svc!MarksOnlyByRequest
<1>1. AS!Spec => AS!MarksOnlyByRequest
  BY AS!MarksKept, ServiceAssumptions
<1>2. \A id : (Svc!Stored(id) => Svc!KeepsMarks(id)) <=> (AS!Stored(id) => AS!KeepsMarks(id))
  BY Zenon
  DEF Svc!Stored, AS!Stored, Svc!KeepsMarks, AS!KeepsMarks, Svc!MarkRequested, AS!MarkRequested,
      Svc!Pending, AS!Pending
<1>3. [\A id \in Ids : AS!Stored(id) => AS!KeepsMarks(id)]_(AS!vars)
        => [\A id \in Ids : Svc!Stored(id) => Svc!KeepsMarks(id)]_(Svc!vars)
  BY <1>2 DEF Svc!vars, AS!vars
<1>4. QED
  BY <1>1, <1>3, DaemonServes, PTL DEF Svc!MarksOnlyByRequest, AS!MarksOnlyByRequest

\* On the daemon, too, a deleted item comes back only in the step that answers a
\* capture which saw it on the clipboard.
THEOREM DaemonUndeletes == Spec => Svc!UndeletedOnlyByCapture
<1>1. AS!Spec => AS!UndeletedOnlyByCapture
  BY AS!UndeletedByCapture, ServiceAssumptions
<1>2. \A id : (Svc!Stored(id) /\ rows[id].deleted /\ ~rows'[id].deleted => Svc!CameBack(id))
                <=> (AS!Stored(id) /\ rows[id].deleted /\ ~rows'[id].deleted => AS!CameBack(id))
  BY Zenon
  DEF Svc!Stored, AS!Stored, Svc!CameBack, AS!CameBack, Svc!Asked, AS!Asked, Svc!Done, AS!Done,
      Svc!Captured, AS!Captured
<1>3. [\A id \in Ids : AS!Stored(id) /\ rows[id].deleted /\ ~rows'[id].deleted => AS!CameBack(id)]_(AS!vars)
        => [\A id \in Ids : Svc!Stored(id) /\ rows[id].deleted /\ ~rows'[id].deleted => Svc!CameBack(id)]_(Svc!vars)
  BY <1>2 DEF Svc!vars, AS!vars
<1>4. QED
  BY <1>1, <1>3, DaemonServes, PTL DEF Svc!UndeletedOnlyByCapture, AS!UndeletedOnlyByCapture

\* On the daemon, too, a listing is the history as it was in one step of its
\* request, however many others are in the middle.
THEOREM DaemonListsHonestly == Spec => Svc!ListingsHonest
<1>1. AS!Spec => AS!ListingsHonest
  BY AS!ListingsAreHonest, ServiceAssumptions
<1>2. AS!ListingsHonest => Svc!ListingsHonest
  BY PTL DEF AS!ListingsHonest, Svc!ListingsHonest, AS!Live, Svc!Live, AS!ItemOf, Svc!ItemOf, AS!vars, Svc!vars, AS!Stored, Svc!Stored
<1>3. QED
  BY <1>1, <1>2, DaemonServes, PTL
=============================================================================
