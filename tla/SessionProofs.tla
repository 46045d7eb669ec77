----------------------------- MODULE SessionProofs ----------------------------
(***************************************************************************)
(* The picker on the real daemon is the picker of module Picker on the     *)
(* atomic service, for every number of connections, any keys and any       *)
(* history: the session's steps are steps of Picker, seen through Calls.   *)
(* The daemon's part comes from module DaemonProofs; what is left is       *)
(* that a cut connection hides nothing but an idle task. From it follows   *)
(* on the daemon what module PickerProofs shows of the picker.             *)
(* ClosesOnItem, which is about both, has an invariant of its own.         *)
(***************************************************************************)
EXTENDS Session, DaemonProofs

-----------------------------------------------------------------------------
(***************************************************************************)
(* The invariant.                                                          *)
(***************************************************************************)
\* A task runs only on a connection that is not cut: until a thread has noticed
\* the end of its connection, it sends nothing on it.
CutIdle ==
  /\ cut = [c \in Conns |-> cut[c]]
  /\ \A c \in Conns : cut[c] # Uncut => pc[c] = "idle"

SInv == IInv /\ CutIdle

\* What a thread sees of its connection, before and after a step.
LEMMA CallsAt ==
  /\ Calls = [c \in Conns |-> IF cut[c] # Uncut THEN cut[c] ELSE AbsCall[c]]
  /\ Calls' = [c \in Conns |-> IF cut'[c] # Uncut THEN cut'[c] ELSE AbsCall'[c]]
  /\ P!Idle = Uncut /\ Svc!Idle = Uncut
BY DEF Calls, Uncut, P!Idle, Svc!Idle

\* Every step of the session is one of the daemon, or leaves it alone.
LEMMA DaemonSteps == SessionNext => [Next]_vars
BY DEF SessionNext, User, Switch, Receive, Others, Dies, Returns, Ask, Work, Return, Notice, Next

\* A step of a task moves that task alone, and only one that is under way.
LEMMA WorkTasks ==
  ASSUME IInv, NEW c \in Conns, Accept(c) \/ Serve(c)
  PROVE  pc[c] # "idle" /\ \A d \in Conns : d # c => pc'[d] = pc[d]
<1>1. pc[c] # "idle"
  BY DEF Accept, Serve, Search, Delete, Pin, Favorite, Granted, BeginCapture, ListTargets, ReadText,
         ReadHtml, ReadPng, ReadFails, Reading, StoreCapture, BeginRestore, Write, WriteFails, Mark,
         Paste, StorageFails
<1>2. \E p : pc' = [pc EXCEPT ![c] = p]
  <2>1. \A x : Answer(c, x) => \E p : pc' = [pc EXCEPT ![c] = p]
    BY DEF Answer
  <2>2. \A p, j : Proceed(c, p, j) => \E q : pc' = [pc EXCEPT ![c] = q]
    BY DEF Proceed
  <2>3. CASE Accept(c)
    BY <2>3 DEF Accept
  <2>4. (\E x : Answer(c, x)) \/ (\E p, j : Proceed(c, p, j)) \/ Accept(c)
    BY Zenon DEF Serve, Search, Delete, Pin, Favorite, Update, BeginCapture, ListTargets, ReadText,
           ReadHtml, ReadPng, ReadFails, StoreCapture, BeginRestore, Write, WriteFails, Mark,
           Paste, StorageFails
  <2>5. QED
    BY <2>1, <2>2, <2>3, <2>4
<1>3. QED
  BY <1>1, <1>2 DEF IInv, TypeOK

\* No request is sent on a connection that is cut.
LEMMA AskUncut ==
  ASSUME NEW c \in Conns, P!SendRequest(c)
  PROVE  cut[c] = Uncut
BY CallsAt, Zenon DEF P!SendRequest, P!Invoke

\* Only idle connections are cut, through every step of the session.
LEMMA CutInv ==
  ASSUME SInv, [SessionNext]_svars
  PROVE  CutIdle'
<1>1. CASE UNCHANGED svars
  BY <1>1 DEF SInv, CutIdle, svars, vars
<1>2. CASE User \/ Switch \/ Receive \/ Others \/ Returns
  <2>1. pc' = pc /\ cut' = cut
    BY <1>2 DEF User, Switch, Receive, Others, Returns, TakeSelection, Restart, Desktop, tasks, vars
  <2>2. QED
    BY <2>1 DEF SInv, CutIdle
<1>3. CASE Dies
  BY <1>3, CallsAt DEF Dies, Crash, CutIdle
<1>4. ASSUME NEW c \in Conns, Ask(c) PROVE CutIdle'
  <2>1. CASE Send(c) /\ cut' = cut /\ P!SendRequest(c)
    <3>1. cut[c] = Uncut
      BY <2>1, AskUncut
    <3>2. \A d \in Conns : d # c => pc'[d] = pc[d]
      BY <2>1 DEF Send, SInv, IInv, TypeOK
    <3>3. QED
      BY <2>1, <3>1, <3>2 DEF SInv, CutIdle
  <2>2. CASE pc' = pc /\ cut' = cut
    BY <2>2 DEF SInv, CutIdle
  <2>3. QED
    BY <1>4, <2>1, <2>2 DEF Ask, vars
<1>5. ASSUME NEW c \in Conns, Work(c) PROVE CutIdle'
  <2>1. pc[c] # "idle" /\ \A d \in Conns : d # c => pc'[d] = pc[d]
    BY <1>5, WorkTasks DEF Work, SInv
  <2>2. QED
    BY <1>5, <2>1 DEF Work, Desktop, SInv, CutIdle
<1>6. ASSUME NEW c \in Conns, Return(c) PROVE CutIdle'
  BY <1>6 DEF Return, Reply, Close, SInv, IInv, TypeOK, CutIdle
<1>7. ASSUME NEW c \in Conns, Notice(c) PROVE CutIdle'
  <2>1. pc' = pc /\ cut' = [cut EXCEPT ![c] = Uncut]
    BY <1>7 DEF Notice, vars
  <2>2. QED
    BY <2>1 DEF SInv, CutIdle
<1>8. QED
  BY <1>1, <1>2, <1>3, <1>4, <1>5, <1>6, <1>7 DEF SessionNext

\* The daemon's invariant and CutIdle hold throughout a session.
THEOREM SessionInductive == SessionSpec => []SInv
<1>1. SessionInit => SInv
  <2>1. SessionInit => IInv
    BY Initially DEF SessionInit
  <2>2. SessionInit => CutIdle
    BY DEF SessionInit, CutIdle
  <2>3. QED
    BY <2>1, <2>2 DEF SInv
<1>2. SInv /\ [SessionNext]_svars => SInv'
  <2>1. [SessionNext]_svars => [Next]_vars
    BY DaemonSteps DEF svars
  <2>2. QED
    BY <2>1, NextInv, CutInv DEF SInv
<1>3. QED
  BY <1>1, <1>2, PTL DEF SessionSpec
-----------------------------------------------------------------------------
(***************************************************************************)
(* The steps of the daemon, as the threads see them.                       *)
(***************************************************************************)
\* The table's statements are the same in both instances.
LEMMA SameStatements ==
  /\ \A p : Svc!Upsert(p) => P!Upsert(p)
  /\ \A id : Svc!MarkUsed(id) => P!MarkUsed(id)
  /\ \A id : Svc!SoftDelete(id) => P!SoftDelete(id)
  /\ \A id, v : Svc!SetPinned(id, v) => P!SetPinned(id, v)
  /\ \A id, v : Svc!SetFavorite(id, v) => P!SetFavorite(id, v)
  /\ \A id : Svc!Stored(id) <=> P!Stored(id)
  /\ \A id : Svc!ItemOf(id) = P!ItemOf(id)
<1>1. \A id : Svc!Stored(id) <=> P!Stored(id)
  BY DEF Svc!Stored, P!Stored
<1>2. \A id : Svc!Touch(id) => P!Touch(id)
  BY Zenon DEF Svc!Touch, P!Touch, Svc!Stored, P!Stored
<1>3. \A p : Svc!Upsert(p) => P!Upsert(p)
  BY <1>1, <1>2, Zenon DEF Svc!Upsert, P!Upsert
<1>4. \A id : Svc!MarkUsed(id) => P!MarkUsed(id)
  BY <1>2, Zenon DEF Svc!MarkUsed, P!MarkUsed
<1>5. /\ \A id : Svc!SoftDelete(id) => P!SoftDelete(id)
      /\ \A id, v : Svc!SetPinned(id, v) => P!SetPinned(id, v)
      /\ \A id, v : Svc!SetFavorite(id, v) => P!SetFavorite(id, v)
  BY DEF Svc!SoftDelete, P!SoftDelete, Svc!SetPinned, P!SetPinned, Svc!SetFavorite, P!SetFavorite
<1>6. \A id : Svc!ItemOf(id) = P!ItemOf(id)
  BY DEF Svc!ItemOf, P!ItemOf
<1>7. QED
  BY <1>1, <1>3, <1>4, <1>5, <1>6

\* The listings are the same, too.
LEMMA SameListingsP == ASSUME NEW q PROVE P!Listings(q) = Svc!Listings(q)
<1>0. \A S : Svc!Cardinality(S) = P!Cardinality(S)
  BY Zenon DEF Svc!Cardinality, P!Cardinality
<1>1. Svc!Live = P!Live
  BY Zenon DEF P!Live, Svc!Live, P!Stored, Svc!Stored
<1>2. Svc!Window = P!Window
  BY <1>0, <1>1, Zenon DEF P!Window, Svc!Window
<1>3. Svc!Found(q) = P!Found(q)
  BY <1>2, Zenon DEF P!Found, Svc!Found, P!Matches, Svc!Matches
<1>4. \A i, j : Svc!Before(i, j) <=> P!Before(i, j)
  BY Zenon DEF P!Before, Svc!Before
<1>5. QED
  BY <1>0, <1>3, <1>4, Zenon DEF P!Listings, Svc!Listings

\* And the errors and the responses.
LEMMA SameResponses ==
  /\ P!Ok = Svc!Ok
  /\ \A b : P!Captured(b) = Svc!Captured(b)
  /\ \A s : P!Items(s) = Svc!Items(s)
  /\ \A e : P!Err(e) = Svc!Err(e)
  /\ \A r : P!Failures(r) = Svc!Failures(r)
  /\ P!Readable = Svc!Readable
  /\ \A p : P!IsEmpty(p) <=> Svc!IsEmpty(p)
<1>1. \A r : P!Failures(r) = Svc!Failures(r)
  BY Zenon DEF P!Failures, Svc!Failures, P!Errors, Svc!Errors, P!Stored, Svc!Stored
<1>2. P!Readable = Svc!Readable
  BY DEF P!Readable, Svc!Readable, P!Payload, Svc!Payload
<1>3. \A p : P!IsEmpty(p) <=> Svc!IsEmpty(p)
  BY DEF P!IsEmpty, Svc!IsEmpty
<1>4. QED
  BY <1>1, <1>2, <1>3
  DEF P!Ok, Svc!Ok, P!Captured, Svc!Captured, P!Items, Svc!Items, P!Err, Svc!Err

\* What the atomic service does on a connection that is not cut, it does for
\* the thread of that connection.
LEMMA ServeSeen ==
  ASSUME NEW c \in Conns, Svc!Serve(c), cut[c] = Uncut, cut' = cut
  PROVE  P!Serve(c)
<1>1. Calls[c] = AbsCall[c]
  BY CallsAt
<1>2. \A x : Svc!Answer(c, x) => P!Answer(c, x)
  <2> SUFFICES ASSUME NEW x, Svc!Answer(c, x) PROVE P!Answer(c, x)
    OBVIOUS
  <2>1. AbsCall' = [AbsCall EXCEPT ![c] = Svc!Done(x)] /\ P!Done(x) = Svc!Done(x)
    BY DEF Svc!Answer, Svc!Done, P!Done
  <2>2. AbsCall'[c] = Svc!Done(x) /\ \A d \in Conns : d # c => AbsCall'[d] = AbsCall[d]
    BY <2>1, AbsView
  <2>3. Calls' = [Calls EXCEPT ![c] = Svc!Done(x)]
    BY <2>2, CallsAt
  <2>4. QED
    BY <2>1, <2>3 DEF P!Answer
<1>3. \A op : Svc!Asked(c, op) => P!Asked(c, op)
  BY <1>1 DEF Svc!Asked, P!Asked
<1>4. UNCHANGED Svc!store => UNCHANGED P!store
  BY DEF Svc!store, P!store
<1>5. CASE Svc!Capture(c)
  BY <1>2, <1>3, <1>4, <1>5, SameStatements, SameResponses, Zenon
  DEF Svc!Capture, P!Capture, P!Serve
<1>6. CASE Svc!Search(c)
  <2>1. PICK s \in Svc!Listings(AbsCall[c].req.query) :
               Svc!Answer(c, Svc!Items([n \in DOMAIN s |-> Svc!ItemOf(s[n])]))
    BY <1>6 DEF Svc!Search
  <2>2. s \in P!Listings(Calls[c].req.query)
    BY <1>1, <2>1, SameListingsP
  <2>3. [n \in DOMAIN s |-> Svc!ItemOf(s[n])] = [n \in DOMAIN s |-> P!ItemOf(s[n])]
    BY SameStatements
  <2>4. P!Answer(c, P!Items([n \in DOMAIN s |-> P!ItemOf(s[n])]))
    BY <1>2, <2>1, <2>3, SameResponses
  <2>5. P!Asked(c, "search") /\ UNCHANGED P!store
    BY <1>3, <1>4, <1>6 DEF Svc!Search
  <2>6. QED
    BY <2>2, <2>4, <2>5 DEF P!Search, P!Serve
<1>7. CASE Svc!Restore(c)
  BY <1>1, <1>2, <1>3, <1>7, SameStatements, SameResponses, Zenon
  DEF Svc!Restore, P!Restore, P!Serve
<1>8. CASE Svc!Delete(c)
  BY <1>1, <1>2, <1>3, <1>8, SameStatements, SameResponses, Zenon
  DEF Svc!Delete, P!Delete, P!Serve
<1>9. CASE Svc!Pin(c)
  BY <1>1, <1>2, <1>3, <1>9, SameStatements, SameResponses, Zenon DEF Svc!Pin, P!Pin, P!Serve
<1>10. CASE Svc!Favorite(c)
  BY <1>1, <1>2, <1>3, <1>10, SameStatements, SameResponses, Zenon
  DEF Svc!Favorite, P!Favorite, P!Serve
<1>11. CASE Svc!Fail(c)
  BY <1>1, <1>2, <1>4, <1>11, SameResponses, Zenon DEF Svc!Fail, P!Fail, P!Serve
<1>12. QED
  BY <1>5, <1>6, <1>7, <1>8, <1>9, <1>10, <1>11 DEF Svc!Serve
-----------------------------------------------------------------------------
(***************************************************************************)
(* The theorem.                                                            *)
(***************************************************************************)
\* Steps that leave the table, the window and the calls alone.
LEMMA NothingSeen ==
  ASSUME UNCHANGED <<rows, lastUsed, window>>, Calls' = Calls
  PROVE  UNCHANGED P!pvars
BY DEF P!pvars, P!vars, P!window, window

\* What leaves connections and cuts alone leaves the calls alone.
LEMMA CallsKept ==
  ASSUME UNCHANGED <<pc, req, resp, cut>>
  PROVE  Calls' = Calls
BY CallsAt, AbsView

\* Every step of the session is one of the picker, or changes nothing it sees.
LEMMA SessionStep ==
  ASSUME ~Reliable, SInv, SessionNext
  PROVE  [P!PickerNext]_(P!pvars)
<1>1. CASE User \/ Receive
  BY <1>1 DEF User, Receive, P!PickerNext
<1>2. CASE Switch \/ Others \/ Returns
  <2>1. UNCHANGED <<rows, lastUsed, window, pc, req, resp, cut>>
    BY <1>2 DEF Switch, Others, Returns, TakeSelection, Restart, Desktop, tasks, store, vars
  <2>2. QED
    BY <2>1, CallsKept, NothingSeen
<1>3. CASE Dies
  <2>1. cut' = Calls /\ UNCHANGED <<rows, lastUsed, window>>
    BY <1>3 DEF Dies, Crash, store
  <2>2. \A c \in Conns : AbsCall'[c] = Uncut
    BY <1>3, AbsView, CallsAt DEF Dies, Crash, View
  <2>3. Calls' = Calls
    BY <2>1, <2>2, CallsAt
  <2>4. QED
    BY <2>1, <2>3, NothingSeen
<1>4. ASSUME NEW c \in Conns, Ask(c) \/ Return(c) \/ Notice(c)
      PROVE  P!PickerNext
  BY <1>4, Zenon DEF Ask, Return, Notice, P!PickerNext, P!Thread
<1>5. ASSUME NEW c \in Conns, Work(c)
      PROVE  [P!PickerNext]_(P!pvars)
  <2>1. /\ Accept(c) \/ Serve(c)
        /\ cut' = cut /\ UNCHANGED window /\ IInv
    BY <1>5 DEF Work, Desktop, SInv
  <2>2. cut[c] = Uncut
    BY <2>1, WorkTasks DEF SInv, CutIdle
  <2>3. CASE Svc!Serve(c)
    <3>1. P!Serve(c)
      BY <2>1, <2>2, <2>3, ServeSeen
    <3>2. P!Served(c)
      BY <2>1, <3>1 DEF P!Served, P!window, window
    <3>3. QED
      BY <3>2 DEF P!PickerNext
  <2>4. CASE UNCHANGED Svc!vars
    <3>1. UNCHANGED <<rows, lastUsed, window>> /\ Calls' = Calls
      BY <2>1, <2>4, CallsAt DEF Svc!vars
    <3>2. QED
      BY <3>1, NothingSeen
  <2>5. QED
    BY <2>1, <2>3, <2>4, TaskRefines
<1>6. QED
  BY <1>1, <1>2, <1>3, <1>4, <1>5 DEF SessionNext

\* What is proved of the picker on a service that answers in one step holds for
\* it on the daemon, which suspends requests, times out, is overtaken and dies.
THEOREM PickerOnDaemon == ASSUME ~Reliable PROVE SessionSpec => PicksOnDaemon
<1>1. SessionInit => P!PickerInit
  <2> SUFFICES ASSUME SessionInit PROVE P!PickerInit
    OBVIOUS
  <2>1. Calls = [c \in Conns |-> P!Idle]
    BY CallsAt, AbsView DEF SessionInit, Init, View
  <2>2. StoreInit /\ P!Closed
    BY DEF SessionInit, Init
  <2>3. P!Init
    BY <2>1, <2>2 DEF P!Init, P!StoreInit, StoreInit
  <2>4. QED
    BY <2>2, <2>3 DEF P!PickerInit
<1>2. SInv /\ [SessionNext]_svars => [P!PickerNext]_(P!pvars)
  <2>1. ASSUME UNCHANGED svars PROVE UNCHANGED P!pvars
    <3>1. UNCHANGED <<rows, lastUsed, window, pc, req, resp, cut>>
      BY <2>1 DEF svars, vars
    <3>2. QED
      BY <3>1, CallsKept, NothingSeen
  <2>2. QED
    BY <2>1, SessionStep
<1>3. QED
  BY <1>1, <1>2, SessionInductive, PTL DEF SessionSpec, PicksOnDaemon, P!PickerSpec
-----------------------------------------------------------------------------
(***************************************************************************)
(* The window closes on the item.                                          *)
(***************************************************************************)
\* A closed window has no threads and no channel.
Shut == ~open => inbox = << >> /\ \A c \in Conns : work[c] = << >>

WindowType ==
  /\ work = [c \in Conns |-> work[c]]
  /\ \E S : inbox \in Seq(S)

\* What the task of a thread is doing is the request the thread waits for; once
\* a restore has written its item, that item was given since the window opened.
Written(c) == pc[c] \in {"mark", "paste"} \/ (pc[c] = "answer" /\ resp[c].type # "Err")

ThreadGiven ==
  \A c \in Conns : work[c] # << >> /\ pc[c] # "idle" =>
    /\ req[c] = Head(work[c])
    /\ req[c].op = "restore" /\ Written(c) => req[c].id \in given

\* So it was if the window has a message that the restore is done.
InboxGiven ==
  \A n \in DOMAIN inbox :
    inbox[n].req.op = "restore" /\ inbox[n].res.type \notin {"Err", "Lost"} =>
      inbox[n].req.id \in given

\* What was last written, and not taken since, is of an item given.
KeptShows ==
  kept => /\ clip.owner = "xclip"
          /\ \E id \in given \cap Ids : Stored(id) /\ Represents(clip.data, rows[id].payload, FALSE)

GInv == SInv /\ Shut /\ WindowType /\ ThreadGiven /\ InboxGiven /\ KeptShows

\* A thread is idle, as the window sees it, when its task is.
LEMMA IdleCalls ==
  ASSUME NEW c \in Conns, Calls[c] = P!Idle
  PROVE  pc[c] = "idle"
<1>1. AbsCall[c] = Svc!Idle
  BY CallsAt
<1>2. QED
  BY <1>1, AbsView DEF View, Svc!Idle, Svc!Done, Svc!Pending

\* What the user's actions do to the threads: a request is added where none is
\* in progress, or the window closes with all of them.
Threads ==
  /\ work' = [c \in Conns |-> work'[c]]
  /\ \A c \in Conns : work'[c] = work[c] \/ pc[c] = "idle"

\* A key closes the window with its threads and messages, or leaves the messages
\* and only changes threads that have nothing under way.
LEMMA UserThreads ==
  ASSUME WindowType, P!User
  PROVE  \/ ~open' /\ inbox' = << >> /\ work' = [c \in Conns |-> << >>]
         \/ open' /\ inbox' = inbox /\ Threads
<1>1. CASE P!Open
  <2>1. PICK a, b \in Conns :
               /\ Calls[a] = P!Idle /\ Calls[b] = P!Idle
               /\ \E x, y : work' = [work EXCEPT ![a] = x, ![b] = y]
    BY <1>1 DEF P!Open
  <2>2. pc[a] = "idle" /\ pc[b] = "idle"
    BY <2>1, IdleCalls
  <2>3. Threads
    BY <2>1, <2>2 DEF WindowType, Threads
  <2>4. QED
    BY <1>1, <2>3 DEF P!Open
<1>2. CASE P!Close
  BY <1>2 DEF P!Close, P!Closes
<1>3. ASSUME NEW r, P!Start(r)
      PROVE  open' /\ inbox' = inbox /\ Threads
  <2>1. PICK c \in Conns : P!Free(c) /\ work' = [work EXCEPT ![c] = <<r>>]
    BY <1>3 DEF P!Start
  <2>2. pc[c] = "idle"
    BY <2>1, IdleCalls DEF P!Free
  <2>3. Threads
    BY <2>1, <2>2 DEF WindowType, Threads
  <2>4. QED
    BY <1>3, <2>3 DEF P!Start
<1>4. CASE P!Type
  BY <1>3, <1>4 DEF P!Type
<1>5. CASE P!MoveUp \/ P!MoveDown \/ P!SelectRow
  BY <1>5 DEF P!MoveUp, P!MoveDown, P!SelectRow, Threads, WindowType
<1>6. CASE P!RestoreSelected \/ P!DeleteSelected \/ P!TogglePin \/ P!ToggleFavorite
  <2>1. \E r : P!Start(r)
    BY <1>6, Zenon DEF P!RestoreSelected, P!DeleteSelected, P!TogglePin, P!ToggleFavorite, P!Press
  <2>2. QED
    BY <1>3, <2>1
<1>7. QED
  BY <1>1, <1>2, <1>4, <1>5, <1>6 DEF P!User

\* What the window's receiver does to them: it closes, or a message is read.
LEMMA ReceiverThreads ==
  ASSUME P!Receiver
  PROVE  \/ ~open' /\ inbox' = << >> /\ work' = [c \in Conns |-> << >>]
            /\ open /\ inbox # << >> /\ P!RestoreFinished
         \/ open' = open /\ work' = work /\ inbox # << >> /\ inbox' = Tail(inbox)
<1>1. CASE P!RestoreFinished
  BY <1>1 DEF P!RestoreFinished, P!Closes
<1>2. ASSUME NEW s, NEW n, inbox' = Tail(inbox), inbox # << >>, P!Show(s, n)
      PROVE  open' = open /\ work' = work /\ inbox # << >> /\ inbox' = Tail(inbox)
  BY <1>2 DEF P!Show
<1>3. CASE P!SearchFinished \/ P!SearchFailed
  BY <1>2, <1>3, Zenon DEF P!SearchFinished, P!SearchFailed, P!Read
<1>4. CASE P!DeleteFinished
  BY <1>2, <1>4, Zenon DEF P!DeleteFinished, P!RemoveById, P!Read
<1>5. CASE P!PinFinished \/ P!FavoriteFinished
  BY <1>2, <1>5, Zenon DEF P!PinFinished, P!FavoriteFinished, P!SetById, P!Read
<1>6. CASE P!ActionFailed
  BY <1>2, <1>6, Zenon DEF P!ActionFailed, P!Read
<1>7. QED
  BY <1>1, <1>3, <1>4, <1>5, <1>6 DEF P!Receiver

\* And a thread whose request came to the end x.
LEMMA FinishThreads ==
  ASSUME GInv, NEW c \in Conns, NEW x, P!Finish(c, x), work[c] # << >>, given' = given,
         Head(work[c]).op = "restore" /\ x.type \notin {"Err", "Lost"} => Head(work[c]).id \in given
  PROVE  /\ Shut' /\ WindowType' /\ InboxGiven'
         /\ \A d \in Conns : d # c => work'[d] = work[d]
<1>1. /\ work' = [work EXCEPT ![c] = Tail(work[c])] /\ open' = open
      /\ inbox' = inbox \/ inbox' = Append(inbox, [req |-> Head(work[c]), res |-> x])
  BY DEF P!Finish
<1>2. open
  BY DEF GInv, Shut
<1>3. PICK S : inbox \in Seq(S)
  BY DEF GInv, WindowType
<1>4. /\ work' = [d \in Conns |-> work'[d]]
      /\ \A d \in Conns : d # c => work'[d] = work[d]
  BY <1>1 DEF GInv, WindowType
<1>5. CASE inbox' = inbox
  BY <1>1, <1>2, <1>4, <1>5 DEF GInv, Shut, WindowType, InboxGiven
<1>6. CASE inbox' = Append(inbox, [req |-> Head(work[c]), res |-> x])
  <2> DEFINE m == [req |-> Head(work[c]), res |-> x]
  <2>1. /\ Append(inbox, m) \in Seq(S \cup {m})
        /\ Len(inbox) \in Nat /\ DOMAIN inbox = 1 .. Len(inbox)
        /\ DOMAIN Append(inbox, m) = 1 .. Len(inbox) + 1
        /\ \A n \in 1 .. Len(inbox) : Append(inbox, m)[n] = inbox[n]
        /\ Append(inbox, m)[Len(inbox) + 1] = m
    <3>1. inbox \in Seq(S \cup {m}) /\ m \in S \cup {m}
      BY <1>3
    <3> HIDE DEF m
    <3>2. QED
      BY <3>1
  <2>2. m.req = Head(work[c]) /\ m.res = x
    OBVIOUS
  <2>3. inbox' = Append(inbox, m)
    BY <1>6
  <2> HIDE DEF m
  <2>4. InboxGiven'
    BY <2>1, <2>2, <2>3 DEF GInv, InboxGiven
  <2>5. WindowType'
    BY <1>4, <2>1, <2>3 DEF WindowType
  <2>6. QED
    BY <1>1, <1>2, <1>4, <2>4, <2>5 DEF Shut
<1>7. QED
  BY <1>1, <1>5, <1>6

\* The window's own steps.
LEMMA WindowGiven ==
  ASSUME GInv, User \/ Receive
  PROVE  Shut' /\ WindowType' /\ ThreadGiven' /\ InboxGiven' /\ KeptShows'
<1>1. UNCHANGED <<rows, lastUsed, clip, up, queue, pc, req, job, resp>>
  BY DEF User, Receive, vars
<1>2. CASE ~open' /\ inbox' = << >> /\ work' = [c \in Conns |-> << >>]
  <2>1. given' = given /\ kept' = kept
    BY <1>2 DEF User, Receive
  <2>2. Shut' /\ ThreadGiven' /\ InboxGiven'
    BY <1>2 DEF Shut, ThreadGiven, InboxGiven
  <2>3. WindowType'
    <3>1. << >> \in Seq({})
      OBVIOUS
    <3>2. \E S : inbox' \in Seq(S)
      BY <1>2, <3>1
    <3>3. QED
      BY <1>2, <3>2 DEF WindowType
  <2>4. KeptShows'
    BY <1>1, <2>1 DEF GInv, KeptShows, Stored
  <2>5. QED
    BY <2>2, <2>3, <2>4
<1>3. CASE User /\ open' /\ inbox' = inbox /\ Threads
  <2>1. Shut' /\ WindowType'
    BY <1>3 DEF GInv, Shut, WindowType, Threads
  <2>2. CASE open
    <3>1. given' = given /\ kept' = kept
      BY <1>3, <2>2 DEF User
    <3>2. ThreadGiven'
      <4>1. \A c \in Conns : work'[c] = work[c] \/ pc[c] = "idle"
        BY <1>3 DEF Threads
      <4>2. QED
        BY <1>1, <3>1, <4>1 DEF GInv, ThreadGiven, Written
    <3>3. InboxGiven' /\ KeptShows'
      BY <1>1, <1>3, <3>1 DEF GInv, InboxGiven, KeptShows, Stored
    <3>4. QED
      BY <2>1, <3>2, <3>3
  <2>3. CASE ~open
    <3>1. kept' = FALSE /\ inbox' = << >> /\ \A c \in Conns : work[c] = << >>
      BY <1>3, <2>3 DEF User, GInv, Shut
    <3>2. ThreadGiven'
      BY <1>1, <1>3, <3>1 DEF ThreadGiven, Threads
    <3>3. InboxGiven'
      BY <3>1 DEF InboxGiven
    <3>4. KeptShows'
      BY <3>1, Zenon DEF KeptShows
    <3>5. QED
      BY <2>1, <3>2, <3>3, <3>4
  <2>4. QED
    BY <2>2, <2>3
<1>4. CASE Receive /\ open' = open /\ work' = work /\ inbox # << >> /\ inbox' = Tail(inbox)
  <2>1. given' = given /\ kept' = kept
    BY <1>4 DEF Receive
  <2>2. PICK S : inbox \in Seq(S)
    BY DEF GInv, WindowType
  <2>3. /\ Tail(inbox) \in Seq(S)
        /\ \A n \in DOMAIN Tail(inbox) : n + 1 \in DOMAIN inbox /\ Tail(inbox)[n] = inbox[n + 1]
    BY <1>4, <2>2
  <2>4. WindowType' /\ InboxGiven'
    BY <1>4, <2>1, <2>3 DEF GInv, WindowType, InboxGiven
  <2>5. Shut'
    BY <1>4 DEF GInv, Shut
  <2>6. ThreadGiven' /\ KeptShows'
    BY <1>1, <1>4, <2>1 DEF GInv, ThreadGiven, Written, KeptShows, Stored
  <2>7. QED
    BY <2>4, <2>5, <2>6
<1>5. QED
  BY <1>2, <1>3, <1>4, UserThreads, ReceiverThreads DEF User, Receive, GInv

\* The steps between a thread and the daemon.
LEMMA AskGiven ==
  ASSUME GInv, NEW c \in Conns, Ask(c)
  PROVE  Shut' /\ WindowType' /\ ThreadGiven' /\ InboxGiven' /\ KeptShows'
<1>1. UNCHANGED <<rows, clip, cut, given, kept>>
  BY DEF Ask, Send, vars
<1>2. KeptShows'
  BY <1>1 DEF GInv, KeptShows, Stored
<1>3. CASE Send(c) /\ P!SendRequest(c)
  <2>1. UNCHANGED <<open, work, inbox, resp>>
    BY <1>3 DEF Send, P!SendRequest, P!window
  <2>2. Shut' /\ WindowType' /\ InboxGiven'
    BY <1>1, <2>1 DEF GInv, Shut, WindowType, InboxGiven
  <2>3. /\ pc'[c] = "sent"
        /\ \A d \in Conns : d # c => pc'[d] = pc[d] /\ req'[d] = req[d]
    BY <1>3 DEF Send, GInv, SInv, IInv, TypeOK
  <2>4. req'[c] = Head(work[c])
    <3>1. Calls'[c] = P!Pending(Head(work[c]))
      BY <1>3 DEF P!SendRequest
    <3>2. AbsCall'[c] = Svc!Pending(req'[c])
      BY <2>3, AbsView DEF View
    <3>3. Calls'[c] = AbsCall'[c]
      BY <1>1, <1>3, AskUncut, CallsAt
    <3>4. P!Pending(Head(work[c])).req = Head(work[c]) /\ Svc!Pending(req'[c]).req = req'[c]
      BY DEF P!Pending, Svc!Pending
    <3>5. QED
      BY <3>1, <3>2, <3>3, <3>4
  <2>5. ThreadGiven'
    BY <1>1, <2>1, <2>3, <2>4 DEF GInv, ThreadGiven, Written
  <2>6. QED
    BY <1>2, <2>2, <2>5
<1>4. CASE UNCHANGED vars /\ P!Refused(c)
  <2>1. work[c] # << >> /\ Calls[c] = P!Idle /\ P!Finish(c, P!Lost)
    BY <1>4 DEF P!Refused, P!Busy
  <2>2. P!Lost.type = "Lost"
    BY DEF P!Lost
  <2>3. /\ Shut' /\ WindowType' /\ InboxGiven'
        /\ \A d \in Conns : d # c => work'[d] = work[d]
    BY <1>1, <2>1, <2>2, FinishThreads
  <2>4. pc[c] = "idle" /\ UNCHANGED <<pc, req, resp>>
    BY <1>4, <2>1, IdleCalls DEF vars
  <2>5. ThreadGiven'
    BY <1>1, <2>3, <2>4 DEF GInv, ThreadGiven, Written
  <2>6. QED
    BY <1>2, <2>3, <2>5
<1>5. QED
  BY <1>3, <1>4 DEF Ask, vars

\* The answer of a request, put into the channel, keeps the invariant.
LEMMA ReturnGiven ==
  ASSUME GInv, NEW c \in Conns, Return(c)
  PROVE  Shut' /\ WindowType' /\ ThreadGiven' /\ InboxGiven' /\ KeptShows'
<1>1. UNCHANGED <<rows, clip, cut, given, kept>> /\ pc[c] = "answer"
  BY DEF Return, Reply, Close
<1>2. KeptShows'
  BY <1>1 DEF GInv, KeptShows, Stored
<1>3. /\ pc'[c] = "idle"
      /\ \A d \in Conns : d # c => pc'[d] = pc[d] /\ req'[d] = req[d] /\ resp'[d] = resp[d]
  BY DEF Return, Reply, Close, GInv, SInv, IInv, TypeOK
<1>4. CASE P!Discard(c)
  <2>1. UNCHANGED <<open, work, inbox>>
    BY <1>4 DEF P!Discard, P!window
  <2>2. Shut' /\ WindowType' /\ InboxGiven'
    BY <1>1, <2>1 DEF GInv, Shut, WindowType, InboxGiven
  <2>3. ThreadGiven'
    BY <1>1, <1>3, <2>1 DEF GInv, ThreadGiven, Written
  <2>4. QED
    BY <1>2, <2>2, <2>3
<1>5. CASE P!Respond(c)
  <2>1. work[c] # << >> /\ P!Finish(c, Calls[c].res)
    BY <1>5 DEF P!Respond, P!Busy
  <2>2. Calls[c].res = Shown(resp[c])
    <3>1. cut[c] = Uncut
      BY <1>1 DEF GInv, SInv, CutIdle
    <3>2. Calls[c] = Svc!Done(Shown(resp[c]))
      BY <1>1, <3>1, CallsAt, AbsView DEF View
    <3>3. QED
      BY <3>2 DEF Svc!Done
  <2>3. Shown(resp[c]).type # "Err" => resp[c].type # "Err"
    BY DEF Shown
  <2>4. Head(work[c]).op = "restore" /\ Calls[c].res.type \notin {"Err", "Lost"} =>
          Head(work[c]).id \in given
    BY <1>1, <2>1, <2>2, <2>3 DEF GInv, ThreadGiven, Written
  <2>5. /\ Shut' /\ WindowType' /\ InboxGiven'
        /\ \A d \in Conns : d # c => work'[d] = work[d]
    BY <1>1, <2>1, <2>4, FinishThreads
  <2>6. ThreadGiven'
    BY <1>1, <1>3, <2>5 DEF GInv, ThreadGiven, Written
  <2>7. QED
    BY <1>2, <2>5, <2>6
<1>6. QED
  BY <1>4, <1>5 DEF Return

\* A lost connection, reported as an error, keeps the invariant.
LEMMA NoticeGiven ==
  ASSUME GInv, NEW c \in Conns, Notice(c)
  PROVE  Shut' /\ WindowType' /\ ThreadGiven' /\ InboxGiven' /\ KeptShows'
<1>1. UNCHANGED <<rows, clip, pc, req, resp, given, kept>> /\ pc[c] = "idle"
  BY DEF Notice, vars, GInv, SInv, CutIdle
<1>2. KeptShows'
  BY <1>1 DEF GInv, KeptShows, Stored
<1>3. CASE P!Discard(c)
  BY <1>1, <1>2, <1>3
  DEF P!Discard, P!window, GInv, Shut, WindowType, InboxGiven, ThreadGiven, Written
<1>4. CASE P!Disconnect(c)
  <2>1. work[c] # << >> /\ P!Finish(c, P!Lost) /\ P!Lost.type = "Lost"
    BY <1>4 DEF P!Disconnect, P!Busy, P!Lost
  <2>2. /\ Shut' /\ WindowType' /\ InboxGiven'
        /\ \A d \in Conns : d # c => work'[d] = work[d]
    BY <1>1, <2>1, FinishThreads
  <2>3. ThreadGiven'
    BY <1>1, <2>2 DEF GInv, ThreadGiven, Written
  <2>4. QED
    BY <1>2, <2>2, <2>3
<1>5. QED
  BY <1>3, <1>4 DEF Notice

\* A step of a task keeps every row and its content.
LEMMA RowsStay ==
  ASSUME IInv, NEW c \in Conns, Accept(c) \/ Serve(c), NEW id \in Ids, Stored(id)
  PROVE  Stored(id)' /\ rows'[id].payload = rows[id].payload
<1>1. CASE rows' = rows
  BY <1>1 DEF Stored
<1>2. CASE StoreCapture(c) /\ ~IsEmpty(job[c].payload)
  <2>1. Upsert(job[c].payload) /\ job[c].payload \in Content
    BY <1>2 DEF StoreCapture, IInv, TypeOK, Jobs, Content
  <2>2. StoreType
    BY DEF IInv, TypeOK
  <2>3. PICK u \in Ids : /\ rows'[u].payload = job[c].payload /\ Stored(u)'
                         /\ Stored(u) => rows[u].payload = job[c].payload
                         /\ \A j \in Ids : j # u => rows'[j] = rows[j]
    BY <2>1, <2>2, UpsertRows
  <2>4. QED
    BY <2>3 DEF Stored
<1>3. CASE (Delete(c) \/ Pin(c) \/ Favorite(c)) /\ Stored(req[c].id)
  <2>1. req[c].id \in Ids /\ StoreType
    BY <1>3, RequestFields DEF Delete, Pin, Favorite, IInv, TypeOK
  <2>2. PICK k \in Ids : k = req[c].id
    BY <2>1
  <2>3. PICK v \in BOOLEAN : SoftDelete(k) \/ SetPinned(k, v) \/ SetFavorite(k, v)
    BY <1>3, <2>2, RequestFields DEF Delete, Pin, Favorite, Update
  <2>4. Stored(k)
    BY <1>3, <2>2
  <2>5. /\ Stored(k)' /\ rows'[k].payload = rows[k].payload
        /\ \A j \in Ids : j # k => rows'[j] = rows[j]
    BY <2>1, <2>3, <2>4, UpdateRows
  <2>6. QED
    BY <2>5 DEF Stored
<1>4. QED
  <2>1. Accept(c) => rows' = rows
    BY DEF Accept
  <2>2. Search(c) \/ StorageFails(c) \/ ReadFails(c) \/ WriteFails(c) \/ Paste(c) => rows' = rows
    BY DEF Search, StorageFails, ReadFails, WriteFails, Paste, store
  <2>3. BeginCapture(c) \/ ListTargets(c) \/ ReadText(c) \/ ReadHtml(c) \/ ReadPng(c) => rows' = rows
    BY DEF BeginCapture, ListTargets, ReadText, ReadHtml, ReadPng, store
  <2>4. BeginRestore(c) \/ Write(c) \/ Mark(c) => rows' = rows
    BY DEF BeginRestore, Write, Mark, MarkUsed, store
  <2>5. StoreCapture(c) /\ IsEmpty(job[c].payload) => rows' = rows
    BY DEF StoreCapture, store
  <2>6. (Delete(c) \/ Pin(c) \/ Favorite(c)) /\ ~Stored(req[c].id) => rows' = rows
    BY DEF Delete, Pin, Favorite, Update, store
  <2>7. QED
    BY <1>1, <1>2, <1>3, <2>1, <2>2, <2>3, <2>4, <2>5, <2>6 DEF Serve

\* A task leaves the selection alone until its write is done, and its restore
\* is not Written before that.
LEMMA WorkWrites ==
  ASSUME IInv, NEW c \in Conns, Accept(c) \/ Serve(c)
  PROVE  /\ req' = req
         /\ \A d \in Conns : d # c => pc'[d] = pc[d] /\ resp'[d] = resp[d]
         /\ Write(c) => pc[c] = "write" /\ pc'[c] = "mark"
         /\ ~Write(c) => clip' = clip /\ ~(pc[c] = "write" /\ pc'[c] = "mark")
         /\ ~Write(c) /\ req[c].op = "restore" /\ Written(c)' => Written(c)
<1>0. TasksType /\ c \in Conns
  BY DEF IInv, TypeOK, TasksType
<1>1. ASSUME NEW x, Answer(c, x)
      PROVE  /\ pc'[c] = "answer" /\ resp'[c] = x /\ req' = req /\ clip' = clip
             /\ \A d \in Conns : d # c => pc'[d] = pc[d] /\ resp'[d] = resp[d]
  BY <1>0, <1>1 DEF Answer, TasksType
<1>2. ASSUME NEW p, NEW j, Proceed(c, p, j)
      PROVE  /\ pc'[c] = p /\ req' = req
             /\ \A d \in Conns : d # c => pc'[d] = pc[d] /\ resp'[d] = resp[d]
  BY <1>0, <1>2 DEF Proceed, TasksType
<1>3. \A e : Err(e).type = "Err"
  BY DEF Err
<1>4. CASE Accept(c)
  <2>1. /\ req' = req /\ clip' = clip /\ pc[c] = "sent"
        /\ \A d \in Conns : d # c => pc'[d] = pc[d] /\ resp'[d] = resp[d]
    BY <1>0, <1>4 DEF Accept, TasksType
  <2>2. pc'[c] = "wait" \/ (pc'[c] = "answer" /\ req[c].op = "malformed")
    BY <1>0, <1>4 DEF Accept, TasksType
  <2>3. QED
    BY <2>1, <2>2 DEF Written, Write
<1>5. CASE Search(c) \/ Delete(c) \/ Pin(c) \/ Favorite(c)
  <2>1. pc[c] = "wait" /\ req[c].op # "restore"
    BY <1>5 DEF Search, Delete, Pin, Favorite, Granted
  <2>2. \E x : Answer(c, x)
    BY <1>5, Zenon DEF Search, Delete, Pin, Favorite, Update
  <2>3. QED
    BY <1>1, <2>1, <2>2 DEF Write
<1>6. CASE BeginCapture(c) \/ ListTargets(c) \/ ReadText(c) \/ ReadHtml(c) \/ ReadPng(c)
  <2>1. pc[c] # "write" /\ clip' = clip /\ req[c].op = "capture"
    BY <1>6, ServedRequest
    DEF BeginCapture, Granted, ListTargets, ReadText, ReadHtml, ReadPng, Reading
  <2>2. \E p, j : Proceed(c, p, j)
    BY <1>6, Zenon DEF BeginCapture, ListTargets, ReadText, ReadHtml, ReadPng
  <2>3. QED
    BY <1>2, <2>1, <2>2 DEF Write
<1>7. CASE StoreCapture(c)
  <2>1. pc[c] = "store" /\ req[c].op = "capture" /\ \E x : Answer(c, x)
    BY <1>7, ServedRequest DEF StoreCapture
  <2>2. QED
    BY <1>1, <2>1 DEF Write
<1>8. CASE ReadFails(c) \/ WriteFails(c) \/ StorageFails(c)
  <2>1. \E e : Answer(c, Err(e))
    BY <1>8, Zenon DEF ReadFails, WriteFails, StorageFails
  <2>2. pc'[c] = "answer" /\ resp'[c].type = "Err"
    BY <1>1, <1>3, <2>1
  <2>3. QED
    BY <1>1, <2>1, <2>2, <1>0 DEF Write, Written, Proceed, TasksType
<1>9. CASE BeginRestore(c)
  <2>1. pc[c] = "wait"
    BY <1>9 DEF BeginRestore, Granted
  <2>2. (\E e : Answer(c, Err(e))) \/ (clip' = clip /\ \E j : Proceed(c, "write", j))
    BY <1>9 DEF BeginRestore
  <2>3. QED
    BY <1>1, <1>2, <1>3, <2>1, <2>2 DEF Write, Written
<1>10. CASE Write(c)
  <2>1. Proceed(c, "mark", job[c]) /\ pc[c] = "write"
    BY <1>10 DEF Write
  <2>2. QED
    BY <1>2, <1>10, <2>1
<1>11. CASE Mark(c) \/ Paste(c)
  <2>1. pc[c] \in {"mark", "paste"}
    BY <1>11 DEF Mark, Paste
  <2>2. (\E x : Answer(c, x)) \/ (clip' = clip /\ \E j : Proceed(c, "paste", j))
    BY <1>11 DEF Mark, Paste
  <2>3. QED
    BY <1>1, <1>2, <2>1, <2>2 DEF Write, Written
<1>12. QED
  BY <1>4, <1>5, <1>6, <1>7, <1>8, <1>9, <1>10, <1>11 DEF Serve

\* A step of a task of the daemon keeps the invariant.
LEMMA WorkGiven ==
  ASSUME GInv, NEW c \in Conns, Work(c)
  PROVE  Shut' /\ WindowType' /\ ThreadGiven' /\ InboxGiven' /\ KeptShows'
<1>1. /\ Accept(c) \/ Serve(c)
      /\ UNCHANGED <<open, work, inbox, cut>>
      /\ IInv
  BY DEF Work, Desktop, window, GInv, SInv
<1>2. /\ req' = req
      /\ \A d \in Conns : d # c => pc'[d] = pc[d] /\ resp'[d] = resp[d]
      /\ Write(c) => pc[c] = "write" /\ pc'[c] = "mark"
      /\ ~Write(c) => clip' = clip /\ ~(pc[c] = "write" /\ pc'[c] = "mark")
      /\ ~Write(c) /\ req[c].op = "restore" /\ Written(c)' => Written(c)
      /\ pc[c] # "idle"
  BY <1>1, WorkWrites, WorkTasks
<1>3. Write(c) => given' = given \cup {req[c].id} /\ kept' = TRUE
  BY <1>2 DEF Work
<1>4. ~Write(c) => given' = given /\ kept' = kept
  BY <1>2 DEF Work
<1>5. Shut' /\ WindowType'
  BY <1>1 DEF GInv, Shut, WindowType
<1>6. given \subseteq given'
  BY <1>3, <1>4
<1>7. InboxGiven'
  BY <1>1, <1>6 DEF GInv, InboxGiven
<1>8. ThreadGiven'
  <2> SUFFICES ASSUME NEW d \in Conns, work[d] # << >>, pc'[d] # "idle"
               PROVE  /\ req[d] = Head(work[d])
                      /\ req[d].op = "restore" /\ Written(d)' => req[d].id \in given'
    BY <1>1, <1>2 DEF ThreadGiven
  <2>1. CASE d # c
    BY <1>2, <1>6, <2>1 DEF GInv, ThreadGiven, Written
  <2>2. CASE d = c
    <3>1. /\ req[c] = Head(work[c])
          /\ req[c].op = "restore" /\ Written(c) => req[c].id \in given
      BY <1>2, <2>2 DEF GInv, ThreadGiven
    <3>2. CASE Write(c)
      BY <1>3, <2>2, <3>1, <3>2
    <3>3. CASE ~Write(c)
      BY <1>2, <1>4, <2>2, <3>1, <3>3
    <3>4. QED
      BY <3>2, <3>3
  <2>3. QED
    BY <2>1, <2>2
<1>9. KeptShows'
  <2>1. CASE Write(c)
    <3>1. /\ req[c].op = "restore" /\ Stored(req[c].id)
          /\ Represents(job[c].payload, rows[req[c].id].payload, req[c].plain)
      BY <1>1, <1>2, <2>1 DEF IInv, WritesItsItem
    <3>2. ~IsEmpty(job[c].payload) /\ Represents(job[c].payload, rows[req[c].id].payload, FALSE)
      BY <3>1 DEF Represents
    <3>3. clip'.owner = "xclip" /\ clip'.data = job[c].payload /\ rows' = rows
      BY <2>1, <3>2 DEF Write, ByXclip, store
    <3>4. req[c].id \in given' \cap Ids
      BY <1>1, <1>3, <2>1, <3>1, RequestFields
    <3>5. PICK k \in given' \cap Ids : k = req[c].id
      BY <3>4
    <3>6. rows'[k] # NoRow /\ Represents(clip'.data, rows'[k].payload, FALSE)
      BY <3>1, <3>2, <3>3, <3>5 DEF Stored
    <3>7. QED
      BY <3>3, <3>5, <3>6 DEF KeptShows, Stored
  <2>2. CASE ~Write(c) /\ kept
    <3>1. PICK k \in given \cap Ids : Stored(k) /\ Represents(clip.data, rows[k].payload, FALSE)
      BY <2>2 DEF GInv, KeptShows
    <3>2. Stored(k)' /\ rows'[k].payload = rows[k].payload
      BY <1>1, <3>1, RowsStay
    <3>3. clip' = clip /\ clip.owner = "xclip" /\ given' = given
      BY <1>2, <1>4, <2>2 DEF GInv, KeptShows
    <3>4. Represents(clip'.data, rows'[k].payload, FALSE)
      BY <3>1, <3>2, <3>3
    <3>5. QED
      BY <3>1, <3>2, <3>3, <3>4 DEF KeptShows
  <2>3. CASE ~Write(c) /\ ~kept
    BY <1>4, <2>3 DEF KeptShows
  <2>4. QED
    BY <2>1, <2>2, <2>3
<1>10. QED
  BY <1>5, <1>7, <1>8, <1>9

\* Other programs, the focus, and the daemon's death and return.
LEMMA OthersGiven ==
  ASSUME GInv, Switch \/ Others \/ Dies \/ Returns
  PROVE  Shut' /\ WindowType' /\ ThreadGiven' /\ InboxGiven' /\ KeptShows'
<1>1. UNCHANGED <<rows, open, work, inbox, given>>
  BY DEF Switch, Others, Dies, Returns, TakeSelection, Crash, Restart, Desktop, window, store, vars
<1>2. Shut' /\ WindowType' /\ InboxGiven'
  BY <1>1 DEF GInv, Shut, WindowType, InboxGiven
<1>3. ThreadGiven'
  <2>1. CASE Dies
    BY <2>1 DEF Dies, Crash, ThreadGiven
  <2>2. CASE ~Dies
    <3>1. UNCHANGED <<pc, req, resp>>
      BY <2>2 DEF Switch, Others, Returns, TakeSelection, Restart, tasks, vars
    <3>2. QED
      BY <1>1, <3>1 DEF GInv, ThreadGiven, Written
  <2>3. QED
    BY <2>1, <2>2
<1>4. KeptShows'
  <2>1. kept' = FALSE \/ (kept' = kept /\ clip' = clip)
    BY DEF Switch, Others, Dies, Returns, Restart, vars
  <2>2. QED
    BY <1>1, <2>1 DEF GInv, KeptShows, Stored
<1>5. QED
  BY <1>2, <1>3, <1>4

\* The invariant of the session: what was written, kept, awaited and reported.
THEOREM SessionGiven == SessionSpec => []GInv
<1>1. SessionInit => GInv
  <2> SUFFICES ASSUME SessionInit PROVE GInv
    OBVIOUS
  <2>1. IInv /\ CutIdle
    BY Initially DEF SessionInit, CutIdle
  <2>2. /\ inbox = << >> /\ work = [c \in Conns |-> << >>] /\ kept = FALSE /\ << >> \in Seq({})
    BY DEF SessionInit, P!Closed
  <2>3. Shut /\ WindowType /\ ThreadGiven
    BY <2>2 DEF Shut, WindowType, ThreadGiven
  <2>4. InboxGiven
    BY <2>2 DEF InboxGiven
  <2>5. KeptShows
    BY <2>2, Zenon DEF KeptShows
  <2>6. QED
    BY <2>1, <2>3, <2>4, <2>5 DEF GInv, SInv
<1>2. GInv /\ [SessionNext]_svars => GInv'
  <2> SUFFICES ASSUME GInv, [SessionNext]_svars PROVE GInv'
    OBVIOUS
  <2>1. SInv'
    <3>1. [Next]_vars
      BY DaemonSteps DEF svars
    <3>2. QED
      BY <3>1, NextInv, CutInv DEF GInv, SInv
  <2>2. Shut' /\ WindowType' /\ ThreadGiven' /\ InboxGiven' /\ KeptShows'
    <3>1. CASE UNCHANGED svars
      BY <3>1 DEF svars, vars, window, GInv, Shut, WindowType, ThreadGiven, Written, InboxGiven,
                  KeptShows, Stored
    <3>2. QED
      BY <3>1, WindowGiven, AskGiven, WorkGiven, ReturnGiven, NoticeGiven, OthersGiven
      DEF SessionNext
  <2>3. QED
    BY <2>1, <2>2 DEF GInv
<1>3. QED
  BY <1>1, <1>2, PTL DEF SessionSpec

\* When a restore closes the window its item was written, by this window's time,
\* and the selection holds it, unless somebody took it or another item was
\* restored; with any keys, connections, programs and deaths of the daemon.
THEOREM RestoreCloses == SessionSpec => ClosesOnItem
<1> DEFINE r == Head(inbox).req
           Closed == /\ r.id \in given
                     /\ kept => clip.owner = "xclip"
                     /\ kept /\ given = {r.id} => Represents(clip.data, rows[r.id].payload, FALSE)
<1>1. ASSUME GInv, Receive, open, ~open' PROVE Closed
  <2>1. inbox # << >> /\ P!RestoreFinished
    BY <1>1, ReceiverThreads DEF Receive
  <2>2. r.op = "restore" /\ Head(inbox).res.type \notin {"Err", "Lost"}
    BY <2>1 DEF P!RestoreFinished, P!Succeeded, P!Failed
  <2>3. Head(inbox) = inbox[1] /\ 1 \in DOMAIN inbox
    <3>1. PICK S : inbox \in Seq(S)
      BY <1>1 DEF GInv, WindowType
    <3>2. QED
      BY <2>1, <3>1
  <2>4. r.id \in given
    BY <1>1, <2>2, <2>3 DEF GInv, InboxGiven
  <2>5. kept => /\ clip.owner = "xclip"
                /\ \E k \in given : Represents(clip.data, rows[k].payload, FALSE)
    BY <1>1 DEF GInv, KeptShows
  <2>6. kept /\ given = {r.id} => Represents(clip.data, rows[r.id].payload, FALSE)
    BY <2>5
  <2>7. QED
    BY <2>4, <2>5, <2>6
<1>2. GInv /\ [SessionNext]_svars => [Receive /\ open /\ ~open' => Closed]_svars
  BY <1>1
<1>3. QED
  BY <1>2, SessionGiven, PTL DEF SessionSpec, ClosesOnItem

-----------------------------------------------------------------------------
(***************************************************************************)
(* What is proved of Picker, on the daemon. PP is the picker of the        *)
(* session once more, now with its theorems; what it and P define is the   *)
(* same formula, once every definition is expanded.                        *)
(***************************************************************************)
PP == INSTANCE PickerProofs WITH call <- Calls

\* The theorems of the picker are under its assumptions on the constants, which
\* the daemon and the session share.
LEMMA PickerAssumptions ==
  PP!TypesAssumption /\ PP!RepositoryAssumption /\ PP!ServiceAssumption /\ PP!PickerAssumption
<1>1. \A S : PP!IsFiniteSet(S) <=> IsFiniteSet(S)
  BY Zenon DEF IsFiniteSet, PP!IsFiniteSet
<1>2. PP!Payload = Payload /\ PP!Request = Request
  BY Zenon DEF Payload, PP!Payload, Request, PP!Request
<1>3. PP!TypesAssumption
  BY <1>1, TypesAssumption DEF TypesAssumption, PP!TypesAssumption
<1>4. PP!RepositoryAssumption
  BY <1>2, RepositoryAssumption DEF RepositoryAssumption, PP!RepositoryAssumption
<1>5. PP!ServiceAssumption
  BY <1>1, <1>2, DaemonAssumption DEF DaemonAssumption, PP!ServiceAssumption
<1>6. PP!PickerAssumption
  BY SessionAssumption DEF SessionAssumption, P!PickerAssumption, PP!PickerAssumption
<1>7. QED
  BY <1>3, <1>4, <1>5, <1>6

\* The initial states of the two instances are the same.
LEMMA SameStart == P!PickerInit <=> PP!PickerInit
BY Zenon
DEF P!PickerInit, PP!PickerInit, P!Init, PP!Init, P!StoreInit, PP!StoreInit, P!Closed, PP!Closed,
    P!Idle, PP!Idle

\* So are the steps: of the user, of the receiver, of the threads and of the
\* service.
LEMMA SameStep == P!PickerNext <=> PP!PickerNext
<1>1. P!User <=> PP!User
  BY Zenon
  DEF P!User, PP!User, P!Open, PP!Open, P!Close, PP!Close, P!Closes, PP!Closes, P!Type, PP!Type,
      P!Start, PP!Start, P!Free, PP!Free, P!Cardinality, PP!Cardinality, P!Busy, PP!Busy,
      P!Idle, PP!Idle, P!Searching, PP!Searching, P!Capturing, PP!Capturing, P!MoveUp, PP!MoveUp, P!MoveDown, PP!MoveDown,
      P!SelectRow, PP!SelectRow, P!RestoreSelected, PP!RestoreSelected, P!DeleteSelected,
      PP!DeleteSelected, P!TogglePin, PP!TogglePin, P!ToggleFavorite, PP!ToggleFavorite, P!Press,
      PP!Press, P!Restoring, PP!Restoring, P!vars, PP!vars
<1>2. P!Receiver <=> PP!Receiver
  BY Zenon
  DEF P!Receiver, PP!Receiver, P!SearchFinished, PP!SearchFinished, P!SearchFailed,
      PP!SearchFailed, P!RestoreFinished, PP!RestoreFinished, P!DeleteFinished, PP!DeleteFinished,
      P!PinFinished, PP!PinFinished, P!FavoriteFinished, PP!FavoriteFinished, P!ActionFailed,
      PP!ActionFailed, P!Read, PP!Read, P!Failed, PP!Failed, P!Succeeded, PP!Succeeded, P!Show,
      PP!Show, P!Closes, PP!Closes, P!RemoveById, PP!RemoveById, P!Without, PP!Without, P!SetById,
      PP!SetById, P!vars, PP!vars
<1>3. \A c : P!Thread(c) <=> PP!Thread(c)
  BY Zenon
  DEF P!Thread, PP!Thread, P!SendRequest, PP!SendRequest, P!Refused, PP!Refused, P!Respond,
      PP!Respond, P!Disconnect, PP!Disconnect, P!Discard, PP!Discard, P!Invoke, PP!Invoke,
      P!Finish, PP!Finish, P!Busy, PP!Busy, P!Idle, PP!Idle, P!Pending, PP!Pending, P!Lost,
      PP!Lost, P!store, PP!store, P!window, PP!window
<1>4. \A c : P!Served(c) <=> PP!Served(c)
  BY Zenon
  DEF P!Served, PP!Served, P!window, PP!window, P!Stored, PP!Stored, P!Touch, PP!Touch, P!Upsert,
      PP!Upsert, P!SoftDelete, PP!SoftDelete, P!SetPinned, PP!SetPinned, P!SetFavorite,
      PP!SetFavorite, P!MarkUsed, PP!MarkUsed, P!Live, PP!Live, P!Window, PP!Window, P!Found,
      PP!Found, P!Before, PP!Before, P!Listings, PP!Listings, P!ItemOf, PP!ItemOf, P!store,
      PP!store, P!Payload, PP!Payload, P!IsEmpty, PP!IsEmpty, P!Matches, PP!Matches, P!Errors,
      PP!Errors, P!Ok, PP!Ok, P!Captured, PP!Captured, P!Items, PP!Items, P!Err, PP!Err,
      P!Cardinality, PP!Cardinality, P!Pending, PP!Pending, P!Done, PP!Done, P!Readable,
      PP!Readable, P!Failures, PP!Failures, P!Answer, PP!Answer, P!Asked, PP!Asked, P!Capture,
      PP!Capture, P!Search, PP!Search, P!Restore, PP!Restore, P!Delete, PP!Delete, P!Pin, PP!Pin,
      P!Favorite, PP!Favorite, P!Fail, PP!Fail, P!Serve, PP!Serve
<1>5. QED
  BY <1>1, <1>2, <1>3, <1>4, Zenon DEF P!PickerNext, PP!PickerNext

\* The session is a behaviour of the picker the theorems are about.
LEMMA SessionPicks == ASSUME ~Reliable PROVE SessionSpec => PP!PickerSpec
<1>1. [P!PickerNext]_(P!pvars) => [PP!PickerNext]_(PP!pvars)
  BY SameStep DEF P!pvars, PP!pvars, P!vars, PP!vars, P!window, PP!window
<1>2. QED
  BY <1>1, SameStart, PickerOnDaemon, PTL DEF PicksOnDaemon, P!PickerSpec, PP!PickerSpec

\* The session's own variables.
FocusType == focus \in {"app", "picker"} /\ given \subseteq Ids /\ kept \in BOOLEAN

\* They keep their types.
LEMMA FocusTyped == SessionSpec => []FocusType
<1>1. SessionInit => FocusType
  BY DEF SessionInit, FocusType
<1>2. SInv /\ FocusType /\ [SessionNext]_svars => FocusType'
  <2> SUFFICES ASSUME SInv, FocusType, [SessionNext]_svars PROVE FocusType'
    OBVIOUS
  <2>1. ASSUME NEW c \in Conns, Work(c) PROVE FocusType'
    <3>1. pc[c] = "write" => req[c].id \in Ids
      BY DEF SInv, IInv, TypeOK, TasksType, WritesItsItem, Request
    <3>2. QED
      BY <2>1, <3>1 DEF Work, Desktop, FocusType
  <2>2. ASSUME NEW c \in Conns, Ask(c) \/ Return(c) \/ Notice(c) PROVE FocusType'
    BY <2>2 DEF Ask, Return, Notice, FocusType
  <2>3. CASE User \/ Switch \/ Receive
    BY <2>3 DEF User, Switch, Receive, FocusType
  <2>4. CASE Others \/ Dies \/ Returns \/ UNCHANGED svars
    BY <2>4 DEF Others, Dies, Returns, Desktop, svars, FocusType
  <2>5. QED
    BY <2>1, <2>2, <2>3, <2>4 DEF SessionNext
<1>3. QED
  BY <1>1, <1>2, SessionInductive, PTL DEF SessionSpec

\* Daemon, window and threads stay well-formed when they run together, with
\* any keys, connections, programs and deaths of the daemon.
THEOREM SessionTypeCorrect == ASSUME ~Reliable PROVE SessionSpec => []SessionTypeOK
<1>1. PP!PickerSpec => []PP!PickerTypeOK
  BY PP!PickerTypeCorrect, PickerAssumptions
<1>2. PP!PickerTypeOK => P!PickerTypeOK
  BY Zenon
  DEF P!PickerTypeOK, PP!PickerTypeOK, P!TypeOK, PP!TypeOK, P!StoreType, PP!StoreType, P!Row, PP!Row,
      P!Content, PP!Content, P!IsEmpty, PP!IsEmpty, P!Payload, PP!Payload, P!Calls, PP!Calls, P!Request, PP!Request, P!Response, PP!Response,
      P!Item, PP!Item, P!Errors, PP!Errors, P!Message, PP!Message, P!Lost, PP!Lost
<1>3. IInv /\ P!PickerTypeOK /\ FocusType => SessionTypeOK
  BY DEF IInv, FocusType, SessionTypeOK
<1>4. QED
  BY <1>1, <1>2, <1>3, SessionPicks, SessionInductive, FocusTyped, PTL DEF SInv

\* On the daemon, too, rows that are shown have one selected, and no thread of
\* the picker is told that its item is unknown.
THEOREM SessionSafe ==
  ASSUME ~Reliable PROVE SessionSpec => [](P!SelectionShown /\ P!NeverNotFound)
<1>1. PP!PickerSpec => []PP!SelectionShown
  BY PP!SelectionAlwaysShown, PickerAssumptions
<1>2. PP!PickerSpec => []PP!NeverNotFound
  BY PP!ItemsAlwaysFound, PickerAssumptions
<1>3. PP!SelectionShown /\ PP!NeverNotFound => P!SelectionShown /\ P!NeverNotFound
  BY Zenon
  DEF P!SelectionShown, PP!SelectionShown, P!NeverNotFound, PP!NeverNotFound, P!Done, PP!Done,
      P!Err, PP!Err
<1>4. QED
  BY <1>1, <1>2, <1>3, SessionPicks, PTL
=============================================================================
