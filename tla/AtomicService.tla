---------------------------- MODULE AtomicService ----------------------------
(***************************************************************************)
(* What rcopyd promises its clients: every request is answered once and    *)
(* takes effect in one step between its arrival and its answer, or is      *)
(* refused with an error and leaves the history as it was, or its          *)
(* connection is lost. The operations are the methods of DaemonService     *)
(* (crates/daemon/src/service.rs), dispatched by dispatch_request          *)
(* (crates/daemon/src/ipc.rs). How the daemon keeps this promise while a   *)
(* request waits for xclip and xdotool is module Daemon.                   *)
(***************************************************************************)
EXTENDS Repository

CONSTANTS
  Conns,     \* Connections to the daemon's socket.
  Requests   \* The requests clients make.

ASSUME ServiceAssumption ==
  /\ Requests \subseteq Request
  /\ IsFiniteSet(Conns)

VARIABLE call   \* call[c]: the request in progress on connection c.

vars == <<rows, lastUsed, call>>

Idle       == [st |-> "idle"]
Pending(r) == [st |-> "pending", req |-> r]
Done(x)    == [st |-> "done", res |-> x]

Calls == [st : {"idle"}] \cup [st : {"pending"}, req : Request] \cup [st : {"done"}, res : Response]

TypeOK == StoreType /\ call \in [Conns -> Calls]

\* What a capture can read: HTML is asked for only when there is no text.
Readable == {p \in Payload : p.text = None \/ p.html = None}

\* The errors request r can meet in this state.
Failures(r) ==
  {e \in Errors :
    /\ e = "NotFound" => r.op \in {"restore", "delete", "pin", "favorite"} /\ ~Stored(r.id)
    /\ e = "PlainTextUnavailable" =>
         r.op = "restore" /\ r.plain /\ Stored(r.id) /\ rows[r.id].payload.text = None
    /\ e = "Clipboard" => r.op \in {"capture", "restore"}
    /\ e = "Malformed" <=> r.op = "malformed"}

Init == StoreInit /\ call = [c \in Conns |-> Idle]

-----------------------------------------------------------------------------
Invoke(c) ==
  /\ call[c] = Idle
  /\ \E r \in Requests : call' = [call EXCEPT ![c] = Pending(r)]
  /\ UNCHANGED store

Answer(c, x) == call' = [call EXCEPT ![c] = Done(x)]

\* The request of c, when c has one of kind op in progress.
Asked(c, op) == call[c].st = "pending" /\ call[c].req.op = op

\* What a wrong capture would do: store an item without a look at what it holds.
CaptureAnything(c) ==
  /\ Asked(c, "capture")
  /\ \E p \in Readable : Upsert(p) /\ Answer(c, Captured(TRUE))

\* capture_current: an empty clipboard is ignored.
Capture(c) ==
  /\ Asked(c, "capture")
  /\ \/ Answer(c, Captured(FALSE)) /\ UNCHANGED store
     \/ \E p \in Readable : ~IsEmpty(p) /\ Upsert(p) /\ Answer(c, Captured(TRUE))

Search(c) ==
  /\ Asked(c, "search")
  /\ \E s \in Listings(call[c].req.query) :
       Answer(c, Items([n \in DOMAIN s |-> ItemOf(s[n])]))
  /\ UNCHANGED store

\* restore: of a deleted row too. Whether the paste key was delivered is not
\* part of the promise.
Restore(c) ==
  /\ Asked(c, "restore")
  /\ LET r == call[c].req
     IN  /\ Stored(r.id)
         /\ r.plain => rows[r.id].payload.text # None
         /\ MarkUsed(r.id)
  /\ Answer(c, Ok)

Delete(c) ==
  /\ Asked(c, "delete")
  /\ Stored(call[c].req.id)
  /\ SoftDelete(call[c].req.id)
  /\ Answer(c, Ok)

Pin(c) ==
  /\ Asked(c, "pin")
  /\ Stored(call[c].req.id)
  /\ SetPinned(call[c].req.id, call[c].req.value)
  /\ Answer(c, Ok)

Favorite(c) ==
  /\ Asked(c, "favorite")
  /\ Stored(call[c].req.id)
  /\ SetFavorite(call[c].req.id, call[c].req.value)
  /\ Answer(c, Ok)

Fail(c) ==
  /\ call[c].st = "pending"
  /\ \E e \in Failures(call[c].req) : Answer(c, Err(e))
  /\ UNCHANGED store

\* The answers of S leave, or their requests could not be read, or the daemon
\* stops and its connections with it.
Drop ==
  \E S \in SUBSET Conns :
    /\ \E c \in S : call[c] # Idle
    /\ call' = [c \in Conns |-> IF c \in S THEN Idle ELSE call[c]]
    /\ UNCHANGED store

Serve(c) == Capture(c) \/ Search(c) \/ Restore(c) \/ Delete(c) \/ Pin(c) \/ Favorite(c) \/ Fail(c)

Next == Drop \/ \E c \in Conns : Invoke(c) \/ Serve(c)

Spec == Init /\ [][Next]_vars

-----------------------------------------------------------------------------
(***************************************************************************)
(* Properties.                                                             *)
(***************************************************************************)
\* A row keeps its content for good, and keeps its pin and its favorite mark
\* through captures, restores and deletes: only a request to set that very
\* mark to that very value changes it.
MarkRequested(id, op, value) ==
  \E c \in Conns : call[c] = Pending([op |-> op, id |-> id, value |-> value])

KeepsMarks(id) ==
  /\ Stored(id)' /\ rows'[id].payload = rows[id].payload
  /\ rows'[id].pinned = rows[id].pinned \/ MarkRequested(id, "pin", rows'[id].pinned)
  /\ rows'[id].favorite = rows[id].favorite \/ MarkRequested(id, "favorite", rows'[id].favorite)

MarksOnlyByRequest == [][\A id \in Ids : Stored(id) => KeepsMarks(id)]_vars

\* A deleted item comes back only because the clipboard held it again: the
\* step that undeletes it answers a capture, and makes it the latest.
CameBack(id) ==
  /\ lastUsed'[id] = 1
  /\ \E c \in Conns : Asked(c, "capture") /\ call'[c] = Done(Captured(TRUE))

UndeletedOnlyByCapture ==
  [][\A id \in Ids : Stored(id) /\ rows[id].deleted /\ ~rows'[id].deleted => CameBack(id)]_vars

\* A listing shows the history as it was in one step of its request: the live
\* rows, at most SearchLimit, with their marks, the pinned ones first.
ListingsHonest ==
  [][\A c \in Conns : call[c].st = "pending" /\ call'[c].st = "done" /\ call'[c].res.type = "Items" =>
       LET s == call'[c].res.items
       IN  /\ Len(s) <= SearchLimit
           /\ \A m, n \in DOMAIN s :
                /\ s[m].id = s[n].id => m = n
                /\ s[n].pinned /\ m < n => s[m].pinned
           /\ \A n \in DOMAIN s : s[n].id \in Live /\ s[n] = ItemOf(s[n].id)
           /\ call[c].req.query = NoQuery /\ Len(s) < SearchLimit =>
                \A id \in Live : \E n \in DOMAIN s : s[n].id = id]_vars
=============================================================================
