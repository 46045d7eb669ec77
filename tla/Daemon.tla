-------------------------------- MODULE Daemon -------------------------------
(***************************************************************************)
(* rcopyd: one task per connection on one thread (handle_client,           *)
(* dispatch_request in crates/daemon/src/ipc.rs), a FIFO mutex around the  *)
(* service that is held across every await of a request, the awaits of     *)
(* capture and restore one by one (crates/daemon/src/service.rs and        *)
(* capture.rs), the xclip processes behind them, each of which speaks to   *)
(* whoever owns the X11 selection at that moment                           *)
(* (crates/integration/src/clipboard.rs), the xdotool process              *)
(* (paste.rs), and the death and restart of the daemon.                    *)
(*                                                                         *)
(* The rest of the desktop is an adversary: any program may take the       *)
(* selection, give it up or stop answering between any two steps.          *)
(***************************************************************************)
EXTENDS Repository

CONSTANTS
  Conns,      \* Connections to the socket.
  Requests,   \* The requests clients make.
  AtStart,    \* The selections there may be when the daemon starts.
  Outside     \* The selections other programs make current later.

(***************************************************************************)
(* A selection: its owner (a program, the xclip of a restore, or nobody),  *)
(* the representations it offers, and whether the owner answers.           *)
(***************************************************************************)
Selection == [owner : {"app", "xclip", "nobody"}, data : Payload, hung : BOOLEAN]

Nobody == [owner |-> "nobody", data |-> Blank, hung |-> FALSE]

ByXclip(p) == [owner |-> "xclip", data |-> p, hung |-> FALSE]

ASSUME DaemonAssumption ==
  /\ IsFiniteSet(Conns)
  /\ Requests \subseteq Request
  /\ AtStart \subseteq Selection
  /\ Outside \subseteq {s \in Selection : s.owner # "xclip"}

VARIABLES
  clip,    \* The X11 CLIPBOARD selection.
  up,      \* rcopyd is running.
  queue,   \* Tasks at the service mutex; the first one holds it.
  pc,      \* pc[c]: where the task of connection c is.
  req,     \* req[c]: its request.
  job,     \* job[c]: the locals of its capture or restore.
  resp     \* resp[c]: its response.

vars == <<rows, lastUsed, clip, up, queue, pc, req, job, resp>>

tasks == <<queue, pc, req, job, resp>>

(***************************************************************************)
(* A capture is in one of the Reading places while an xclip -o runs. In    *)
(* the places of Serving a task holds the mutex.                           *)
(***************************************************************************)
Reading == {"targets", "text", "html", "png"}
Serving == Reading \cup {"store", "write", "mark", "paste"}
Places  == Serving \cup {"idle", "sent", "wait", "answer"}

\* The locals: the kinds TARGETS offered, and what was read or is to be put
\* back.
Jobs == [offered : SUBSET Kinds, payload : Payload]

NoJob == [offered |-> {}, payload |-> Blank]
NoReq == [op |-> "malformed"]

TypeOK ==
  /\ StoreType
  /\ clip \in Selection
  /\ up \in BOOLEAN
  /\ queue \in Seq(Conns)
  /\ pc \in [Conns -> Places]
  /\ req \in [Conns -> Request]
  /\ job \in [Conns -> Jobs]
  /\ resp \in [Conns -> Response]

Init ==
  /\ StoreInit
  /\ clip \in AtStart
  /\ up = TRUE
  /\ queue = << >>
  /\ pc = [c \in Conns |-> "idle"]
  /\ req = [c \in Conns |-> NoReq]
  /\ job = [c \in Conns |-> NoJob]
  /\ resp = [c \in Conns |-> Ok]

-----------------------------------------------------------------------------
(***************************************************************************)
(* The desktop.                                                            *)
(***************************************************************************)
\* A program takes the selection, gives it up, or stops serving it.
TakeSelection ==
  /\ \E s \in Outside : clip' = s
  /\ UNCHANGED <<rows, lastUsed, up, tasks>>

-----------------------------------------------------------------------------
(***************************************************************************)
(* Connections, the mutex, and the response.                               *)
(***************************************************************************)
\* IpcClient::request up to its write: the line is in the socket.
Send(c) ==
  /\ up
  /\ pc[c] = "idle"
  /\ \E r \in Requests : req' = [req EXCEPT ![c] = r]
  /\ pc' = [pc EXCEPT ![c] = "sent"]
  /\ UNCHANGED <<rows, lastUsed, clip, up, queue, job, resp>>

\* handle_client up to lock(): a line that is no request is answered without
\* the service, another one joins the queue of the mutex.
Accept(c) ==
  /\ pc[c] = "sent"
  /\ \/ /\ req[c].op = "malformed"
        /\ pc' = [pc EXCEPT ![c] = "answer"]
        /\ resp' = [resp EXCEPT ![c] = Err("Malformed")]
        /\ UNCHANGED queue
     \/ /\ req[c].op # "malformed"
        /\ pc' = [pc EXCEPT ![c] = "wait"]
        /\ queue' = Append(queue, c)
        /\ UNCHANGED resp
  /\ UNCHANGED <<rows, lastUsed, clip, up, req, job>>

\* What the daemon would do without the mutex: serve whoever waits.
GrantedAnyone(c) == pc[c] = "wait"

\* lock() returns to the first in the queue.
Granted(c) == pc[c] = "wait" /\ Head(queue) = c

\* The request of c is served: the guard is dropped, the locals with it, and
\* the response is ready to be written.
Answer(c, x) ==
  /\ pc' = [pc EXCEPT ![c] = "answer"]
  /\ resp' = [resp EXCEPT ![c] = x]
  /\ queue' = Tail(queue)
  /\ job' = [job EXCEPT ![c] = NoJob]
  /\ UNCHANGED <<clip, up, req>>

\* The task of c ends, and its connection with it.
Close(c) ==
  /\ pc' = [pc EXCEPT ![c] = "idle"]
  /\ req' = [req EXCEPT ![c] = NoReq]
  /\ resp' = [resp EXCEPT ![c] = Ok]
  /\ UNCHANGED <<rows, lastUsed, clip, up, queue, job>>

\* The end of handle_client. Of a client that left nothing is noticed before.
Reply(c) == pc[c] = "answer" /\ Close(c)

\* read_line fails, on a line that is no request because it is not UTF-8: the
\* connection ends without an answer.
ReadLineFails(c) == pc[c] = "sent" /\ req[c].op = "malformed" /\ Close(c)

\* The task of c passes to place p, with local state j.
Proceed(c, p, j) ==
  /\ pc' = [pc EXCEPT ![c] = p]
  /\ job' = [job EXCEPT ![c] = j]
  /\ UNCHANGED <<up, queue, req, resp>>

-----------------------------------------------------------------------------
(***************************************************************************)
(* Search, Delete, Pin and Favorite have no await: one step each.          *)
(***************************************************************************)
Search(c) ==
  /\ Granted(c)
  /\ req[c].op = "search"
  /\ \E s \in Listings(req[c].query) : Answer(c, Items([n \in DOMAIN s |-> ItemOf(s[n])]))
  /\ UNCHANGED store

\* An UPDATE that affects no row is NotFound, else Op and Ok.
Update(c, Op(_)) ==
  IF Stored(req[c].id)
  THEN Op(req[c].id) /\ Answer(c, Ok)
  ELSE Answer(c, Err("NotFound")) /\ UNCHANGED store

Delete(c) == Granted(c) /\ req[c].op = "delete" /\ Update(c, SoftDelete)

Pin(c) ==
  Granted(c) /\ req[c].op = "pin" /\ Update(c, LAMBDA id : SetPinned(id, req[c].value))

Favorite(c) ==
  Granted(c) /\ req[c].op = "favorite" /\ Update(c, LAMBDA id : SetFavorite(id, req[c].value))

-----------------------------------------------------------------------------
(***************************************************************************)
(* Capture: xclip -t TARGETS -o, one xclip -o per representation wanted,   *)
(* then the upsert.                                                        *)
(***************************************************************************)
BeginCapture(c) ==
  /\ Granted(c)
  /\ req[c].op = "capture"
  /\ Proceed(c, "targets", NoJob)
  /\ UNCHANGED <<store, clip>>

\* Where read_supported goes after kind k: HTML only when no text was read,
\* and only what TARGETS offered.
NextRead(k, j) ==
  IF k = "targets" /\ "text" \in j.offered
  THEN "text"
  ELSE IF k \in {"targets", "text"} /\ "html" \in j.offered /\ j.payload.text = None
  THEN "html"
  ELSE IF k # "png" /\ "png" \in j.offered
  THEN "png"
  ELSE "store"

\* list_offered_mimes. Nobody's selection has no TARGETS: xclip fails.
ListTargets(c) ==
  /\ pc[c] = "targets"
  /\ clip.owner # "nobody" /\ ~clip.hung
  /\ LET j == [NoJob EXCEPT !.offered = {k \in Kinds : clip.data[k] # None}]
     IN  Proceed(c, NextRead("targets", j), j)
  /\ UNCHANGED <<store, clip>>

\* The reads (read_mime, read_bytes): what the owner of this moment has of the
\* kind wanted; a target it does not have is exit code 1, no value and no error.
ReadText(c) ==
  /\ pc[c] = "text"
  /\ ~clip.hung
  /\ LET v == IF clip.data.text = None THEN None ELSE Cleaned[clip.data.text]
         j == [job[c] EXCEPT !.payload.text = v]
     IN  Proceed(c, NextRead("text", j), j)
  /\ UNCHANGED <<store, clip>>

ReadHtml(c) ==
  /\ pc[c] = "html"
  /\ ~clip.hung
  /\ LET j == [job[c] EXCEPT !.payload.html = clip.data.html]
     IN  Proceed(c, NextRead("html", j), j)
  /\ UNCHANGED <<store, clip>>

ReadPng(c) ==
  /\ pc[c] = "png"
  /\ ~clip.hung
  /\ LET j == [job[c] EXCEPT !.payload.png = clip.data.png]
     IN  Proceed(c, NextRead("png", j), j)
  /\ UNCHANGED <<store, clip>>

\* What the reads would do without COMMAND_TIMEOUT: fail only when xclip does.
ReadFailsAnswering(c) ==
  /\ pc[c] \in Reading
  /\ ~clip.hung
  /\ Answer(c, Err("Clipboard"))
  /\ UNCHANGED store

\* command_output: xclip cannot be started, fails, prints no UTF-8, or has
\* not answered after COMMAND_TIMEOUT. What was read so far is dropped.
ReadFails(c) ==
  /\ pc[c] \in Reading
  /\ Answer(c, Err("Clipboard"))
  /\ UNCHANGED store

\* What a wrong capture_once would do: store an item without a look at what it holds.
StoreAnything(c) ==
  /\ pc[c] = "store"
  /\ Upsert(job[c].payload) /\ Answer(c, Captured(TRUE))

\* capture_once after its await.
StoreCapture(c) ==
  /\ pc[c] = "store"
  /\ IF IsEmpty(job[c].payload)
     THEN Answer(c, Captured(FALSE)) /\ UNCHANGED store
     ELSE Upsert(job[c].payload) /\ Answer(c, Captured(TRUE))

-----------------------------------------------------------------------------
(***************************************************************************)
(* Restore: get_item, xclip -i, mark_used, xdotool key ctrl+v.             *)
(***************************************************************************)
\* What a wrong restore would do: not look whether there is a text to write.
BeginRestoreUnchecked(c) ==
  /\ Granted(c)
  /\ req[c].op = "restore"
  /\ LET r == req[c]
         p == IF r.plain THEN [Blank EXCEPT !.text = rows[r.id].payload.text]
                         ELSE rows[r.id].payload
     IN  IF ~Stored(r.id) THEN Answer(c, Err("NotFound"))
         ELSE Proceed(c, "write", [NoJob EXCEPT !.payload = WriteMime(p)]) /\ UNCHANGED clip
  /\ UNCHANGED store

\* Up to the first await. get_item finds deleted rows too.
BeginRestore(c) ==
  /\ Granted(c)
  /\ req[c].op = "restore"
  /\ LET r == req[c]
         p == IF r.plain THEN [Blank EXCEPT !.text = rows[r.id].payload.text]
                         ELSE rows[r.id].payload
     IN  IF ~Stored(r.id) THEN Answer(c, Err("NotFound"))
         ELSE IF r.plain /\ rows[r.id].payload.text = None
         THEN Answer(c, Err("PlainTextUnavailable"))
         ELSE Proceed(c, "write", [NoJob EXCEPT !.payload = WriteMime(p)]) /\ UNCHANGED clip
  /\ UNCHANGED store

\* What a wrong restore would do: mark the item used before it is written.
WriteMarksFirst(c) ==
  /\ pc[c] = "write"
  /\ \/ MarkUsed(req[c].id) /\ UNCHANGED tasks
     \/ Proceed(c, "mark", job[c]) /\ UNCHANGED store
  /\ clip' = clip
  /\ UNCHANGED up

\* write_mime: xclip has taken the selection and the parent has exited.
Write(c) ==
  /\ pc[c] = "write"
  /\ clip' = IF IsEmpty(job[c].payload) THEN clip ELSE ByXclip(job[c].payload)
  /\ Proceed(c, "mark", job[c])
  /\ UNCHANGED store

\* What a wrong restore would do: go on when xclip could not be given the item.
WriteFailsSilently(c) ==
  /\ pc[c] = "write"
  /\ Proceed(c, "mark", job[c])
  /\ UNCHANGED <<store, clip>>

WriteFails(c) ==
  /\ pc[c] = "write"
  /\ Answer(c, Err("Clipboard"))
  /\ UNCHANGED store

\* mark_used and the return of a restore that is not to paste.
Mark(c) ==
  /\ pc[c] = "mark"
  /\ IF ~Stored(req[c].id)
     THEN Answer(c, Err("NotFound")) /\ UNCHANGED store
     ELSE /\ MarkUsed(req[c].id)
          /\ IF req[c].paste
             THEN Proceed(c, "paste", job[c]) /\ UNCHANGED clip
             ELSE Answer(c, Restored(FALSE, FALSE))

\* What a wrong restore would do: fail when xdotool does.
PasteFailureFails(c) ==
  /\ pc[c] = "paste"
  /\ \E x \in {Restored(TRUE, TRUE), Err("Clipboard")} : Answer(c, x)
  /\ UNCHANGED store

\* paste: xdotool has sent ctrl+v, or could not; a restore either way.
Paste(c) ==
  /\ pc[c] = "paste"
  /\ \E done \in BOOLEAN : Answer(c, Restored(TRUE, done))
  /\ UNCHANGED store

\* A statement fails (disk full, a lock not freed in SQLITE_BUSY_TIMEOUT, a
\* row that cannot be read back) and changes nothing.
StorageFails(c) ==
  /\ (Granted(c) /\ req[c].op # "capture") \/ pc[c] \in {"store", "mark"}
  /\ pc[c] = "store" => ~IsEmpty(job[c].payload)
  /\ Answer(c, Err("Storage"))
  /\ UNCHANGED store

-----------------------------------------------------------------------------
(***************************************************************************)
(* The daemon dies: its connections close, every table row stays, and the  *)
(* xclip that serves a restored item, a child of the service's control     *)
(* group, may die with it. systemd starts it again.                        *)
(***************************************************************************)
Crash ==
  /\ up
  /\ up' = FALSE
  /\ queue' = << >>
  /\ pc' = [c \in Conns |-> "idle"]
  /\ req' = [c \in Conns |-> NoReq]
  /\ job' = [c \in Conns |-> NoJob]
  /\ resp' = [c \in Conns |-> Ok]
  /\ clip' \in {clip} \cup (IF clip.owner = "xclip" THEN {Nobody} ELSE {})
  /\ UNCHANGED store

Restart ==
  /\ ~up
  /\ up' = TRUE
  /\ UNCHANGED <<store, clip, tasks>>

-----------------------------------------------------------------------------
\* A step of the task that holds the mutex.
Serve(c) ==
  \/ Search(c) \/ Delete(c) \/ Pin(c) \/ Favorite(c)
  \/ BeginCapture(c) \/ ListTargets(c) \/ ReadText(c) \/ ReadHtml(c) \/ ReadPng(c) \/ ReadFails(c)
  \/ StoreCapture(c)
  \/ BeginRestore(c) \/ Write(c) \/ WriteFails(c) \/ Mark(c) \/ Paste(c)
  \/ StorageFails(c)

Next ==
  \/ TakeSelection \/ Crash \/ Restart
  \/ \E c \in Conns : Send(c) \/ Accept(c) \/ ReadLineFails(c) \/ Serve(c) \/ Reply(c)

Spec == Init /\ [][Next]_vars

(***************************************************************************)
(* The runtime polls every task that can go on. An xclip -o is cut off     *)
(* after two seconds; xclip -i and xdotool, which nothing cuts off, are    *)
(* assumed to end.                                                         *)
(***************************************************************************)
Fairness ==
  /\ \A c \in Conns : WF_vars(Accept(c)) /\ WF_vars(Serve(c)) /\ WF_vars(Reply(c))
  /\ WF_vars(Restart)

FairSpec == Spec /\ Fairness

-----------------------------------------------------------------------------
(***************************************************************************)
(* Properties.                                                             *)
(***************************************************************************)
\* The service is used by one task at a time although each request awaits
\* several processes: a task in the middle of a capture or a restore is the
\* first of the mutex's queue, and every waiting task is in the queue once.
HolderServes == \A c \in Conns : pc[c] \in Serving => queue # << >> /\ Head(queue) = c

Queued(c) == \E n \in DOMAIN queue : queue[n] = c

WaitersQueued == \A c \in Conns : pc[c] \in Serving \cup {"wait"} <=> Queued(c)

QueuedOnce == \A m, n \in DOMAIN queue : queue[m] = queue[n] => m = n

OneAtATime == HolderServes /\ WaitersQueued /\ QueuedOnce

\* What a restore is about to paste is what it wrote, never what a restore
\* that overtook it wrote: when the paste key is sent, the selection is this
\* task's, unless another program has taken it.
PastesItsOwn ==
  \A c \in Conns : pc[c] = "paste" /\ clip.owner = "xclip" => clip.data = job[c].payload

\* The representation written comes from the item asked for.
Represents(w, p, plain) ==
  /\ ~IsEmpty(w)
  /\ w.text # None => p.text # None /\ w.text = Cleaned[p.text]
  /\ w.html \in {None, p.html} /\ w.png \in {None, p.png}
  /\ plain => w.text # None

WritesItsItem ==
  \A c \in Conns : pc[c] \in {"write", "mark", "paste"} =>
    /\ req[c].op = "restore"
    /\ Stored(req[c].id)
    /\ Represents(job[c].payload, rows[req[c].id].payload, req[c].plain)

\* When the paste key is sent the item is already the latest of the history:
\* a crash, or a search that follows, finds it on top of its group.
MarkedBeforePaste ==
  \A c \in Conns : pc[c] = "paste" => lastUsed[req[c].id] = 1

\* While a capture reads representation after representation, the daemon does
\* not change the selection under it: only another program can.
CaptureUndisturbed ==
  [][\A c \in Conns : pc[c] \in Reading /\ clip' # clip => clip' \in Outside \cup {Nobody}]_vars

(***************************************************************************)
(* The inductive invariant: the properties above, made inductive by what   *)
(* each place of a task says of its locals.                                *)
(***************************************************************************)
\* A capture reads text, then HTML if there was none, then the image.
ReadsInOrder ==
  \A c \in Conns :
    /\ pc[c] \in Reading \cup {"store"} => req[c].op = "capture"
    /\ pc[c] \in {"targets", "text"} => job[c].payload = Blank
    /\ pc[c] = "html" => job[c].payload.text = None
    /\ pc[c] \in {"png", "store"} => job[c].payload.text = None \/ job[c].payload.html = None

\* From the write to the paste the xclip that owns the selection, if one does,
\* is the one this restore started.
OwnsSelection ==
  \A c \in Conns :
    pc[c] \in {"mark", "paste"} /\ clip.owner = "xclip" => clip.data = job[c].payload

\* A line that is no request never reaches the service.
RequestsWait == \A c \in Conns : pc[c] = "wait" => req[c].op # "malformed"

IInv ==
  /\ TypeOK /\ StoreInv /\ OneAtATime
  /\ RequestsWait /\ ReadsInOrder
  /\ WritesItsItem /\ OwnsSelection /\ MarkedBeforePaste

\* The request in progress as the atomic service sees it: a restore has
\* taken effect when it is marked used, whatever becomes of the paste.
AbsCall ==
  [c \in Conns |->
     CASE pc[c] = "idle" -> [st |-> "idle"]
       [] pc[c] = "paste" -> [st |-> "done", res |-> Ok]
       [] pc[c] = "answer" ->
            [st |-> "done", res |-> IF resp[c].type = "Restored" THEN Ok ELSE resp[c]]
       [] OTHER -> [st |-> "pending", req |-> req[c]]]

Svc == INSTANCE AtomicService WITH call <- AbsCall

\* The daemon implements the atomic service: suspended half-way, overtaken by
\* other programs or killed, a request has taken effect once or not at all.
Atomic == Svc!Spec

\* If at least one supported payload is present, the item is stored: a capture
\* that has read a representation ends with the item in the history.
StoredIfPresent ==
  [][\A c \in Conns : pc[c] \in Reading /\ ~IsEmpty(job[c].payload) /\ pc'[c] = "answer" =>
       resp'[c] = Captured(TRUE)]_vars

\* Every request is answered, or its connection is closed, although owners of
\* the selection hang and the daemon crashes.
Answered == \A c \in Conns : pc[c] = "sent" ~> pc[c] = "idle"
=============================================================================
