-------------------------------- MODULE Picker -------------------------------
(***************************************************************************)
(* The rcopy picker in front of the service: the window's list and         *)
(* selection (crates/picker/src/view_model.rs), its keys, the thread every *)
(* request runs on, the channel the threads report through and the handler *)
(* of what they report (crates/picker/src/ui.rs). The daemon is            *)
(* AtomicService, which module Daemon implements.                          *)
(*                                                                         *)
(* One window at a time is open; the next one may open while the daemon    *)
(* still serves requests of the last. A thread is named by the connection  *)
(* it makes its requests on, one after the other.                          *)
(***************************************************************************)
EXTENDS AtomicService

CONSTANTS
  MaxUnread,   \* Bound on the threads and messages of a window.
  Keys,        \* The keys the user presses.
  Reliable     \* Every request reaches the daemon and is answered, its disk does not fail.

ASSUME PickerAssumption ==
  /\ MaxUnread \in Nat \ {0, 1}
  /\ Reliable \in BOOLEAN
  /\ Keys \subseteq {"type", "Up", "Down", "click", "Return", "Shift+Return", "Delete", "Ctrl+P", "Ctrl+F"}

VARIABLES
  open,    \* The window is open.
  typed,   \* The text of the search entry.
  items,   \* PickerModel.items.
  sel,     \* PickerModel.selected_index, counted from 1.
  work,    \* work[c]: the requests the thread of c has still to make.
  inbox    \* The channel: what the threads sent and the window has not read.

window == <<open, typed, items, sel, work, inbox>>

pvars == <<vars, window>>

\* The message of a thread: its last request, and the response or the error.
Lost    == [type |-> "Lost"]
Message == [req : Request, res : Response \cup {Lost}]

Capturing    == [op |-> "capture"]
Searching(q) == [op |-> "search", query |-> q]

PickerTypeOK ==
  /\ TypeOK
  /\ open \in BOOLEAN
  /\ typed \in Queries
  /\ items \in Seq(Item)
  /\ sel \in Nat \ {0}
  /\ work \in [Conns -> Seq(Request)]
  /\ inbox \in Seq(Message)

Closed ==
  /\ open = FALSE
  /\ typed = NoQuery
  /\ items = << >>
  /\ sel = 1
  /\ work = [c \in Conns |-> << >>]
  /\ inbox = << >>

PickerInit == Init /\ Closed

Busy == {c \in Conns : work[c] # << >>}

\* A thread can be started on c.
Free(c) == work[c] = << >> /\ call[c] = Idle /\ Cardinality(Busy) + Len(inbox) < MaxUnread

-----------------------------------------------------------------------------
(***************************************************************************)
(* The window.                                                             *)
(***************************************************************************)
\* build_ui: the history as it is, and, from a second thread, the history
\* after a capture of the clipboard.
Open ==
  /\ ~open
  /\ \E a, b \in Conns :
       /\ a # b /\ call[a] = Idle /\ call[b] = Idle
       /\ work' = [work EXCEPT ![a] = <<Searching(NoQuery)>>,
                               ![b] = <<Capturing, Searching(NoQuery)>>]
  /\ open' = TRUE
  /\ UNCHANGED <<vars, typed, items, sel, inbox>>

\* The picker's process ends, and its threads with it. What is with the
\* daemon stays there.
Closes ==
  /\ open' = FALSE
  /\ typed' = NoQuery
  /\ items' = << >>
  /\ sel' = 1
  /\ work' = [c \in Conns |-> << >>]
  /\ inbox' = << >>

\* Escape, the window manager, or the signal of a second picker.
Close == open /\ Closes /\ UNCHANGED vars

\* A thread is started with one request.
Start(r) ==
  /\ open
  /\ \E c \in Conns : Free(c) /\ work' = [work EXCEPT ![c] = <<r>>]
  /\ UNCHANGED <<vars, open, items, sel, inbox>>

\* The entry's changed signal.
Type ==
  "type" \in Keys /\ \E q \in Queries \ {typed} : typed' = q /\ Start(Searching(q))

\* A wrong move_up: the index is decremented at the top of the list, too.
MoveUpWraps ==
  /\ open
  /\ sel' = sel - 1
  /\ UNCHANGED <<vars, open, typed, items, work, inbox>>

MoveUp ==
  /\ open /\ "Up" \in Keys
  /\ sel' = IF sel > 1 THEN sel - 1 ELSE sel
  /\ UNCHANGED <<vars, open, typed, items, work, inbox>>

\* A wrong move_down: at the end of the list the index is that of the last row,
\* of which there may be none.
MoveDownClamps ==
  /\ open /\ "Down" \in Keys
  /\ sel' = IF sel < Len(items) THEN sel + 1 ELSE Len(items)
  /\ UNCHANGED <<vars, open, typed, items, work, inbox>>

MoveDown ==
  /\ open /\ "Down" \in Keys
  /\ sel' = IF sel < Len(items) THEN sel + 1 ELSE sel
  /\ UNCHANGED <<vars, open, typed, items, work, inbox>>

\* A row is clicked (or reached with the list's own keys).
SelectRow ==
  /\ open /\ "click" \in Keys
  /\ \E n \in DOMAIN items : sel' = n
  /\ UNCHANGED <<vars, open, typed, items, work, inbox>>

\* The keys that act on the selected row (a double click is a click and Return);
\* with none they do nothing.
Press(key, RequestOf(_)) ==
  key \in Keys /\ sel \in DOMAIN items /\ Start(RequestOf(items[sel])) /\ UNCHANGED typed

Restoring(id, plain) == [op |-> "restore", id |-> id, paste |-> TRUE, plain |-> plain]

RestoreSelected ==
  \/ Press("Return", LAMBDA item : Restoring(item.id, FALSE))
  \/ Press("Shift+Return", LAMBDA item : Restoring(item.id, TRUE))

DeleteSelected == Press("Delete", LAMBDA item : [op |-> "delete", id |-> item.id])

TogglePin ==
  Press("Ctrl+P", LAMBDA item : [op |-> "pin", id |-> item.id, value |-> ~item.pinned])

ToggleFavorite ==
  Press("Ctrl+F", LAMBDA item : [op |-> "favorite", id |-> item.id, value |-> ~item.favorite])

-----------------------------------------------------------------------------
(***************************************************************************)
(* The threads.                                                            *)
(***************************************************************************)
\* The request in progress on c has come to the end x: a capture's is ignored,
\* another's is sent to the window.
Finish(c, x) ==
  /\ work' = [work EXCEPT ![c] = Tail(@)]
  /\ inbox' = IF Len(work[c]) = 1 THEN Append(inbox, [req |-> Head(work[c]), res |-> x]) ELSE inbox
  /\ UNCHANGED <<store, open, typed, items, sel>>

\* IpcClient::request up to its write.
SendRequest(c) ==
  /\ c \in Busy
  /\ Invoke(c)
  /\ call'[c] = Pending(Head(work[c]))
  /\ UNCHANGED window

\* Nobody listens on the socket.
Refused(c) == ~Reliable /\ c \in Busy /\ call[c] = Idle /\ Finish(c, Lost) /\ UNCHANGED call

\* The response is read.
Respond(c) ==
  /\ c \in Busy
  /\ call[c].st = "done"
  /\ call' = [call EXCEPT ![c] = Idle]
  /\ Finish(c, call[c].res)

\* The connection is closed without a response, or before it is read.
Disconnect(c) ==
  /\ ~Reliable
  /\ c \in Busy
  /\ call[c] # Idle
  /\ call' = [call EXCEPT ![c] = Idle]
  /\ Finish(c, Lost)

\* The daemon's part.
Served(c) == Serve(c) /\ (Reliable => call'[c] # Done(Err("Storage"))) /\ UNCHANGED window

\* The end of a connection whose window is gone: the response is discarded, or
\* the daemon has died before.
Discard(c) ==
  /\ c \notin Busy
  /\ call[c].st = "done" \/ (~Reliable /\ call[c] # Idle)
  /\ call' = [call EXCEPT ![c] = Idle]
  /\ UNCHANGED <<store, window>>

-----------------------------------------------------------------------------
(***************************************************************************)
(* The receiver, a timer on the window's thread: one action per UiMessage. *)
(* An error only changes the status line, but for a search: it empties the *)
(* list, too.                                                              *)
(***************************************************************************)
\* The oldest message, of a request of kind op with a result like R, is read.
Read(op, R(_)) ==
  /\ open
  /\ inbox # << >>
  /\ Head(inbox).req.op = op
  /\ R(Head(inbox).res)
  /\ inbox' = Tail(inbox)
  /\ UNCHANGED vars

Failed(x) == x.type \in {"Err", "Lost"}

Succeeded(x) == ~Failed(x)

\* The list is s, row n is selected.
Show(s, n) == items' = s /\ sel' = n /\ UNCHANGED <<open, typed, work>>

SearchFinished == Read("search", Succeeded) /\ Show(Head(inbox).res.items, 1)

SearchFailed == Read("search", Failed) /\ Show(<< >>, 1)

\* A wrong receiver: it may leave the window open when the restore is done.
RestoreStays ==
  Read("restore", Succeeded) /\ Show(items, sel)

\* The window closes, whether the paste key was delivered or not.
RestoreFinished ==
  /\ open /\ inbox # << >>
  /\ Head(inbox).req.op = "restore" /\ Succeeded(Head(inbox).res)
  /\ Closes
  /\ UNCHANGED vars

\* The list without its row n.
Without(n) == SubSeq(items, 1, n - 1) \o SubSeq(items, n + 1, Len(items))

\* A wrong remove_by_id: the selection is left where it was.
RemoveKeepsIndex(id) ==
  \E n \in DOMAIN items : items[n].id = id /\ Show(Without(n), sel)

\* remove_by_id: the row goes, and a selection past the end moves to the last
\* row. A list names an id once.
RemoveById(id) ==
  \/ (\A n \in DOMAIN items : items[n].id # id) /\ Show(items, sel)
  \/ \E n \in DOMAIN items :
       /\ items[n].id = id
       /\ Show(Without(n), IF sel < Len(items) \/ sel = 1 THEN sel ELSE Len(items) - 1)

DeleteFinished == Read("delete", Succeeded) /\ RemoveById(Head(inbox).req.id)

\* set_pin_by_id, set_favorite_by_id.
SetById(id, Marked(_)) ==
  Show([n \in DOMAIN items |-> IF items[n].id = id THEN Marked(items[n]) ELSE items[n]], sel)

PinFinished ==
  LET r == Head(inbox).req
  IN  Read("pin", Succeeded) /\ SetById(r.id, LAMBDA i : [i EXCEPT !.pinned = r.value])

FavoriteFinished ==
  LET r == Head(inbox).req
  IN  Read("favorite", Succeeded) /\ SetById(r.id, LAMBDA i : [i EXCEPT !.favorite = r.value])

ActionFailed ==
  \E op \in {"restore", "delete", "pin", "favorite"} : Read(op, Failed) /\ Show(items, sel)

-----------------------------------------------------------------------------
User ==
  \/ Open \/ Close \/ Type \/ MoveUp \/ MoveDown \/ SelectRow
  \/ RestoreSelected \/ DeleteSelected \/ TogglePin \/ ToggleFavorite

Thread(c) == SendRequest(c) \/ Refused(c) \/ Respond(c) \/ Disconnect(c) \/ Discard(c)

Receiver ==
  \/ SearchFinished \/ SearchFailed \/ RestoreFinished
  \/ DeleteFinished \/ PinFinished \/ FavoriteFinished \/ ActionFailed

PickerNext ==
  \/ User \/ Receiver
  \/ \E c \in Conns : Thread(c) \/ Served(c)

PickerSpec == PickerInit /\ [][PickerNext]_pvars

(***************************************************************************)
(* Threads run, the receiver's timer ticks, and the daemon answers         *)
(* (Daemon!Answered). What the user does is up to the user.                *)
(***************************************************************************)
PickerFairness ==
  /\ WF_pvars(Receiver)
  /\ \A c \in Conns : WF_pvars(Thread(c)) /\ WF_pvars(Served(c))

FairPickerSpec == PickerSpec /\ PickerFairness

-----------------------------------------------------------------------------
(***************************************************************************)
(* Properties.                                                             *)
(***************************************************************************)
\* The selection is always a row of the list, if there is one, although rows
\* go and lists come while the user moves it: Enter never acts on nothing while
\* rows are shown.
SelectionShown == items # << >> => sel \in DOMAIN items

\* A picker never asks for an item the history does not have, however old its
\* list is: its requests are never answered with NotFound.
NeverNotFound == \A c \in Conns : call[c] # Done(Err("NotFound"))

(***************************************************************************)
(* Why no request meets an unknown item: rows are never removed, and every *)
(* id on its way from a listing to a request names one.                    *)
(***************************************************************************)
KnownRequest(r) == r.op \in {"restore", "delete", "pin", "favorite"} => Stored(r.id)

KnownResponse(x) ==
  /\ x # Err("NotFound")
  /\ x.type = "Items" => \A n \in DOMAIN x.items : Stored(x.items[n].id)

CallKnown(c) ==
  /\ call[c].st = "pending" => KnownRequest(call[c].req)
  /\ call[c].st = "done" => KnownResponse(call[c].res)

CallsKnown == \A c \in Conns : CallKnown(c)

ListKnown == \A n \in DOMAIN items : Stored(items[n].id)

WorkKnown == \A c \in Conns : \A n \in DOMAIN work[c] : KnownRequest(work[c][n])

\* A search is answered with a listing or an error.
Fits(r, x) == r.op = "search" => x.type \in {"Items", "Err", "Lost"}

\* The request in progress of a thread is the first it has still to make.
ThreadsFit ==
  \A c \in Busy :
    /\ call[c].st = "pending" => call[c].req = Head(work[c])
    /\ call[c].st = "done" => Fits(Head(work[c]), call[c].res)

InboxKnown ==
  \A n \in DOMAIN inbox : KnownResponse(inbox[n].res) /\ Fits(inbox[n].req, inbox[n].res)

\* The inductive invariant of the picker: the two properties above, with what
\* the list, the threads, the channel and the calls know.
PickerInv ==
  /\ StoreInv /\ PickerTypeOK /\ SelectionShown
  /\ CallsKnown /\ ListKnown /\ WorkKnown /\ ThreadsFit /\ InboxKnown

\* Enter ends: a restore that was started closes the picker when it is done,
\* or its error is reported.
RestoreEnds ==
  \A c \in Conns :
    open /\ work[c] # << >> /\ work[c][1].op = "restore" ~>
      \/ ~open
      \/ \E n \in DOMAIN inbox : inbox[n].req.op = "restore" /\ Failed(inbox[n].res)

\* Nothing is under way: no thread runs and every message was read.
Quiet == open /\ Busy = {} /\ inbox = << >>

\* Typing filters the history: when nothing is under way any more, the list
\* shows only what matches the text of the entry.
Filtered ==
  Quiet => \A n \in DOMAIN items : Matches(typed, rows[items[n].id].payload)
=============================================================================
