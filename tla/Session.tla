-------------------------------- MODULE Session -------------------------------
(***************************************************************************)
(* The whole session: the picker's window and threads (module Picker) on   *)
(* the daemon that really serves them (module Daemon), with the selection  *)
(* and the keyboard focus the two share with the other programs.           *)
(*                                                                         *)
(* A step of a connection is one of both modules: the request a thread     *)
(* writes is the one the daemon accepts, the response it reads is the one  *)
(* the daemon writes. When the daemon dies, every open connection is cut   *)
(* at once, and each thread notices when it runs. What a picker writes is  *)
(* UTF-8, so the daemon's ReadLineFails has no part here.                  *)
(***************************************************************************)
EXTENDS Daemon

CONSTANTS MaxUnread, Keys, Reliable   \* As in Picker.

VARIABLES
  open, typed, items, sel, work, inbox,   \* As in Picker.
  cut,       \* cut[c]: what had become of the call on c when the daemon died.
  focus,     \* Where keys go: to the picker, or to the program used before.
  given,     \* History: the items written to the selection since the window opened.
  kept       \* History: nobody has taken the selection since the last of these writes.

window == <<open, typed, items, sel, work, inbox>>

svars == <<vars, window, cut, focus, given, kept>>

Uncut == [st |-> "idle"]

\* The calls as the picker's threads know them.
Calls == [c \in Conns |-> IF cut[c] # Uncut THEN cut[c] ELSE AbsCall[c]]

P == INSTANCE Picker WITH call <- Calls

\* The constants are those of a picker.
ASSUME SessionAssumption == P!PickerAssumption

SessionInit ==
  /\ Init
  /\ P!Closed
  /\ cut = [c \in Conns |-> Uncut]
  /\ focus = "app"
  /\ given = {}
  /\ kept = FALSE

SessionTypeOK ==
  /\ TypeOK
  /\ P!PickerTypeOK
  /\ focus \in {"app", "picker"}
  /\ given \subseteq Ids
  /\ kept \in BOOLEAN

-----------------------------------------------------------------------------
\* The user opens or closes the window, or presses one of its keys; a new
\* window takes the focus, and gives it back when it closes.
User ==
  /\ UNCHANGED <<vars, cut>>
  /\ P!User
  /\ focus' = IF open' = open THEN focus ELSE IF open' THEN "picker" ELSE "app"
  /\ IF open' /\ ~open THEN given' = {} /\ kept' = FALSE ELSE UNCHANGED <<given, kept>>

\* The user turns to another window and back.
Switch ==
  /\ open
  /\ focus' = IF focus = "app" THEN "picker" ELSE "app"
  /\ UNCHANGED <<vars, window, cut, given, kept>>

\* The window reads a message.
Receive ==
  /\ UNCHANGED <<vars, cut, given, kept>>
  /\ P!Receiver
  /\ focus' = IF open' THEN focus ELSE "app"

Desktop == UNCHANGED <<window, cut, focus>>

\* A thread writes its request to the socket, or finds nobody there.
Ask(c) ==
  \/ Send(c) /\ UNCHANGED <<cut, focus, given, kept>> /\ P!SendRequest(c)
  \/ ~up /\ UNCHANGED <<vars, cut, focus, given, kept>> /\ P!Refused(c)

\* The daemon writes the response, to a thread that waits or to nobody.
Return(c) ==
  /\ Reply(c)
  /\ UNCHANGED <<cut, focus, given, kept>>
  /\ P!Respond(c) \/ P!Discard(c)

\* The daemon serves; a write gives the selection to the xclip of its item.
Work(c) ==
  /\ Accept(c) \/ Serve(c)
  /\ Desktop
  /\ IF pc[c] = "write" /\ pc'[c] = "mark"
     THEN given' = given \cup {req[c].id} /\ kept' = TRUE
     ELSE UNCHANGED <<given, kept>>

Others == TakeSelection /\ Desktop /\ kept' = FALSE /\ UNCHANGED given

\* The daemon dies with every connection.
Dies ==
  /\ ~Reliable
  /\ Crash
  /\ cut' = Calls
  /\ kept' = FALSE
  /\ UNCHANGED <<window, focus, given>>

Returns == Restart /\ Desktop /\ UNCHANGED <<given, kept>>

\* A thread, or nobody any more, sees the end of a connection that was cut.
Notice(c) ==
  /\ cut[c] # Uncut
  /\ cut' = [cut EXCEPT ![c] = Uncut]
  /\ UNCHANGED <<vars, focus, given, kept>>
  /\ P!Disconnect(c) \/ P!Discard(c)

SessionNext ==
  \/ User \/ Switch \/ Receive \/ Others \/ Dies \/ Returns
  \/ \E c \in Conns : Ask(c) \/ Work(c) \/ Return(c) \/ Notice(c)

SessionSpec == SessionInit /\ [][SessionNext]_svars

-----------------------------------------------------------------------------
(***************************************************************************)
(* Properties.                                                             *)
(***************************************************************************)
\* What is shown of the picker on a service that answers in one step holds on
\* the daemon that suspends, times out and dies: the session is a behaviour of
\* Picker.
PicksOnDaemon == P!PickerSpec

\* The window closes on the item: when a restore that is done closes it, that
\* item was written, and the selection holds it, unless another program has
\* taken it or another item was restored since the window opened.
ClosesOnItem ==
  [][Receive /\ open /\ ~open' =>
       LET r == Head(inbox).req
       IN  /\ r.id \in given
           /\ kept => clip.owner = "xclip"
           /\ kept /\ given = {r.id} => Represents(clip.data, rows[r.id].payload, FALSE)]_svars

\* Restore the item and attempt to paste it back into the previously focused
\* application: the paste key is not sent while the picker has the focus.
PastesIntoApp ==
  [][\A c \in Conns : pc[c] = "paste" /\ pc'[c] = "answer" => focus = "app"]_svars
=============================================================================
