------------------------------ MODULE ClipTypes ------------------------------
(***************************************************************************)
(* The vocabulary of rcopy: clipboard payloads (crates/core/src/item.rs),  *)
(* the one representation a restore puts back on the X11 selection         *)
(* (crates/integration/src/clipboard.rs), and the requests and responses   *)
(* of the Unix-socket protocol (crates/daemon/src/ipc.rs, whose client     *)
(* half is crates/picker/src/ipc_client.rs).                               *)
(*                                                                         *)
(* Texts, HTML documents and images are opaque values; what the code does  *)
(* to a text (strip an HTML document down to its words) is the function    *)
(* Cleaned.                                                                *)
(***************************************************************************)
EXTENDS Integers, FiniteSets, Sequences

CONSTANTS
  Ids,       \* Item identifiers, Uuid::new_v4().
  Texts,     \* Plain texts.
  Htmls,     \* HTML texts.
  Pngs,      \* PNG images.
  None,      \* The Option::None of a payload field.
  Cleaned,   \* Cleaned[t]: what normalize_plain_text makes of t.
  Queries,   \* Search strings, trimmed and in lower case.
  NoQuery,   \* The empty search string.
  Hits       \* Hits[q]: the texts and HTML texts that contain q.

ASSUME TypesAssumption ==
  /\ IsFiniteSet(Ids)
  /\ None \notin Texts \cup Htmls \cup Pngs
  /\ Cleaned \in [Texts -> Texts]
  /\ NoQuery \in Queries
  /\ Hits \in [Queries -> SUBSET (Texts \cup Htmls)]

(***************************************************************************)
(* Payloads.                                                               *)
(***************************************************************************)
Kinds == {"text", "html", "png"}

Payload == [text : Texts \cup {None}, html : Htmls \cup {None}, png : Pngs \cup {None}]

Blank == [text |-> None, html |-> None, png |-> None]

\* ClipboardPayload::is_empty: no representation at all. A text that is the
\* empty string is a representation.
IsEmpty(p) == p.text = None /\ p.html = None /\ p.png = None

\* What rank_items looks the needle up in: the text and the HTML, never the
\* image.
Matches(q, p) == q = NoQuery \/ p.text \in Hits[q] \/ p.html \in Hits[q]

(***************************************************************************)
(* select_single_write_mime: xclip advertises one type per invocation, so  *)
(* a restore writes one representation: the image, else the (cleaned)      *)
(* text, else the HTML. Blank when there is nothing to write.              *)
(***************************************************************************)
WriteMime(p) ==
  CASE p.png # None                   -> [Blank EXCEPT !.png = p.png]
    [] p.png = None /\ p.text # None  -> [Blank EXCEPT !.text = Cleaned[p.text]]
    [] p.png = None /\ p.text = None  -> [Blank EXCEPT !.html = p.html]

(***************************************************************************)
(* IpcRequest. "malformed" stands for a line that is not a request: other  *)
(* JSON, a torn line, bytes that are not UTF-8, or the empty line of a     *)
(* client that left.                                                       *)
(***************************************************************************)
Request ==
       [op : {"capture", "malformed"}]
  \cup [op : {"search"}, query : Queries]
  \cup [op : {"restore"}, id : Ids, paste : BOOLEAN, plain : BOOLEAN]
  \cup [op : {"delete"}, id : Ids]
  \cup [op : {"pin", "favorite"}, id : Ids, value : BOOLEAN]

(***************************************************************************)
(* IpcResponse: Ok with the value of the operation, or Err with a message. *)
(* Of a listed item the client needs the id and the two flags.             *)
(***************************************************************************)
Item == [id : Ids, pinned : BOOLEAN, favorite : BOOLEAN]

Errors == {"NotFound", "PlainTextUnavailable", "Clipboard", "Storage", "Malformed"}

Response ==
       [type : {"Ok"}]
  \cup [type : {"Captured"}, captured : BOOLEAN]
  \cup [type : {"Items"}, items : Seq(Item)]
  \cup [type : {"Restored"}, attempted : BOOLEAN, succeeded : BOOLEAN]
  \cup [type : {"Err"}, error : Errors]

Ok           == [type |-> "Ok"]
Captured(b)  == [type |-> "Captured", captured |-> b]
Items(s)     == [type |-> "Items", items |-> s]
Restored(a, s) == [type |-> "Restored", attempted |-> a, succeeded |-> s]
Err(e)       == [type |-> "Err", error |-> e]
=============================================================================
