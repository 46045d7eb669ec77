------------------------------- MODULE MCDaemon ------------------------------
(***************************************************************************)
(* Daemon with programs that offer a marked-up text m (which a capture     *)
(* cleans to t), the HTML h or the image g. In every instance the programs *)
(* are chosen so that captures, torn between two of them or not, can only  *)
(* store as many contents as there are ids.                                *)
(***************************************************************************)
EXTENDS Daemon, TLC

CONSTANTS t, m, g, h, i1, i2, c1, c2

MCTexts   == {t, m}
MCCleaned == [x \in MCTexts |-> t]
MCQueries == {""}
MCHits    == [q \in MCQueries |-> MCTexts]
NoData    == {}

OneId     == {i1}
TwoIds    == {i1, i2}
OneConn   == {c1}
TwoConns  == {c1, c2}

Program(text, html, png, hung) ==
  [owner |-> "app", data |-> [text |-> text, html |-> html, png |-> png], hung |-> hung]

Restoring(ids) == [op : {"restore"}, id : ids, paste : {TRUE}, plain : BOOLEAN]

(***************************************************************************)
(* Interleavings: two connections and the requests that meet each other in *)
(* the middle, on the contents "t" and "h alone".                          *)
(***************************************************************************)
Html        == {h}
HtmlAtStart == {Program(m, h, None, FALSE), Nobody}
HtmlOutside ==
  {Program(m, h, None, FALSE), Program(None, h, None, FALSE), Program(None, h, None, TRUE), Nobody}

DeletingRequests ==
  [op : {"capture"}] \cup [op : {"search"}, query : {""}]
    \cup Restoring(TwoIds) \cup [op : {"delete"}, id : TwoIds]

TwoSymmetry == Permutations(TwoIds) \cup Permutations(TwoConns)

(***************************************************************************)
(* Every request of the protocol and liveness: two connections, the        *)
(* content "g alone", no symmetry.                                         *)
(***************************************************************************)
Image        == {g}
ImageAtStart == {Program(None, None, g, FALSE)}
ImageOutside == {Program(None, None, g, FALSE), Program(None, None, g, TRUE)}

EveryRequest ==
  [op : {"capture", "malformed"}]
    \cup [op : {"search"}, query : {""}]
    \cup [op : {"restore"}, id : Ids, paste : BOOLEAN, plain : BOOLEAN]
    \cup [op : {"delete"}, id : Ids]
    \cup [op : {"pin", "favorite"}, id : Ids, value : BOOLEAN]

(***************************************************************************)
(* One capture of a text with an image, whose owner stops answering.       *)
(***************************************************************************)
MixedAtStart == {Program(m, None, g, FALSE)}
MixedOutside == {Program(m, None, g, FALSE), Program(m, None, g, TRUE)}
CaptureOnly  == [op : {"capture"}]
=============================================================================
