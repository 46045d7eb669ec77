---------------------------- MODULE MCConversions -----------------------------
(***************************************************************************)
(* The two conversions a stored item goes through, which have nothing to   *)
(* do with each other: the text grows before the clock has moved, and the  *)
(* table is used while the text is empty.                                  *)
(*                                                                         *)
(* Texts of up to four pieces after a head: a comment around a tag's       *)
(* bracket, a document in a document, an escaped entity. Two rows and two  *)
(* seconds, in each of which every group of the fraction may be missing.   *)
(***************************************************************************)
EXTENDS HtmlText, Timestamps

CONSTANTS t, u, i1, i2

MCPieces == {"<", ">", "<!--", "-->", " ", "a", "&", "amp;", "lt;", "html"}
MCHeads  == {<< >>, <<"<", "html", ">">>, <<"<!--", "StartFragment", "-->">>}

MCIds     == {i1, i2}
MCTexts   == {t, u}
NoneOf    == {}
MCCleaned == [x \in MCTexts |-> x]
MCQueries == {""}
MCHits    == [q \in MCQueries |-> MCTexts]
MCTimes   == (1 .. 2) \X (0 .. 1) \X (0 .. 1) \X (0 .. 1)

First == <<1, 0, 0, 0>>

ConversionsInit == Init /\ TimesInit /\ (doc = << >> \/ clock = First)

ConversionsNext ==
  \/ Next /\ clock = First /\ UNCHANGED tvars
  \/ doc = << >> /\ TimesNext /\ UNCHANGED doc

ConversionsSpec == ConversionsInit /\ [][ConversionsNext]_<<doc, tvars>>
=============================================================================
