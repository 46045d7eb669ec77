------------------------------- MODULE HtmlText -------------------------------
(***************************************************************************)
(* What becomes of a text that is an HTML document: the words a capture    *)
(* stores and a restore writes (normalize_plain_text and what it calls,    *)
(* crates/integration/src/clipboard.rs) and the words the picker shows     *)
(* (plain_text_preview and its own copies of the same scans,               *)
(* crates/picker/src/ui.rs).                                               *)
(*                                                                         *)
(* A text is a sequence of the pieces these scans tell apart: the angle    *)
(* brackets, the two ends of a comment, white space, the ampersand, the    *)
(* names that make an entity of the ampersand before them, and words. The  *)
(* text grows by a piece in each step, so that TLC tries them all.         *)
(***************************************************************************)
EXTENDS SequencesExt

CONSTANTS
  Pieces,     \* The pieces texts go on with: words, and some of the marks.
  Heads,      \* What texts begin with.
  MaxPieces   \* Bound on the pieces after the head.

\* The pieces that the scans tell apart, or write.
Marks ==
  {"<", ">", "<!--", "-->", "--", " ", "&", "amp;", "lt;", "gt;", "nbsp;", "html", "StartFragment"}

Alphabet == Marks \cup Pieces

ASSUME HtmlAssumption == Heads \subseteq Seq(Alphabet) /\ MaxPieces \in Nat

VARIABLE doc   \* The text.

Init == doc \in Heads

Next ==
  /\ \E h \in Heads : IsPrefix(h, doc) /\ Len(doc) < Len(h) + MaxPieces
  /\ \E k \in Pieces : doc' = Append(doc, k)

Spec == Init /\ [][Next]_doc

-----------------------------------------------------------------------------
(***************************************************************************)
(* The scans. A scan goes over a text piece by piece and keeps where it is *)
(* in; its table says, for that and the next piece, what it is in next and *)
(* what it writes.                                                         *)
(***************************************************************************)
To(in, out) == [in |-> in, out |-> out]

Run(table, in, d) ==
  LET at[n \in 0 .. Len(d)] ==
        IF n = 0 THEN To(in, << >>)
        ELSE LET before == at[n - 1]
                 step   == table[before.in][d[n]]
             IN  To(step.in, before.out \o step.out)
  IN  at

Scan(table, in, d) == Run(table, in, d)[Len(d)]

\* strip_html_comments, in both crates: a comment that is not closed takes the
\* rest of the text with it.
Comments ==
  [in \in {"text", "comment"} |-> [k \in Alphabet |->
     CASE in = "text" /\ k = "<!--"   -> To("comment", << >>)
       [] in = "text" /\ k # "<!--"   -> To("text", <<k>>)
       [] in = "comment" /\ k = "-->" -> To("text", << >>)
       [] in = "comment" /\ k # "-->" -> To("comment", << >>)]]

StripComments(d) == Scan(Comments, "text", d).out

\* A wrong loop: it ends with the first tag.
StripFirstTag(d, end) ==
  LET a == SelectInSeq(d, LAMBDA k : k = "<")
      b == SelectInSeq(d, LAMBDA k : k = ">")
  IN  IF a = 0 \/ b < a THEN d ELSE SubSeq(d, 1, a - 1) \o end \o SubSeq(d, b + 1, Len(d))

\* The loop of strip_html_document and of the picker's strip_html_tags, which
\* differ in what they write for the end of a tag.
Tags(end) ==
  [in \in {"text", "tag"} |-> [k \in Alphabet |->
     CASE k \in {"<", "<!--"} -> To("tag", << >>)
       [] k = ">"             -> To("text", end)
       [] k = "-->"           -> To("text", IF in = "tag" THEN end ELSE <<"--">> \o end)
       [] OTHER               -> To(in, IF in = "tag" THEN << >> ELSE <<k>>)]]

StripTags(d, end) == Scan(Tags(end), "text", d).out

\* str::replace of the entity name by the piece k: an ampersand is held back
\* until it is known what follows it, a replaced one is not looked at again.
Names(name, k) ==
  [in \in {"text", "amp"} |-> [x \in Alphabet |->
     CASE in = "text" /\ x = "&"              -> To("amp", << >>)
       [] in = "text" /\ x # "&"              -> To("text", <<x>>)
       [] in = "amp" /\ x = name              -> To("text", <<k>>)
       [] in = "amp" /\ x = "&"               -> To("amp", <<"&">>)
       [] in = "amp" /\ x \notin {name, "&"}  -> To("text", <<"&", x>>)]]

Replace(d, name, k) ==
  LET s == Scan(Names(name, k), "text", d) IN IF s.in = "amp" THEN Append(s.out, "&") ELSE s.out

\* A wrong order: the ampersand first.
DecodeAmpFirst(d) ==
  LET amp == Replace(d, "amp;", "&")
      lt  == Replace(amp, "lt;", "<")
      gt  == Replace(lt, "gt;", ">")
  IN  Replace(gt, "nbsp;", " ")

\* decode_basic_html_entities; &quot; and &#39; are as &lt;.
Decode(d) ==
  LET nbsp == Replace(d, "nbsp;", " ")
      lt   == Replace(nbsp, "lt;", "<")
      gt   == Replace(lt, "gt;", ">")
  IN  Replace(gt, "amp;", "&")

\* split_whitespace and join: one space between words, none around them.
Spaces ==
  [in \in {"start", "word", "gap"} |-> [k \in Alphabet |->
     CASE k = " " /\ in = "start" -> To("start", << >>)
       [] k = " " /\ in # "start" -> To("gap", << >>)
       [] k # " " /\ in # "gap"   -> To("word", <<k>>)
       [] k # " " /\ in = "gap"   -> To("word", <<" ", k>>)]]

Squeeze(d) == Scan(Spaces, "start", d).out

-----------------------------------------------------------------------------
\* A text has d at position n.
At(d, n, s) == n + Len(s) - 1 <= Len(d) /\ SubSeq(d, n, n + Len(s) - 1) = s

\* looks_like_html_document, in both crates; <!doctype html is as <html.
LooksHtml(d) ==
  \/ \E n \in DOMAIN d : At(d, n, <<"<", "html">>) /\ \A m \in 1 .. n - 1 : d[m] = " "
  \/ \E n \in DOMAIN d : At(d, n, <<"<!--", "StartFragment", "-->">>)

\* A wrong strip: the tags before the comments.
StripTagsFirst(d) == Squeeze(Decode(StripComments(StripTags(d, <<" ">>))))

\* strip_html_document.
Strip(d) == Squeeze(Decode(StripTags(StripComments(d), <<" ">>)))

\* normalize_plain_text: a document of which nothing is left is kept as it is.
Clean(d) == IF LooksHtml(d) /\ Strip(d) # << >> THEN Strip(d) ELSE d

\* A preview that has missed the comments.
PreviewComments(d) == IF LooksHtml(d) THEN StripTags(d, << >>) ELSE d

\* plain_text_preview, before condense_text.
Preview(d) == IF LooksHtml(d) THEN StripTags(StripComments(d), << >>) ELSE d

-----------------------------------------------------------------------------
(***************************************************************************)
(* Properties.                                                             *)
(***************************************************************************)
\* What is written piece by piece.
Each(of, d) == Scan([in \in {"text"} |-> [k \in Alphabet |-> To("text", of[k])]], "text", d).out

Encode(d) ==
  Each([k \in Alphabet |-> CASE k = "&" -> <<"&", "amp;">>
                           [] k = "<" -> <<"&", "lt;">>
                           [] k = ">" -> <<"&", "gt;">>
                           [] OTHER   -> <<k>>], d)

Brackets == {"<!--", "-->"}

\* Entities are decoded once: a text escaped the way HTML escapes it comes back
\* as it was, even where it spells an entity (the order of the replacements in
\* decode_basic_html_entities).
DecodesOnce == Brackets \cap ToSet(doc) = {} => Decode(Encode(doc)) = doc

\* What is written to the clipboard is what was stored: a capture cleans a
\* text, the restore cleans the stored text again, and finds nothing to clean,
\* unless entities of the document had spelled markup.
RestoredIsStored == "&" \notin ToSet(doc) => Clean(Clean(doc)) = Clean(doc)

\* The words of a text, one after the other.
Words(d) == Each([k \in Alphabet |-> IF k = " " THEN << >> ELSE <<k>>], d)

\* The picker shows the words that a restore pastes, for all that its scans are
\* a second copy that spaces them differently and knows no entities.
ShownIsPasted ==
  "&" \notin ToSet(doc) /\ (LooksHtml(doc) => Strip(doc) # << >>) =>
    Words(Preview(doc)) = Words(Clean(doc))

\* One pass over a text that knows tags and comments, where a comment may hold
\* tags, and a tag parts words; it gives up where they are not well-formed.
Places ==
  [in \in {"text", "tag", "comment", "broken"} |-> [k \in Alphabet |->
     CASE in = "text" /\ k = "<"                          -> To("tag", << >>)
       [] in = "text" /\ k = "<!--"                       -> To("comment", << >>)
       [] in = "text" /\ k \notin {"<", ">"} \cup Brackets -> To("text", <<k>>)
       [] in = "tag" /\ k = ">"                           -> To("text", <<" ">>)
       [] in = "tag" /\ k \notin {"<", ">"} \cup Brackets  -> To("tag", << >>)
       [] in = "comment" /\ k = "-->"                     -> To("text", << >>)
       [] in = "comment" /\ k # "-->"                     -> To("comment", << >>)
       [] OTHER                                           -> To("broken", << >>)]]

WellFormed(d) == Scan(Places, "text", d).in = "text"

Content(d) == Scan(Places, "text", d).out

\* The text of a well-formed document is kept: what that one pass finds in no
\* tag and in no comment.
WordsKept == WellFormed(doc) => Strip(doc) = Squeeze(Decode(Content(doc)))
=============================================================================
