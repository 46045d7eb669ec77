--------------------------- MODULE ConversionsProofs --------------------------
(***************************************************************************)
(* The two conversions a stored item goes through, for texts of any length *)
(* and any number of rows and readings of the clock. What a scan computes  *)
(* is shown by induction over the text, in the first-order form that the   *)
(* provers can use: the set of texts for which a formula holds contains    *)
(* the empty one and, with a text, this text with one more piece, so it    *)
(* contains them all.                                                      *)
(***************************************************************************)
EXTENDS HtmlText, Timestamps, SequenceTheorems, FiniteSetTheorems, WellFoundedInduction, TLAPS

-----------------------------------------------------------------------------
(***************************************************************************)
(* Induction.                                                              *)
(***************************************************************************)
\* A set with zero and, with a number, the next one, has every number.
LEMMA SetInduction ==
  ASSUME NEW S, 0 \in S, \A n \in Nat : n \in S => n + 1 \in S
  PROVE  Nat \subseteq S
<1> DEFINE T == Nat \ S
<1> SUFFICES ASSUME T # {} PROVE FALSE
  OBVIOUS
<1>1. PICK x \in T : \A y \in T : ~ (<<y, x>> \in OpToRel(<, Nat))
  <2> HIDE DEF T
  <2>1. T \subseteq Nat
    BY DEF T
  <2>2. QED
    BY <2>1, NatLessThanWellFounded, WFMin, Zenon
<1>2. x # 0 /\ x \in Nat /\ x - 1 \in Nat /\ x - 1 \in T
  OBVIOUS
<1>3. <<x - 1, x>> \in OpToRel(<, Nat)
  BY <1>2 DEF OpToRel
<1>4. QED
  BY <1>1, <1>2, <1>3, Zenon

\* A set with the empty sequence and, with a sequence, this one with one more
\* element, has every sequence.
LEMMA TextInduction ==
  ASSUME NEW A, NEW S, << >> \in S,
         \A d \in Seq(A), k \in A : d \in S => Append(d, k) \in S
  PROVE  Seq(A) \subseteq S
<1> DEFINE T == {n \in Nat : \A d \in Seq(A) : Len(d) = n => d \in S}
<1>1. 0 \in T
  BY EmptySeq
<1>2. ASSUME NEW n \in Nat, n \in T
      PROVE  n + 1 \in T
  <2> SUFFICES ASSUME NEW d \in Seq(A), Len(d) = n + 1
               PROVE  d \in S
    OBVIOUS
  <2>1. d # << >>
    BY EmptySeq
  <2>2. PICK s \in Seq(A), k \in A : d = Append(s, k)
    BY <2>1, SequenceEmptyOrAppend
  <2>3. Len(s) = n
    BY <2>2, AppendProperties
  <2>4. QED
    BY <2>2, <2>3, <1>2
<1>3. Nat \subseteq T
  <2> HIDE DEF T
  <2>1. QED
    BY <1>1, <1>2, SetInduction
<1>4. QED
  BY <1>3, LenProperties

-----------------------------------------------------------------------------
(***************************************************************************)
(* Scans.                                                                  *)
(***************************************************************************)
\* The two parts of where a scan is.
LEMMA ToParts == \A in, out : To(in, out).in = in /\ To(in, out).out = out
BY DEF To

\* Where a scan is after a text, and what it has written.
Place(table, in, d) == Scan(table, in, d).in
Wrote(table, in, d) == Scan(table, in, d).out

\* What a table says of a piece: where it leads, and what to write.
Entry(table, in, k) == table[in][k]
Goes(table, in, k) == Entry(table, in, k).in
Puts(table, in, k) == Entry(table, in, k).out

\* One step of a scan that is at a and finds the piece k.
Move(table, a, k) == To(Goes(table, a.in, k), a.out \o Puts(table, a.in, k))

\* The equation by which a scan is defined, up to position m.
Upto(at, table, in, d, m) ==
  at = [n \in 0 .. m |-> IF n = 0 THEN To(in, << >>) ELSE Move(table, at[n - 1], d[n])]

\* Run is a function that satisfies it, if there is one.
LEMMA RunChosen ==
  ASSUME NEW table, NEW in, NEW d
  PROVE  Run(table, in, d) = CHOOSE at : Upto(at, table, in, d, Len(d))
BY DEF Run, Upto, Move, Goes, Puts, Entry, To

\* The equation has a solution.
LEMMA RunExists ==
  ASSUME NEW table, NEW in, NEW A, NEW d \in Seq(A)
  PROVE  \E at : Upto(at, table, in, d, Len(d))
<1> DEFINE T == {m \in Nat : \E at : Upto(at, table, in, d, m)}
<1>1. 0 \in T
  <2> DEFINE b == [n \in 0 .. 0 |-> To(in, << >>)]
  <2>1. Upto(b, table, in, d, 0)
    BY DEF Upto
  <2>2. QED
    BY <2>1
<1>2. ASSUME NEW m \in Nat, m \in T
      PROVE  m + 1 \in T
  <2>1. PICK at : Upto(at, table, in, d, m)
    BY <1>2
  <2> DEFINE b == [n \in 0 .. m + 1 |-> IF n = m + 1 THEN Move(table, at[m], d[m + 1]) ELSE at[n]]
  <2>2. ASSUME NEW n \in 0 .. m + 1
        PROVE  b[n] = IF n = 0 THEN To(in, << >>) ELSE Move(table, b[n - 1], d[n])
    <3>1. CASE n = m + 1
      <4>1. b[n - 1] = at[m]
        BY <3>1
      <4>2. QED
        BY <3>1, <4>1
    <3>2. CASE n # m + 1 /\ n # 0
      <4>1. b[n - 1] = at[n - 1] /\ b[n] = at[n] /\ n \in 0 .. m
        BY <3>2
      <4>2. at[n] = Move(table, at[n - 1], d[n])
        BY <2>1, <3>2, <4>1 DEF Upto
      <4>3. QED
        BY <3>2, <4>1, <4>2
    <3>3. CASE n = 0
      <4>1. b[n] = at[0] /\ at[0] = To(in, << >>)
        BY <2>1, <3>3 DEF Upto
      <4>2. QED
        BY <3>3, <4>1
    <3>4. QED
      BY <3>1, <3>2, <3>3
  <2>3. b = [n \in 0 .. m + 1 |-> b[n]]
    OBVIOUS
  <2>4. Upto(b, table, in, d, m + 1)
    <3> HIDE DEF b
    <3>1. QED
      BY <2>2, <2>3 DEF Upto
  <2>5. QED
    <3> HIDE DEF b
    <3>1. QED
      BY <2>4
<1>3. QED
  <2> HIDE DEF T
  <2>1. Len(d) \in T
    BY <1>1, <1>2, SetInduction, LenProperties
  <2>2. QED
    BY <2>1 DEF T

\* So a scan is what its equation says, position by position.
LEMMA RunEquation ==
  ASSUME NEW table, NEW in, NEW A, NEW d \in Seq(A)
  PROVE  /\ Run(table, in, d)[0] = To(in, << >>)
         /\ \A n \in DOMAIN d : Run(table, in, d)[n] = Move(table, Run(table, in, d)[n - 1], d[n])
<1> DEFINE r == Run(table, in, d)
<1>1. Upto(r, table, in, d, Len(d))
  BY RunChosen, RunExists, Zenon
<1> HIDE DEF r
<1>2. r = [n \in 0 .. Len(d) |-> IF n = 0 THEN To(in, << >>) ELSE Move(table, r[n - 1], d[n])]
  BY <1>1 DEF Upto
<1>3. Len(d) \in Nat /\ DOMAIN d = 1 .. Len(d)
  BY LenProperties
<1>4. r[0] = To(in, << >>)
  BY <1>2, <1>3
<1>5. ASSUME NEW n \in DOMAIN d
      PROVE  r[n] = Move(table, r[n - 1], d[n])
  BY <1>2, <1>3
<1>6. QED
  BY <1>4, <1>5 DEF r

\* A scan of the empty text writes nothing.
LEMMA ScanEmpty ==
  ASSUME NEW table, NEW in
  PROVE  Place(table, in, << >>) = in /\ Wrote(table, in, << >>) = << >>
<1>1. << >> \in Seq({}) /\ Len(<< >>) = 0
  BY EmptySeq
<1>2. Scan(table, in, << >>) = To(in, << >>)
  BY <1>1, RunEquation DEF Scan
<1>3. QED
  BY <1>2, ToParts DEF Place, Wrote

\* A scan of a longer text goes on where the scan of the shorter one is.
LEMMA ScanAppend ==
  ASSUME NEW table, NEW in, NEW A, NEW d \in Seq(A), NEW k \in A
  PROVE  /\ Place(table, in, Append(d, k)) = Goes(table, Place(table, in, d), k)
         /\ Wrote(table, in, Append(d, k)) = Wrote(table, in, d) \o Puts(table, Place(table, in, d), k)
<1> DEFINE e == Append(d, k)
           r == Run(table, in, d)
           s == Run(table, in, e)
           T == {n \in Nat : n <= Len(d) => s[n] = r[n]}
<1>1. /\ e \in Seq(A) /\ Len(e) = Len(d) + 1 /\ Len(d) \in Nat
      /\ e[Len(d) + 1] = k
      /\ \A n \in 1 .. Len(d) : e[n] = d[n]
      /\ DOMAIN d = 1 .. Len(d) /\ DOMAIN e = 1 .. Len(d) + 1
  BY AppendProperties, LenProperties
<1> HIDE DEF e
<1>2. r[0] = To(in, << >>) /\ \A n \in 1 .. Len(d) : r[n] = Move(table, r[n - 1], d[n])
  BY <1>1, RunEquation
<1>3. s[0] = To(in, << >>) /\ \A n \in 1 .. Len(d) + 1 : s[n] = Move(table, s[n - 1], e[n])
  BY <1>1, RunEquation
<1> HIDE DEF r, s
<1>4. 0 \in T
  BY <1>2, <1>3
<1>5. ASSUME NEW n \in Nat, n \in T
      PROVE  n + 1 \in T
  <2> SUFFICES ASSUME n + 1 <= Len(d)
               PROVE  s[n + 1] = r[n + 1]
    OBVIOUS
  <2>1. n + 1 \in 1 .. Len(d) /\ n + 1 \in 1 .. Len(d) + 1 /\ (n + 1) - 1 = n /\ s[n] = r[n]
    BY <1>1, <1>5
  <2>2. r[n + 1] = Move(table, r[n], d[n + 1]) /\ s[n + 1] = Move(table, s[n], d[n + 1])
    BY <1>1, <1>2, <1>3, <2>1
  <2>3. QED
    BY <2>1, <2>2
<1>6. s[Len(d)] = r[Len(d)]
  <2>1. Nat \subseteq T
    <3> HIDE DEF T
    <3>1. QED
      BY <1>4, <1>5, SetInduction
  <2>2. QED
    BY <1>1, <2>1
<1>7. Len(d) + 1 \in 1 .. Len(d) + 1 /\ (Len(d) + 1) - 1 = Len(d)
  BY <1>1
<1>8. s[Len(d) + 1] = Move(table, s[Len(d)], k)
  BY <1>1, <1>3, <1>7
<1>9. s[Len(e)] = To(Goes(table, Place(table, in, d), k),
                     Wrote(table, in, d) \o Puts(table, Place(table, in, d), k))
  <2>1. r[Len(d)].in = Place(table, in, d) /\ r[Len(d)].out = Wrote(table, in, d)
    BY DEF Place, Wrote, Scan, r
  <2>2. QED
    BY <1>1, <1>6, <1>8, <2>1 DEF Move
<1>10. Place(table, in, e) = s[Len(e)].in /\ Wrote(table, in, e) = s[Len(e)].out
  BY DEF Place, Wrote, Scan, s
<1>11. Place(table, in, e) = Goes(table, Place(table, in, d), k)
  BY <1>9, <1>10, ToParts
<1>12. Wrote(table, in, e) = Wrote(table, in, d) \o Puts(table, Place(table, in, d), k)
  <2> DEFINE w == Wrote(table, in, d) \o Puts(table, Place(table, in, d), k)
  <2> HIDE DEF w
  <2>1. s[Len(e)] = To(Goes(table, Place(table, in, d), k), w)
    BY <1>9 DEF w
  <2>2. Wrote(table, in, e) = w
    BY <1>10, <2>1, ToParts
  <2>3. QED
    BY <2>2 DEF w
<1>13. QED
  BY <1>11, <1>12 DEF e

\* Where a scan can be and what it can write is what its table says.
LEMMA ScanType ==
  ASSUME NEW A, NEW B, NEW S, NEW table, NEW in \in S, NEW d \in Seq(A),
         \A q \in S, k \in A : Goes(table, q, k) \in S /\ Puts(table, q, k) \in Seq(B)
  PROVE  Place(table, in, d) \in S /\ Wrote(table, in, d) \in Seq(B)
<1> DEFINE Typed(x) == Place(table, in, x) \in S /\ Wrote(table, in, x) \in Seq(B)
           T == {x \in Seq(A) : Typed(x)}
<1>1. Typed(<< >>)
  BY ScanEmpty, EmptySeq
<1>2. ASSUME NEW x \in Seq(A), NEW k \in A, Typed(x)
      PROVE  Typed(Append(x, k))
  <2> DEFINE q == Place(table, in, x)
  <2>1. Place(table, in, Append(x, k)) = Goes(table, q, k)
    BY ScanAppend
  <2>2. Wrote(table, in, Append(x, k)) = Wrote(table, in, x) \o Puts(table, q, k)
    BY ScanAppend
  <2>3. Goes(table, q, k) \in S /\ Puts(table, q, k) \in Seq(B) /\ Wrote(table, in, x) \in Seq(B)
    BY <1>2
  <2>4. QED
    BY <2>1, <2>2, <2>3, ConcatProperties
<1>3. d \in T
  <2> HIDE DEF Typed
  <2>1. << >> \in T
    BY <1>1
  <2>2. \A x \in Seq(A), k \in A : x \in T => Append(x, k) \in T
    BY <1>2, AppendProperties
  <2> HIDE DEF T
  <2>3. QED
    BY <2>1, <2>2, TextInduction
<1>4. QED
  BY <1>3

-----------------------------------------------------------------------------
(***************************************************************************)
(* What is written piece by piece.                                         *)
(***************************************************************************)
\* The table by which each piece is written as what it stands for.
EachTable(of) == [in \in {"text"} |-> [k \in Alphabet |-> To("text", of[k])]]

\* A piece after the others writes what it stands for after what they do.
LEMMA EachAppend ==
  ASSUME NEW B, NEW of \in [Alphabet -> Seq(B)], NEW d \in Seq(Alphabet)
  PROVE  /\ Each(of, d) \in Seq(B)
         /\ Each(of, << >>) = << >>
         /\ \A k \in Alphabet : Each(of, Append(d, k)) = Each(of, d) \o of[k]
<1> DEFINE t == EachTable(of)
<1>1. \A x : Each(of, x) = Wrote(t, "text", x)
  BY DEF Each, EachTable, Wrote
<1>2. ASSUME NEW k \in Alphabet
      PROVE  Goes(t, "text", k) = "text" /\ Puts(t, "text", k) = of[k]
  <2>1. Entry(t, "text", k) = To("text", of[k])
    BY DEF EachTable, Entry
  <2>2. QED
    BY <2>1, ToParts DEF Goes, Puts
<1> HIDE DEF t
<1>3. Place(t, "text", d) \in {"text"} /\ Wrote(t, "text", d) \in Seq(B)
  <2> DEFINE S == {"text"}
  <2>1. \A q \in S, k \in Alphabet : Goes(t, q, k) \in S /\ Puts(t, q, k) \in Seq(B)
    BY <1>2
  <2>2. "text" \in S
    OBVIOUS
  <2> HIDE DEF S
  <2>3. Place(t, "text", d) \in S /\ Wrote(t, "text", d) \in Seq(B)
    BY <2>1, <2>2, ScanType
  <2>4. QED
    BY <2>3 DEF S
<1>4. Each(of, << >>) = << >>
  BY <1>1, ScanEmpty
<1>5. ASSUME NEW k \in Alphabet
      PROVE  Each(of, Append(d, k)) = Each(of, d) \o of[k]
  <2>1. Wrote(t, "text", Append(d, k)) = Wrote(t, "text", d) \o Puts(t, Place(t, "text", d), k)
    BY ScanAppend
  <2>2. QED
    BY <1>1, <1>2, <1>3, <2>1
<1>6. QED
  BY <1>1, <1>3, <1>4, <1>5

-----------------------------------------------------------------------------
(***************************************************************************)
(* Short texts, and what comes of writing them after another.              *)
(***************************************************************************)
\* Texts of one and of two pieces, the space that strip_html_document writes for
\* a tag, and a text after the two dashes that are left of a comment's end.
One(k) == <<k>>
Two(j, k) == <<j, k>>
Space == One(" ")
Dashed(d) == One("--") \o d

\* They are texts.
LEMMA ShortTyped ==
  ASSUME NEW A, NEW j \in A, NEW k \in A
  PROVE  << >> \in Seq(A) /\ One(k) \in Seq(A) /\ Two(j, k) \in Seq(A)
BY DEF One, Two

\* Writing them after another text appends their pieces to it.
LEMMA ShortAfter ==
  ASSUME NEW A, NEW d \in Seq(A), NEW j \in A, NEW k \in A
  PROVE  /\ d \o << >> = d
         /\ d \o One(k) = Append(d, k)
         /\ d \o Two(j, k) = Append(Append(d, j), k)
<1>1. d \o << >> = d
  OBVIOUS
<1>2. d \o One(k) = Append(d, k)
  BY AppendIsConcat DEF One
<1>3. d \o Two(j, k) = Append(Append(d, j), k)
  BY DEF Two
<1>4. QED
  BY <1>1, <1>2, <1>3

\* The shortest texts, one after the other.
LEMMA DashedShort ==
  \A j, k : One(j) \o One(k) = Two(j, k) /\ One(j) \o << >> = One(j)
<1> TAKE j, k
<1>1. One(j) \o One(k) = Two(j, k)
  <2>1. One(j) \in Seq({j, k})
    BY DEF One
  <2>2. One(j) \o One(k) = Append(One(j), k)
    BY <2>1, ShortAfter
  <2>3. Append(One(j), k) = Two(j, k)
    <3> DEFINE a == Append(One(j), k)
               b == Two(j, k)
    <3>1. b \in Seq({j, k}) /\ Len(b) = 2 /\ b[1] = j /\ b[2] = k
      BY DEF Two
    <3>2. a \in Seq({j, k}) /\ Len(a) = 2 /\ a[1] = j /\ a[2] = k
      BY DEF One
    <3> HIDE DEF a, b
    <3>3. \A n \in 1 .. 2 : a[n] = b[n]
      BY <3>1, <3>2
    <3>4. QED
      BY <3>1, <3>2, <3>3, SeqEqual DEF a, b
  <2>4. QED
    BY <2>2, <2>3
<1>2. One(j) \o << >> = One(j)
  BY DEF One
<1>3. QED
  BY <1>1, <1>2

\* The same, for texts.
LEMMA AfterText ==
  \A d \in Seq(Alphabet), j \in Alphabet, k \in Alphabet :
     d \o << >> = d /\ d \o One(k) = Append(d, k) /\ d \o Two(j, k) = Append(Append(d, j), k)
<1> TAKE d \in Seq(Alphabet), j \in Alphabet, k \in Alphabet
<1>1. d \o << >> = d
  BY ShortAfter
<1>2. d \o One(k) = Append(d, k)
  BY ShortAfter
<1>3. d \o Two(j, k) = Append(Append(d, j), k)
  BY ShortAfter
<1>4. QED
  BY <1>1, <1>2, <1>3

-----------------------------------------------------------------------------
(***************************************************************************)
(* The tables, entry by entry.                                             *)
(***************************************************************************)
\* strip_html_comments: only the start of a comment matters in the text, only its
\* end in the comment.
LEMMA CommentsTable ==
  ASSUME NEW k \in Alphabet
  PROVE  /\ k = "<!--" => Goes(Comments, "text", k) = "comment" /\ Puts(Comments, "text", k) = << >>
         /\ k # "<!--" => Goes(Comments, "text", k) = "text" /\ Puts(Comments, "text", k) = One(k)
         /\ k = "-->" => Goes(Comments, "comment", k) = "text" /\ Puts(Comments, "comment", k) = << >>
         /\ k # "-->" => Goes(Comments, "comment", k) = "comment" /\ Puts(Comments, "comment", k) = << >>
<1>1. /\ k = "<!--" => Entry(Comments, "text", k) = To("comment", << >>)
      /\ k # "<!--" => Entry(Comments, "text", k) = To("text", One(k))
      /\ k = "-->" => Entry(Comments, "comment", k) = To("text", << >>)
      /\ k # "-->" => Entry(Comments, "comment", k) = To("comment", << >>)
  BY DEF Comments, Entry, One, Two
<1>2. QED
  BY <1>1, ToParts DEF Goes, Puts

\* The tag loops: an angle bracket is never written, nor is anything in a tag.
LEMMA TagsTable ==
  ASSUME NEW end, NEW k \in Alphabet, NEW in \in {"text", "tag"}
  PROVE  /\ k \in {"<", "<!--"} => Goes(Tags(end), in, k) = "tag" /\ Puts(Tags(end), in, k) = << >>
         /\ k = ">" => Goes(Tags(end), in, k) = "text" /\ Puts(Tags(end), in, k) = end
         /\ k = "-->" => /\ Goes(Tags(end), in, k) = "text"
                         /\ in = "tag" => Puts(Tags(end), in, k) = end
                         /\ in = "text" => Puts(Tags(end), in, k) = Dashed(end)
         /\ k \notin {"<", "<!--", ">", "-->"} =>
              /\ Goes(Tags(end), in, k) = in
              /\ in = "tag" => Puts(Tags(end), in, k) = << >>
              /\ in = "text" => Puts(Tags(end), in, k) = One(k)
<1>1. /\ k \in {"<", "<!--"} => Entry(Tags(end), in, k) = To("tag", << >>)
      /\ k = ">" => Entry(Tags(end), in, k) = To("text", end)
      /\ k = "-->" /\ in = "tag" => Entry(Tags(end), in, k) = To("text", end)
      /\ k = "-->" /\ in = "text" => Entry(Tags(end), in, k) = To("text", Dashed(end))
      /\ k \notin {"<", "<!--", ">", "-->"} /\ in = "tag" => Entry(Tags(end), in, k) = To(in, << >>)
      /\ k \notin {"<", "<!--", ">", "-->"} /\ in = "text" => Entry(Tags(end), in, k) = To(in, One(k))
  BY DEF Tags, Entry, One, Dashed
<1>2. /\ k = "-->" /\ in = "text" => Goes(Tags(end), in, k) = "text" /\ Puts(Tags(end), in, k) = Dashed(end)
  BY <1>1, ToParts DEF Goes, Puts
<1>3. /\ k \in {"<", "<!--"} => Goes(Tags(end), in, k) = "tag" /\ Puts(Tags(end), in, k) = << >>
      /\ k = ">" => Goes(Tags(end), in, k) = "text" /\ Puts(Tags(end), in, k) = end
      /\ k = "-->" /\ in = "tag" => Goes(Tags(end), in, k) = "text" /\ Puts(Tags(end), in, k) = end
  BY <1>1, ToParts DEF Goes, Puts
<1>4. k \notin {"<", "<!--", ">", "-->"} =>
        /\ Goes(Tags(end), in, k) = in
        /\ in = "tag" => Puts(Tags(end), in, k) = << >>
        /\ in = "text" => Puts(Tags(end), in, k) = One(k)
  BY <1>1, ToParts DEF Goes, Puts
<1>5. QED
  BY <1>2, <1>3, <1>4

\* split_whitespace and join: a space is written before a word, and only then.
LEMMA SpacesTable ==
  ASSUME NEW k \in Alphabet
  PROVE  /\ k = " " => /\ Goes(Spaces, "start", k) = "start" /\ Puts(Spaces, "start", k) = << >>
                       /\ Goes(Spaces, "word", k) = "gap" /\ Puts(Spaces, "word", k) = << >>
                       /\ Goes(Spaces, "gap", k) = "gap" /\ Puts(Spaces, "gap", k) = << >>
         /\ k # " " => /\ Goes(Spaces, "start", k) = "word" /\ Puts(Spaces, "start", k) = One(k)
                       /\ Goes(Spaces, "word", k) = "word" /\ Puts(Spaces, "word", k) = One(k)
                       /\ Goes(Spaces, "gap", k) = "word" /\ Puts(Spaces, "gap", k) = Two(" ", k)
<1>1. k = " " => /\ Entry(Spaces, "start", k) = To("start", << >>)
                 /\ Entry(Spaces, "word", k) = To("gap", << >>)
                 /\ Entry(Spaces, "gap", k) = To("gap", << >>)
  BY DEF Spaces, Entry, One, Two
<1>2. k # " " => /\ Entry(Spaces, "start", k) = To("word", One(k))
                 /\ Entry(Spaces, "word", k) = To("word", One(k))
                 /\ Entry(Spaces, "gap", k) = To("word", Two(" ", k))
  BY DEF Spaces, Entry, One, Two
<1>3. k = " " => /\ Goes(Spaces, "start", k) = "start" /\ Puts(Spaces, "start", k) = << >>
                 /\ Goes(Spaces, "word", k) = "gap" /\ Puts(Spaces, "word", k) = << >>
                 /\ Goes(Spaces, "gap", k) = "gap" /\ Puts(Spaces, "gap", k) = << >>
  BY <1>1, ToParts DEF Goes, Puts
<1>4. k # " " => /\ Goes(Spaces, "start", k) = "word" /\ Puts(Spaces, "start", k) = One(k)
                 /\ Goes(Spaces, "word", k) = "word" /\ Puts(Spaces, "word", k) = One(k)
  BY <1>2, ToParts DEF Goes, Puts
<1>5. k # " " => Goes(Spaces, "gap", k) = "word" /\ Puts(Spaces, "gap", k) = Two(" ", k)
  BY <1>2, ToParts DEF Goes, Puts
<1>6. QED
  BY <1>3, <1>4, <1>5

\* str::replace: what follows an ampersand decides what becomes of it.
LEMMA NamesTable ==
  ASSUME NEW name, NEW k, NEW x \in Alphabet, name # "&"
  PROVE  /\ x = "&" => /\ Goes(Names(name, k), "text", x) = "amp"
                       /\ Puts(Names(name, k), "text", x) = << >>
                       /\ Goes(Names(name, k), "amp", x) = "amp"
                       /\ Puts(Names(name, k), "amp", x) = One("&")
         /\ x # "&" => Goes(Names(name, k), "text", x) = "text" /\ Puts(Names(name, k), "text", x) = One(x)
         /\ x = name => Goes(Names(name, k), "amp", x) = "text" /\ Puts(Names(name, k), "amp", x) = One(k)
         /\ x # "&" /\ x # name =>
              Goes(Names(name, k), "amp", x) = "text" /\ Puts(Names(name, k), "amp", x) = Two("&", x)
<1> DEFINE t == Names(name, k)
<1>1. /\ x = "&" => Entry(t, "text", x) = To("amp", << >>) /\ Entry(t, "amp", x) = To("amp", One("&"))
      /\ x # "&" => Entry(t, "text", x) = To("text", One(x))
      /\ x = name => Entry(t, "amp", x) = To("text", One(k))
      /\ x # "&" /\ x # name => Entry(t, "amp", x) = To("text", Two("&", x))
  BY DEF Names, Entry, One, Two
<1>2. QED
  <2> HIDE DEF t
  <2>1. QED
    BY <1>1, ToParts DEF Goes, Puts, t

-----------------------------------------------------------------------------
(***************************************************************************)
(* RestoredIsStored.                                                       *)
(***************************************************************************)
\* Pieces that spell no entity, and those of them that spell no markup either.
NoAmp == Alphabet \ {"&"}
Plain == Alphabet \ {"&", "<", "<!--", ">", "-->"}

\* A text without ampersands has no entity.
LEMMA ReplaceNothing ==
  ASSUME NEW d \in Seq(NoAmp), NEW name, NEW k, name # "&"
  PROVE  Replace(d, name, k) = d
<1> DEFINE t == Names(name, k)
           T == {x \in Seq(NoAmp) : Place(t, "text", x) = "text" /\ Wrote(t, "text", x) = x}
<1>1. << >> \in T
  BY ScanEmpty, EmptySeq
<1>2. ASSUME NEW x \in Seq(NoAmp), NEW y \in NoAmp, x \in T
      PROVE  Append(x, y) \in T
  <2>1. Goes(t, "text", y) = "text" /\ Puts(t, "text", y) = One(y)
    BY NamesTable DEF NoAmp
  <2>2. Place(t, "text", x) = "text" /\ Wrote(t, "text", x) = x
    BY <1>2
  <2>3. Append(x, y) \in Seq(NoAmp) /\ x \o One(y) = Append(x, y)
    BY ShortAfter, AppendProperties
  <2>4. Place(t, "text", Append(x, y)) = "text"
    BY <2>1, <2>2, ScanAppend
  <2>5. Wrote(t, "text", Append(x, y)) = x \o One(y)
    <3> HIDE DEF t, T
    <3>1. Wrote(t, "text", Append(x, y)) = Wrote(t, "text", x) \o Puts(t, Place(t, "text", x), y)
      BY ScanAppend
    <3>2. QED
      BY <2>1, <2>2, <3>1
  <2>6. QED
    BY <2>3, <2>4, <2>5
<1>3. d \in T
  <2> HIDE DEF T
  <2>1. QED
    BY <1>1, <1>2, TextInduction
<1>4. QED
  BY <1>3 DEF Replace, Place, Wrote

\* Nor is there anything to decode in it.
LEMMA DecodeNothing ==
  ASSUME NEW d \in Seq(NoAmp)
  PROVE  Decode(d) = d
<1>1. \A name, k : name # "&" => Replace(d, name, k) = d
  BY ReplaceNothing
<1>2. /\ Replace(d, "nbsp;", " ") = d /\ Replace(d, "lt;", "<") = d
      /\ Replace(d, "gt;", ">") = d /\ Replace(d, "amp;", "&") = d
  BY <1>1
<1>3. QED
  BY <1>2, Zenon DEF Decode

\* What the scans leave of a text without ampersands.
LEMMA StripPlain ==
  ASSUME NEW d \in Seq(NoAmp)
  PROVE  /\ StripComments(d) \in Seq(NoAmp)
         /\ \A end \in Seq(Plain) : StripTags(d, end) \in Seq(Plain)
<1>1. StripComments(d) \in Seq(NoAmp)
  <2> DEFINE S == {"text", "comment"}
             W == Seq(NoAmp)
  <2>1. ASSUME NEW q \in S, NEW k \in NoAmp
        PROVE  Goes(Comments, q, k) \in S /\ Puts(Comments, q, k) \in W
    <3>1. k \in Alphabet
      BY DEF NoAmp
    <3>2. << >> \in W /\ One(k) \in W
      BY ShortTyped
    <3> HIDE DEF W
    <3>3. QED
      BY <3>1, <3>2, CommentsTable
  <2>2. "text" \in S
    OBVIOUS
  <2> HIDE DEF S
  <2>3. Wrote(Comments, "text", d) \in Seq(NoAmp)
    BY <2>1, <2>2, ScanType
  <2>4. QED
    BY <2>3 DEF StripComments, Wrote
<1>2. ASSUME NEW end \in Seq(Plain)
      PROVE  StripTags(d, end) \in Seq(Plain)
  <2> DEFINE S == {"text", "tag"}
             W == Seq(Plain)
  <2>1. ASSUME NEW q \in S, NEW k \in NoAmp
        PROVE  Goes(Tags(end), q, k) \in S /\ Puts(Tags(end), q, k) \in W
    <3>1. k \in Alphabet /\ "--" \in Plain /\ (k \notin {"<", "<!--", ">", "-->"} => k \in Plain)
      BY DEF NoAmp, Plain, Alphabet, Marks
    <3>2. << >> \in W /\ end \in W /\ (k \notin {"<", "<!--", ">", "-->"} => One(k) \in W)
      BY <3>1, ShortTyped
    <3>3. Dashed(end) \in W
      BY <3>1, ShortTyped, ConcatProperties DEF Dashed
    <3> HIDE DEF W
    <3>4. k \in {"<", "<!--", ">"} => Goes(Tags(end), q, k) \in S /\ Puts(Tags(end), q, k) \in W
      BY <3>1, <3>2, TagsTable
    <3>5. k = "-->" => Goes(Tags(end), q, k) \in S /\ Puts(Tags(end), q, k) \in W
      BY <3>1, <3>2, <3>3, TagsTable
    <3>6. k \notin {"<", "<!--", ">", "-->"} =>
            Goes(Tags(end), q, k) \in S /\ Puts(Tags(end), q, k) \in W
      BY <3>1, <3>2, TagsTable
    <3>7. QED
      BY <3>4, <3>5, <3>6
  <2>2. "text" \in S
    OBVIOUS
  <2> HIDE DEF S
  <2>3. Wrote(Tags(end), "text", d) \in Seq(Plain)
    BY <2>1, <2>2, ScanType
  <2>4. QED
    BY <2>3 DEF StripTags, Wrote
<1>3. QED
  BY <1>1, <1>2

\* Where the spaces are, and that a squeezed text has no pieces of its own.
LEMMA SqueezePlain ==
  ASSUME NEW A \in SUBSET Alphabet, " " \in A, NEW d \in Seq(A)
  PROVE  /\ Place(Spaces, "start", d) \in {"start", "word", "gap"}
         /\ Squeeze(d) \in Seq(A)
<1> DEFINE S == {"start", "word", "gap"}
           W == Seq(A)
<1>1. ASSUME NEW q \in S, NEW k \in A
      PROVE  Goes(Spaces, q, k) \in S /\ Puts(Spaces, q, k) \in W
  <2>1. k \in Alphabet /\ << >> \in W /\ One(k) \in W /\ Two(" ", k) \in W
    BY ShortTyped
  <2> HIDE DEF W
  <2>2. k = " " => Goes(Spaces, q, k) \in S /\ Puts(Spaces, q, k) = << >>
    BY <2>1, SpacesTable
  <2>3. ASSUME k # " "
        PROVE  Goes(Spaces, q, k) \in S /\ Puts(Spaces, q, k) \in W
    <3> DEFINE o == One(k)
               t == Two(" ", k)
    <3>1. /\ Goes(Spaces, "start", k) = "word" /\ Puts(Spaces, "start", k) = o
          /\ Goes(Spaces, "word", k) = "word" /\ Puts(Spaces, "word", k) = o
          /\ Goes(Spaces, "gap", k) = "word" /\ Puts(Spaces, "gap", k) = t
      BY <2>1, <2>3, SpacesTable, Zenon
    <3>2. o \in W /\ t \in W
      BY <2>1
    <3> HIDE DEF o, t
    <3>3. QED
      BY <3>1, <3>2
  <2>4. QED
    BY <2>1, <2>2, <2>3
<1>2. "start" \in S
  OBVIOUS
<1> HIDE DEF S
<1>3. Place(Spaces, "start", d) \in S /\ Wrote(Spaces, "start", d) \in Seq(A)
  BY <1>1, <1>2, ScanType
<1>4. QED
  BY <1>3 DEF Squeeze, Wrote, S

\* A text without markup is no document.
LEMMA PlainIsNoHtml ==
  ASSUME NEW d \in Seq(Plain)
  PROVE  ~LooksHtml(d)
<1>1. ASSUME NEW n \in DOMAIN d, NEW a, NEW s, Len(s) \in Nat, Len(s) > 0, s[1] = a, a \notin Plain
      PROVE  ~At(d, n, s)
  <2>1. n \in Nat /\ n >= 1 /\ Len(d) \in Nat /\ n <= Len(d) /\ d[n] \in Plain
    OBVIOUS
  <2> SUFFICES ASSUME At(d, n, s)
               PROVE  FALSE
    OBVIOUS
  <2>2. n + Len(s) - 1 <= Len(d) /\ SubSeq(d, n, n + Len(s) - 1) = s
    BY DEF At
  <2>3. SubSeq(d, n, n + Len(s) - 1)[1] = d[n]
    BY <1>1, <2>1, <2>2, SubSeqProperties
  <2>4. QED
    BY <1>1, <2>1, <2>2, <2>3
<1>2. \A n \in DOMAIN d : ~At(d, n, <<"<", "html">>)
  BY <1>1 DEF Plain
<1>3. \A n \in DOMAIN d : ~At(d, n, <<"<!--", "StartFragment", "-->">>)
  BY <1>1 DEF Plain
<1>4. QED
  BY <1>2, <1>3 DEF LooksHtml

\* What a document without entities is stripped to.
LEMMA StripTyped ==
  ASSUME NEW d \in Seq(NoAmp)
  PROVE  /\ Strip(d) = Squeeze(StripTags(StripComments(d), <<" ">>))
         /\ Strip(d) \in Seq(Plain)
         /\ StripTags(StripComments(d), <<" ">>) \in Seq(Plain)
         /\ StripTags(StripComments(d), << >>) \in Seq(Plain)
<1> DEFINE c == StripComments(d)
<1>1. c \in Seq(NoAmp)
  BY StripPlain
<1>2. <<" ">> \in Seq(Plain) /\ << >> \in Seq(Plain)
  BY DEF Plain, Alphabet, Marks
<1> HIDE DEF c
<1>3. StripTags(c, <<" ">>) \in Seq(Plain) /\ StripTags(c, << >>) \in Seq(Plain)
  BY <1>1, <1>2, StripPlain
<1>4. StripTags(c, <<" ">>) \in Seq(NoAmp)
  <2>1. Plain \subseteq NoAmp
    BY DEF Plain, NoAmp
  <2>2. QED
    BY <1>3, <2>1, SeqMonotonic
<1>5. Strip(d) = Squeeze(StripTags(c, <<" ">>))
  BY <1>4, DecodeNothing DEF Strip, c
<1>6. Squeeze(StripTags(c, <<" ">>)) \in Seq(Plain)
  <2>1. Plain \in SUBSET Alphabet /\ " " \in Plain
    BY DEF Plain, Alphabet, Marks
  <2>2. QED
    BY <1>3, <2>1, SqueezePlain
<1>7. QED
  BY <1>3, <1>5, <1>6 DEF c

\* A text without ampersands, as a sequence.
LEMMA NoAmpText ==
  ASSUME NEW d \in Seq(Alphabet), "&" \notin ToSet(d)
  PROVE  d \in Seq(NoAmp)
<1>1. \A n \in 1 .. Len(d) : d[n] \in NoAmp
  BY DEF ToSet, NoAmp
<1>2. Len(d) \in Nat /\ d = [n \in 1 .. Len(d) |-> d[n]]
  BY LenProperties
<1>3. QED
  BY <1>1, <1>2, IsASeq

\* Nothing is left to clean in what is stored.
LEMMA CleanedOnce ==
  ASSUME NEW d \in Seq(Alphabet), "&" \notin ToSet(d)
  PROVE  Clean(Clean(d)) = Clean(d)
<1>1. d \in Seq(NoAmp)
  BY NoAmpText
<1>2. CASE LooksHtml(d) /\ Strip(d) # << >>
  <2>1. Clean(d) = Strip(d) /\ ~LooksHtml(Strip(d))
    BY <1>1, <1>2, StripTyped, PlainIsNoHtml DEF Clean
  <2>2. QED
    BY <2>1 DEF Clean
<1>3. CASE ~(LooksHtml(d) /\ Strip(d) # << >>)
  BY <1>3 DEF Clean
<1>4. QED
  BY <1>2, <1>3

\* The text is made of pieces.
OfPieces == doc \in Seq(Alphabet)

\* It stays so.
LEMMA TextType == Spec => []OfPieces
<1>1. Init => OfPieces
  BY HtmlAssumption DEF Init, OfPieces
<1>2. OfPieces /\ [Next]_doc => OfPieces'
  BY DEF Next, OfPieces, Alphabet
<1>3. QED
  BY <1>1, <1>2, PTL DEF Spec

\* RestoredIsStored, for texts of any length: cleaning a text that a capture
\* has cleaned changes nothing (normalize_plain_text).
THEOREM CleaningIsStable == Spec => []RestoredIsStored
<1>1. OfPieces => RestoredIsStored
  BY CleanedOnce DEF RestoredIsStored, OfPieces
<1>2. QED
  BY <1>1, TextType, PTL

-----------------------------------------------------------------------------
(***************************************************************************)
(* ShownIsPasted.                                                          *)
(***************************************************************************)
\* The words of a text, piece by piece.
LEMMA WordsAppend ==
  ASSUME NEW d \in Seq(Alphabet)
  PROVE  /\ Words(<< >>) = << >>
         /\ Words(d) \in Seq(Alphabet)
         /\ Words(Append(d, " ")) = Words(d)
         /\ \A k \in Alphabet \ {" "} : Words(Append(d, k)) = Append(Words(d), k)
<1> DEFINE of == [k \in Alphabet |-> IF k = " " THEN << >> ELSE One(k)]
           W  == Seq(Alphabet)
<1>1. \A x : Words(x) = Each(of, x)
  BY DEF Words, One
<1>2. of \in [Alphabet -> W]
  BY ShortTyped
<1>3. " " \in Alphabet /\ of[" "] = << >> /\ \A k \in Alphabet \ {" "} : of[k] = One(k)
  BY DEF Alphabet, Marks
<1> HIDE DEF of
<1>4. /\ Each(of, d) \in W /\ Each(of, << >>) = << >>
      /\ \A k \in Alphabet : Each(of, Append(d, k)) = Each(of, d) \o of[k]
  BY <1>2, EachAppend
<1>5. ASSUME NEW w \in W, NEW k \in Alphabet
      PROVE  w \o << >> = w /\ w \o One(k) = Append(w, k)
  BY ShortAfter
<1> HIDE DEF W
<1>6. Each(of, Append(d, " ")) = Each(of, d)
  BY <1>3, <1>4, <1>5
<1>7. ASSUME NEW k \in Alphabet \ {" "}
      PROVE  Each(of, Append(d, k)) = Append(Each(of, d), k)
  BY <1>3, <1>4, <1>5
<1>8. QED
  BY <1>1, <1>4, <1>6, <1>7 DEF W

\* One space between words loses no word.
LEMMA WordsSqueezed ==
  ASSUME NEW d \in Seq(Alphabet)
  PROVE  Words(Squeeze(d)) = Words(d)
<1> DEFINE w(x) == Wrote(Spaces, "start", x)
           T == {x \in Seq(Alphabet) : Words(w(x)) = Words(x)}
<1>1. << >> \in T
  BY ScanEmpty, EmptySeq
<1>2. ASSUME NEW x \in Seq(Alphabet), NEW k \in Alphabet, Words(w(x)) = Words(x)
      PROVE  Words(w(Append(x, k))) = Words(Append(x, k))
  <2> DEFINE q == Place(Spaces, "start", x)
  <2>1. " " \in Alphabet
    BY DEF Alphabet, Marks
  <2>2. q \in {"start", "word", "gap"} /\ w(x) \in Seq(Alphabet)
    BY <2>1, SqueezePlain DEF Squeeze, Wrote
  <2>3. w(Append(x, k)) = w(x) \o Puts(Spaces, q, k)
    BY ScanAppend
  <2> HIDE DEF w, q
  <2>4. /\ w(x) \o << >> = w(x)
        /\ w(x) \o One(k) = Append(w(x), k)
        /\ w(x) \o Two(" ", k) = Append(Append(w(x), " "), k)
    BY <2>1, <2>2, AfterText, Zenon
  <2>5. Append(w(x), " ") \in Seq(Alphabet)
    BY <2>1, <2>2, AppendProperties
  <2>6. CASE k = " "
    <3>1. Puts(Spaces, q, k) = << >>
      BY <2>2, <2>6, SpacesTable
    <3>2. Words(Append(x, k)) = Words(x)
      BY <2>6, WordsAppend
    <3>3. QED
      BY <1>2, <2>3, <2>4, <3>1, <3>2
  <2>7. CASE k # " "
    <3>1. Words(Append(x, k)) = Append(Words(x), k)
      BY <2>7, WordsAppend
    <3>2. CASE q # "gap"
      <4>1. q = "start" \/ q = "word"
        BY <2>2, <3>2
      <4>2. Puts(Spaces, q, k) = One(k)
        <5>1. Puts(Spaces, "start", k) = One(k) /\ Puts(Spaces, "word", k) = One(k)
          BY <2>7, SpacesTable, Zenon
        <5>2. QED
          BY <4>1, <5>1, Zenon
      <4>3. w(Append(x, k)) = Append(w(x), k)
        BY <2>3, <2>4, <4>2
      <4>4. Words(Append(w(x), k)) = Append(Words(w(x)), k)
        <5>1. k \in Alphabet \ {" "}
          BY <2>7
        <5>2. QED
          BY <2>2, <5>1, WordsAppend, Zenon
      <4>5. QED
        BY <1>2, <3>1, <4>3, <4>4
    <3>3. CASE q = "gap"
      <4>1. Puts(Spaces, q, k) = Two(" ", k)
        BY <2>7, <3>3, SpacesTable
      <4>2. w(Append(x, k)) = Append(Append(w(x), " "), k)
        BY <2>3, <2>4, <4>1
      <4>3. Words(Append(Append(w(x), " "), k)) = Append(Words(w(x)), k)
        <5>1. Words(Append(w(x), " ")) = Words(w(x))
          BY <2>2, WordsAppend, Zenon
        <5>2. k \in Alphabet \ {" "}
          BY <2>7
        <5>3. QED
          BY <2>5, <5>1, <5>2, WordsAppend, Zenon
      <4>4. QED
        BY <1>2, <3>1, <4>2, <4>3
    <3>4. QED
      BY <3>2, <3>3
  <2>8. QED
    BY <2>6, <2>7
<1>3. d \in T
  <2>1. \A x \in Seq(Alphabet), k \in Alphabet : x \in T => Append(x, k) \in T
    BY <1>2, AppendProperties
  <2> HIDE DEF T
  <2>2. QED
    BY <1>1, <2>1, TextInduction
<1>4. QED
  BY <1>3 DEF Squeeze, Wrote

\* What is written for a piece where the end of a tag is written as end, and
\* where it is not.
Alike(end, k, a, b) ==
  \/ a = << >> /\ b = << >>
  \/ a = One(k) /\ b = One(k)
  \/ a = end /\ b = << >>
  \/ a = Dashed(end) /\ b = Dashed(<< >>)

\* The two scans are in the same place, and write alike.
LEMMA TagsAlike ==
  ASSUME NEW end, NEW k \in Alphabet, NEW q \in {"text", "tag"}
  PROVE  /\ Goes(Tags(end), q, k) \in {"text", "tag"}
         /\ Goes(Tags(<< >>), q, k) = Goes(Tags(end), q, k)
         /\ Alike(end, k, Puts(Tags(end), q, k), Puts(Tags(<< >>), q, k))
<1>1. CASE k \in {"<", "<!--"}
  <2>1. Goes(Tags(end), q, k) = "tag" /\ Puts(Tags(end), q, k) = << >>
    BY <1>1, TagsTable
  <2>2. Goes(Tags(<< >>), q, k) = "tag" /\ Puts(Tags(<< >>), q, k) = << >>
    BY <1>1, TagsTable
  <2>3. QED
    BY <2>1, <2>2 DEF Alike
<1>2. CASE k = ">" \/ (k = "-->" /\ q = "tag")
  <2>1. Goes(Tags(end), q, k) = "text" /\ Puts(Tags(end), q, k) = end
    BY <1>2, TagsTable
  <2>2. Goes(Tags(<< >>), q, k) = "text" /\ Puts(Tags(<< >>), q, k) = << >>
    BY <1>2, TagsTable
  <2>3. QED
    BY <2>1, <2>2 DEF Alike
<1>3. CASE k = "-->" /\ q = "text"
  <2>1. Goes(Tags(end), q, k) = "text" /\ Puts(Tags(end), q, k) = Dashed(end)
    BY <1>3, TagsTable
  <2>2. Goes(Tags(<< >>), q, k) = "text" /\ Puts(Tags(<< >>), q, k) = Dashed(<< >>)
    BY <1>3, TagsTable
  <2>3. QED
    BY <2>1, <2>2 DEF Alike
<1>4. CASE k \notin {"<", "<!--", ">", "-->"} /\ q = "tag"
  <2>1. Goes(Tags(end), q, k) = q /\ Puts(Tags(end), q, k) = << >>
    BY <1>4, TagsTable
  <2>2. Goes(Tags(<< >>), q, k) = q /\ Puts(Tags(<< >>), q, k) = << >>
    BY <1>4, TagsTable
  <2>3. QED
    BY <2>1, <2>2 DEF Alike
<1>5. CASE k \notin {"<", "<!--", ">", "-->"} /\ q = "text"
  <2>1. Goes(Tags(end), q, k) = q /\ Puts(Tags(end), q, k) = One(k)
    BY <1>5, TagsTable
  <2>2. Goes(Tags(<< >>), q, k) = q /\ Puts(Tags(<< >>), q, k) = One(k)
    BY <1>5, TagsTable
  <2>3. QED
    BY <2>1, <2>2 DEF Alike
<1>6. QED
  BY <1>1, <1>2, <1>3, <1>4, <1>5

\* What is written alike has the same words.
LEMMA AlikeWords ==
  ASSUME NEW w \in Seq(Alphabet), NEW v \in Seq(Alphabet), Words(w) = Words(v),
         NEW k \in Alphabet, NEW a, NEW b, Alike(Space, k, a, b)
  PROVE  w \o a \in Seq(Alphabet) /\ v \o b \in Seq(Alphabet) /\ Words(w \o a) = Words(v \o b)
<1> DEFINE W == Seq(Alphabet)
           dw == Append(w, "--")
           dv == Append(v, "--")
<1>1. " " \in Alphabet /\ "--" \in Alphabet /\ "--" # " "
  BY DEF Alphabet, Marks
<1>2. dw \in W /\ dv \in W /\ Words(dw) = Words(dv)
  <2>1. Words(dw) = Append(Words(w), "--") /\ Words(dv) = Append(Words(v), "--")
    BY <1>1, WordsAppend
  <2>2. QED
    BY <1>1, <2>1, AppendProperties
<1>3. ASSUME NEW x \in W, NEW y \in W, Words(x) = Words(y)
      PROVE  /\ Append(x, k) \in W /\ Append(y, k) \in W /\ Words(Append(x, k)) = Words(Append(y, k))
             /\ Append(x, " ") \in W /\ Words(Append(x, " ")) = Words(y)
  <2>1. Append(x, k) \in W /\ Append(y, k) \in W /\ Append(x, " ") \in W
    BY <1>1, AppendProperties
  <2>2. Words(Append(x, " ")) = Words(x) /\ Words(Append(y, " ")) = Words(y)
    BY WordsAppend
  <2>3. k # " " => Words(Append(x, k)) = Append(Words(x), k) /\ Words(Append(y, k)) = Append(Words(y), k)
    BY WordsAppend
  <2>4. QED
    BY <1>3, <2>1, <2>2, <2>3
<1>4. /\ w \o << >> = w /\ w \o One(k) = Append(w, k) /\ w \o Space = Append(w, " ")
      /\ v \o << >> = v /\ v \o One(k) = Append(v, k)
  BY <1>1, AfterText, Zenon DEF Space
<1>5. w \o Dashed(Space) = Append(dw, " ") /\ v \o Dashed(<< >>) = dv
  <2>1. Dashed(Space) = Two("--", " ") /\ Dashed(<< >>) = One("--")
    BY DashedShort, Zenon DEF Dashed, Space
  <2>2. w \o Two("--", " ") = Append(Append(w, "--"), " ") /\ v \o One("--") = Append(v, "--")
    BY <1>1, AfterText, Zenon DEF Space
  <2>3. QED
    BY <2>1, <2>2
<1> HIDE DEF W, dw, dv
<1>6. CASE a = << >> /\ b = << >>
  BY <1>4, <1>6 DEF W
<1>7. CASE a = One(k) /\ b = One(k)
  <2>1. Append(w, k) \in W /\ Append(v, k) \in W /\ Words(Append(w, k)) = Words(Append(v, k))
    BY <1>3 DEF W
  <2>2. QED
    BY <1>4, <1>7, <2>1 DEF W
<1>8. CASE a = Space /\ b = << >>
  <2>1. Append(w, " ") \in W /\ Words(Append(w, " ")) = Words(v)
    BY <1>3 DEF W
  <2>2. QED
    BY <1>4, <1>8, <2>1 DEF W
<1>9. CASE a = Dashed(Space) /\ b = Dashed(<< >>)
  <2>1. Append(dw, " ") \in W /\ Words(Append(dw, " ")) = Words(dv)
    BY <1>2, <1>3
  <2>2. QED
    BY <1>2, <1>5, <1>9, <2>1 DEF W
<1>10. QED
  BY <1>6, <1>7, <1>8, <1>9 DEF Alike

\* So what the end of a tag is written as costs no word.
LEMMA WordsStripped ==
  ASSUME NEW d \in Seq(Alphabet)
  PROVE  Words(StripTags(d, Space)) = Words(StripTags(d, << >>))
<1> DEFINE s == Tags(Space)
           n == Tags(<< >>)
           Same(x) == /\ Place(s, "text", x) \in {"text", "tag"}
                      /\ Place(n, "text", x) = Place(s, "text", x)
                      /\ Wrote(s, "text", x) \in Seq(Alphabet)
                      /\ Wrote(n, "text", x) \in Seq(Alphabet)
                      /\ Words(Wrote(s, "text", x)) = Words(Wrote(n, "text", x))
           T == {x \in Seq(Alphabet) : Same(x)}
<1>1. << >> \in T
  BY ScanEmpty, EmptySeq
<1>2. ASSUME NEW x \in Seq(Alphabet), NEW k \in Alphabet, Same(x)
      PROVE  Same(Append(x, k))
  <2> DEFINE q == Place(s, "text", x)
             w == Wrote(s, "text", x)
             v == Wrote(n, "text", x)
  <2>1. /\ Goes(s, q, k) \in {"text", "tag"} /\ Goes(n, q, k) = Goes(s, q, k)
        /\ Alike(Space, k, Puts(s, q, k), Puts(n, q, k))
    BY <1>2, TagsAlike
  <2>2. /\ w \o Puts(s, q, k) \in Seq(Alphabet) /\ v \o Puts(n, q, k) \in Seq(Alphabet)
        /\ Words(w \o Puts(s, q, k)) = Words(v \o Puts(n, q, k))
    <3> HIDE DEF s, n, q, w, v
    <3>1. w \in Seq(Alphabet) /\ v \in Seq(Alphabet) /\ Words(w) = Words(v)
      BY <1>2 DEF w, v
    <3>2. QED
      <4> DEFINE a == Puts(s, q, k)
                 b == Puts(n, q, k)
      <4>1. Alike(Space, k, a, b)
        BY <2>1
      <4> HIDE DEF a, b
      <4>2. w \o a \in Seq(Alphabet) /\ v \o b \in Seq(Alphabet) /\ Words(w \o a) = Words(v \o b)
        BY <3>1, <4>1, AlikeWords
      <4>3. QED
        BY <4>2 DEF a, b
  <2>3. Place(s, "text", Append(x, k)) = Goes(s, q, k)
    <3> HIDE DEF s
    <3>1. QED
      BY ScanAppend
  <2>4. Place(n, "text", Append(x, k)) = Goes(n, q, k)
    <3>1. Place(n, "text", x) = q
      BY <1>2
    <3> HIDE DEF n, q
    <3>2. QED
      BY <3>1, ScanAppend
  <2>5. Wrote(s, "text", Append(x, k)) = w \o Puts(s, q, k)
    <3> HIDE DEF s
    <3>1. QED
      BY ScanAppend
  <2>6. Wrote(n, "text", Append(x, k)) = v \o Puts(n, q, k)
    <3>1. Place(n, "text", x) = q
      BY <1>2
    <3> HIDE DEF n, q
    <3>2. QED
      BY <3>1, ScanAppend
  <2>7. QED
    BY <2>1, <2>2, <2>3, <2>4, <2>5, <2>6
<1>3. d \in T
  <2>1. \A x \in Seq(Alphabet), k \in Alphabet : x \in T => Append(x, k) \in T
    BY <1>2, AppendProperties
  <2> HIDE DEF T
  <2>2. QED
    BY <1>1, <2>1, TextInduction
<1>4. QED
  BY <1>3 DEF StripTags, Wrote

\* ShownIsPasted, for texts of any length: the preview of a stored document has
\* the words that a restore of it writes (plain_text_preview and
\* normalize_plain_text).
THEOREM PreviewIsPaste == Spec => []ShownIsPasted
<1>1. OfPieces => ShownIsPasted
  <2> SUFFICES ASSUME OfPieces, "&" \notin ToSet(doc), LooksHtml(doc) => Strip(doc) # << >>
               PROVE  Words(Preview(doc)) = Words(Clean(doc))
    BY DEF ShownIsPasted
  <2>1. CASE LooksHtml(doc)
    <3> DEFINE c == StripComments(doc)
               p == StripTags(c, Space)
    <3>1. doc \in Seq(NoAmp)
      BY NoAmpText DEF OfPieces
    <3>2. Clean(doc) = Strip(doc) /\ Preview(doc) = StripTags(c, << >>)
      BY <2>1 DEF Clean, Preview
    <3>3. Strip(doc) = Squeeze(p) /\ p \in Seq(Plain)
      BY <3>1, StripTyped DEF One, Space
    <3>4. c \in Seq(NoAmp)
      BY <3>1, StripPlain
    <3> HIDE DEF c, p
    <3>5. c \in Seq(Alphabet) /\ p \in Seq(Alphabet)
      <4>1. NoAmp \subseteq Alphabet /\ Plain \subseteq Alphabet
        BY DEF NoAmp, Plain
      <4>2. QED
        BY <3>3, <3>4, <4>1, SeqMonotonic
    <3>6. Words(Squeeze(p)) = Words(p)
      BY <3>5, WordsSqueezed
    <3>7. Words(p) = Words(StripTags(c, << >>))
      BY <3>5, WordsStripped DEF p
    <3>8. QED
      BY <3>2, <3>3, <3>6, <3>7
  <2>2. CASE ~LooksHtml(doc)
    BY <2>2 DEF Clean, Preview
  <2>3. QED
    BY <2>1, <2>2
<1>2. QED
  BY <1>1, TextType, PTL

-----------------------------------------------------------------------------
(***************************************************************************)
(* WordsKept.                                                              *)
(***************************************************************************)
\* Entries of the table of the one pass.
LEMMA PlacesTable ==
  ASSUME NEW k \in Alphabet
  PROVE  /\ Goes(Places, "broken", k) = "broken"
         /\ k = "<" => Goes(Places, "text", k) = "tag" /\ Puts(Places, "text", k) = << >>
         /\ k = "<!--" => Goes(Places, "text", k) = "comment" /\ Puts(Places, "text", k) = << >>
         /\ k \in {">", "-->"} => Goes(Places, "text", k) = "broken"
         /\ k \notin {"<", "<!--", ">", "-->"} =>
              Goes(Places, "text", k) = "text" /\ Puts(Places, "text", k) = One(k)
         /\ k = ">" => Goes(Places, "tag", k) = "text" /\ Puts(Places, "tag", k) = Space
         /\ k \in {"<", "<!--", "-->"} => Goes(Places, "tag", k) = "broken"
         /\ k \notin {"<", "<!--", ">", "-->"} =>
              Goes(Places, "tag", k) = "tag" /\ Puts(Places, "tag", k) = << >>
         /\ k = "-->" => Goes(Places, "comment", k) = "text" /\ Puts(Places, "comment", k) = << >>
         /\ k # "-->" => Goes(Places, "comment", k) = "comment" /\ Puts(Places, "comment", k) = << >>
<1>1. /\ Entry(Places, "broken", k) = To("broken", << >>)
      /\ k = "<" => Entry(Places, "text", k) = To("tag", << >>)
      /\ k = "<!--" => Entry(Places, "text", k) = To("comment", << >>)
      /\ k \in {">", "-->"} => Entry(Places, "text", k) = To("broken", << >>)
      /\ k \notin {"<", "<!--", ">", "-->"} => Entry(Places, "text", k) = To("text", One(k))
  BY DEF Places, Entry, One, Brackets
<1>2. /\ k = ">" => Entry(Places, "tag", k) = To("text", Space)
      /\ k \in {"<", "<!--", "-->"} => Entry(Places, "tag", k) = To("broken", << >>)
      /\ k \notin {"<", "<!--", ">", "-->"} => Entry(Places, "tag", k) = To("tag", << >>)
      /\ k = "-->" => Entry(Places, "comment", k) = To("text", << >>)
      /\ k # "-->" => Entry(Places, "comment", k) = To("comment", << >>)
  BY DEF Places, Entry, One, Space, Brackets
<1>3. /\ Goes(Places, "broken", k) = "broken"
      /\ k = "<" => Goes(Places, "text", k) = "tag" /\ Puts(Places, "text", k) = << >>
      /\ k = "<!--" => Goes(Places, "text", k) = "comment" /\ Puts(Places, "text", k) = << >>
      /\ k \in {">", "-->"} => Goes(Places, "text", k) = "broken"
      /\ k \notin {"<", "<!--", ">", "-->"} =>
           Goes(Places, "text", k) = "text" /\ Puts(Places, "text", k) = One(k)
  BY <1>1, ToParts DEF Goes, Puts
<1>4. /\ k = ">" => Goes(Places, "tag", k) = "text" /\ Puts(Places, "tag", k) = Space
      /\ k \in {"<", "<!--", "-->"} => Goes(Places, "tag", k) = "broken"
      /\ k \notin {"<", "<!--", ">", "-->"} =>
           Goes(Places, "tag", k) = "tag" /\ Puts(Places, "tag", k) = << >>
      /\ k = "-->" => Goes(Places, "comment", k) = "text" /\ Puts(Places, "comment", k) = << >>
      /\ k # "-->" => Goes(Places, "comment", k) = "comment" /\ Puts(Places, "comment", k) = << >>
  BY <1>2, ToParts DEF Goes, Puts
<1>5. QED
  BY <1>3, <1>4

\* Where the scan for comments, and the scan for tags over what it leaves, are
\* when the one pass is at p.
Shut(p) == IF p = "comment" THEN "comment" ELSE "text"
Open(p) == IF p = "tag" THEN "tag" ELSE "text"

\* The first scan lets the piece through, and the second does with it what the
\* one pass does.
Through(p, k) ==
  /\ Puts(Comments, Shut(p), k) = One(k)
  /\ Goes(Tags(Space), Open(p), k) = Open(Goes(Places, p, k))
  /\ Puts(Tags(Space), Open(p), k) = Puts(Places, p, k)

\* The first scan drops the piece, and the one pass writes nothing for it.
Hidden(p, k) ==
  /\ Puts(Comments, Shut(p), k) = << >>
  /\ Open(Goes(Places, p, k)) = Open(p)
  /\ Puts(Places, p, k) = << >>

\* They do so unless the pass gives up.
LEMMA OnePass ==
  ASSUME NEW k \in Alphabet, NEW p \in {"text", "tag", "comment"}, Goes(Places, p, k) # "broken"
  PROVE  /\ Goes(Places, p, k) \in {"text", "tag", "comment"}
         /\ Goes(Comments, Shut(p), k) = Shut(Goes(Places, p, k))
         /\ Through(p, k) \/ Hidden(p, k)
         /\ Puts(Places, p, k) = << >> \/ Puts(Places, p, k) = One(k) \/ Puts(Places, p, k) = Space
<1>1. CASE p = "text" /\ k = "<"
  <2>1. Goes(Places, p, k) = "tag" /\ Puts(Places, p, k) = << >>
    BY <1>1, PlacesTable
  <2>2. Goes(Comments, "text", k) = "text" /\ Puts(Comments, "text", k) = One(k)
    BY <1>1, CommentsTable
  <2>3. Goes(Tags(Space), "text", k) = "tag" /\ Puts(Tags(Space), "text", k) = << >>
    BY <1>1, TagsTable
  <2>4. QED
    BY <1>1, <2>1, <2>2, <2>3 DEF Shut, Open, Through
<1>2. CASE p = "text" /\ k = "<!--"
  <2>1. Goes(Places, p, k) = "comment" /\ Puts(Places, p, k) = << >>
    BY <1>2, PlacesTable
  <2>2. Goes(Comments, "text", k) = "comment" /\ Puts(Comments, "text", k) = << >>
    BY <1>2, CommentsTable
  <2>3. QED
    BY <1>2, <2>1, <2>2 DEF Shut, Open, Hidden
<1>3. CASE p = "text" /\ k \notin {"<", "<!--", ">", "-->"}
  <2>1. Goes(Places, p, k) = "text" /\ Puts(Places, p, k) = One(k)
    BY <1>3, PlacesTable
  <2>2. Goes(Comments, "text", k) = "text" /\ Puts(Comments, "text", k) = One(k)
    BY <1>3, CommentsTable
  <2>3. Goes(Tags(Space), "text", k) = "text" /\ Puts(Tags(Space), "text", k) = One(k)
    BY <1>3, TagsTable
  <2>4. QED
    BY <1>3, <2>1, <2>2, <2>3 DEF Shut, Open, Through
<1>4. CASE p = "tag" /\ k = ">"
  <2>1. Goes(Places, p, k) = "text" /\ Puts(Places, p, k) = Space
    BY <1>4, PlacesTable
  <2>2. Goes(Comments, "text", k) = "text" /\ Puts(Comments, "text", k) = One(k)
    BY <1>4, CommentsTable
  <2>3. Goes(Tags(Space), "tag", k) = "text" /\ Puts(Tags(Space), "tag", k) = Space
    BY <1>4, TagsTable
  <2>4. QED
    BY <1>4, <2>1, <2>2, <2>3 DEF Shut, Open, Through
<1>5. CASE p = "tag" /\ k \notin {"<", "<!--", ">", "-->"}
  <2>1. Goes(Places, p, k) = "tag" /\ Puts(Places, p, k) = << >>
    BY <1>5, PlacesTable
  <2>2. Goes(Comments, "text", k) = "text" /\ Puts(Comments, "text", k) = One(k)
    BY <1>5, CommentsTable
  <2>3. Goes(Tags(Space), "tag", k) = "tag" /\ Puts(Tags(Space), "tag", k) = << >>
    BY <1>5, TagsTable
  <2>4. QED
    BY <1>5, <2>1, <2>2, <2>3 DEF Shut, Open, Through
<1>6. CASE p = "comment" /\ k = "-->"
  <2>1. Goes(Places, p, k) = "text" /\ Puts(Places, p, k) = << >>
    BY <1>6, PlacesTable
  <2>2. Goes(Comments, "comment", k) = "text" /\ Puts(Comments, "comment", k) = << >>
    BY <1>6, CommentsTable
  <2>3. QED
    BY <1>6, <2>1, <2>2 DEF Shut, Open, Hidden
<1>7. CASE p = "comment" /\ k # "-->"
  <2>1. Goes(Places, p, k) = "comment" /\ Puts(Places, p, k) = << >>
    BY <1>7, PlacesTable
  <2>2. Goes(Comments, "comment", k) = "comment" /\ Puts(Comments, "comment", k) = << >>
    BY <1>7, CommentsTable
  <2>3. QED
    BY <1>7, <2>1, <2>2 DEF Shut, Open, Hidden
<1>8. /\ p = "text" => k \notin {">", "-->"}
      /\ p = "tag" => k \notin {"<", "<!--", "-->"}
  BY PlacesTable
<1>9. QED
  BY <1>1, <1>2, <1>3, <1>4, <1>5, <1>6, <1>7, <1>8

\* Where the one pass has not given up, the two scans have left the same text.
LEMMA TwoScans ==
  ASSUME NEW d \in Seq(Alphabet), Place(Places, "text", d) # "broken"
  PROVE  StripTags(StripComments(d), Space) = Wrote(Places, "text", d)
<1> DEFINE t == Tags(Space)
           c(x) == Wrote(Comments, "text", x)
           p(x) == Place(Places, "text", x)
           Kept(x) == /\ p(x) \in {"text", "tag", "comment"}
                      /\ Place(Comments, "text", x) = Shut(p(x))
                      /\ c(x) \in Seq(Alphabet)
                      /\ Place(t, "text", c(x)) = Open(p(x))
                      /\ Wrote(t, "text", c(x)) = Wrote(Places, "text", x)
                      /\ Wrote(Places, "text", x) \in Seq(Alphabet)
           T == {x \in Seq(Alphabet) : p(x) # "broken" => Kept(x)}
<1>1. << >> \in T
  BY ScanEmpty, EmptySeq DEF Shut, Open
<1>2. ASSUME NEW x \in Seq(Alphabet), NEW k \in Alphabet, x \in T, p(Append(x, k)) # "broken"
      PROVE  Kept(Append(x, k))
  <2>1. p(Append(x, k)) = Goes(Places, p(x), k)
    BY ScanAppend
  <2>2. p(x) # "broken"
    BY <1>2, <2>1, PlacesTable
  <2>3. Kept(x)
    BY <1>2, <2>2
  <2> DEFINE q == p(x)
             w == Wrote(Places, "text", x)
             y == Append(x, k)
  <2>4. q \in {"text", "tag", "comment"} /\ c(x) \in Seq(Alphabet) /\ w \in Seq(Alphabet)
    BY <2>3
  <2>5. Place(Comments, "text", x) = Shut(q) /\ Place(t, "text", c(x)) = Open(q) /\ Wrote(t, "text", c(x)) = w
    BY <2>3
  <2>6. Wrote(Places, "text", y) = w \o Puts(Places, q, k)
    BY ScanAppend
  <2>7. Place(Comments, "text", y) = Goes(Comments, Shut(q), k) /\ c(y) = c(x) \o Puts(Comments, Shut(q), k)
    BY <2>5, ScanAppend
  <2>8. Place(t, "text", Append(c(x), k)) = Goes(t, Open(q), k)
    <3> HIDE DEF c, t, q, w
    <3>1. QED
      BY <2>4, <2>5, ScanAppend
  <2>9. Wrote(t, "text", Append(c(x), k)) = w \o Puts(t, Open(q), k)
    <3> HIDE DEF c, t, q, w
    <3>1. Wrote(t, "text", Append(c(x), k)) = Wrote(t, "text", c(x)) \o Puts(t, Place(t, "text", c(x)), k)
      BY <2>4, ScanAppend
    <3>2. QED
      BY <2>5, <3>1
  <2>10. /\ p(y) = Goes(Places, q, k) /\ p(y) \in {"text", "tag", "comment"}
         /\ Goes(Comments, Shut(q), k) = Shut(p(y))
         /\ Through(q, k) \/ Hidden(q, k)
         /\ Puts(Places, q, k) = << >> \/ Puts(Places, q, k) = One(k) \/ Puts(Places, q, k) = Space
    <3>1. Goes(Places, q, k) # "broken"
      BY <1>2, <2>1
    <3>2. p(y) = Goes(Places, q, k)
      BY <2>1
    <3> HIDE DEF p, q
    <3>3. QED
      BY <2>4, <3>1, <3>2, OnePass
  <2>11. /\ c(x) \o << >> = c(x) /\ c(x) \o One(k) = Append(c(x), k) /\ Append(c(x), k) \in Seq(Alphabet)
         /\ w \o << >> = w
    <3> HIDE DEF c, w
    <3>1. QED
      BY <2>4, AfterText, AppendProperties
  <2>12. w \o Puts(Places, q, k) \in Seq(Alphabet)
    <3> HIDE DEF w, q
    <3>1. " " \in Alphabet
      BY DEF Alphabet, Marks
    <3>2. Space \in Seq(Alphabet) /\ One(k) \in Seq(Alphabet) /\ << >> \in Seq(Alphabet)
      BY <3>1, ShortTyped DEF Space
    <3>3. Puts(Places, q, k) \in Seq(Alphabet)
      BY <2>10, <3>2
    <3>4. QED
      BY <2>4, <3>3, ConcatProperties
  <2>13. CASE Through(q, k)
    <3>1. c(y) = Append(c(x), k)
      BY <2>7, <2>11, <2>13 DEF Through
    <3>2. QED
      BY <2>6, <2>7, <2>8, <2>9, <2>10, <2>11, <2>12, <2>13, <3>1 DEF Through
  <2>14. CASE Hidden(q, k)
    <3>1. c(y) = c(x)
      BY <2>7, <2>11, <2>14 DEF Hidden
    <3>2. QED
      BY <2>4, <2>5, <2>6, <2>7, <2>10, <2>11, <2>12, <2>14, <3>1 DEF Hidden
  <2>15. QED
    BY <2>10, <2>13, <2>14
<1>3. d \in T
  <2>1. \A x \in Seq(Alphabet), k \in Alphabet : x \in T => Append(x, k) \in T
    BY <1>2, AppendProperties
  <2> HIDE DEF T
  <2>2. QED
    BY <1>1, <2>1, TextInduction
<1>4. QED
  BY <1>3 DEF StripTags, StripComments, Wrote

\* WordsKept, for texts of any length: of a well-formed document, the restore
\* writes the text that is in no tag and in no comment (strip_html_document).
THEOREM DocumentTextKept == Spec => []WordsKept
<1>1. OfPieces => WordsKept
  <2> SUFFICES ASSUME OfPieces, WellFormed(doc)
               PROVE  Strip(doc) = Squeeze(Decode(Content(doc)))
    BY DEF WordsKept
  <2>1. Place(Places, "text", doc) # "broken"
    BY DEF WellFormed, Place
  <2>2. StripTags(StripComments(doc), Space) = Content(doc)
    BY <2>1, TwoScans DEF OfPieces, Content, Wrote
  <2>3. QED
    BY <2>2 DEF Strip, Space, One
<1>2. QED
  BY <1>1, TextType, PTL

-----------------------------------------------------------------------------
(***************************************************************************)
(* DecodesOnce.                                                            *)
(***************************************************************************)
\* What a replacement of the entity name by x makes of a, the writing of a
\* piece.
Becomes(name, x, a, b) ==
  \/ \E y \in NoAmp : a = One(y) /\ b = One(y)
  \/ \E y \in NoAmp \ {name} : a = Two("&", y) /\ b = Two("&", y)
  \/ a = Two("&", name) /\ b = One(x)

\* The scan t has written w for e, and is ready for what comes next.
Ready(t, e, w) ==
  /\ e \in Seq(Alphabet) /\ Place(t, "text", e) = "text"
  /\ Wrote(t, "text", e) = w /\ w \in Seq(Alphabet)

\* The replacement takes the writing of a piece, and is ready for the next one.
LEMMA BlockReplaced ==
  ASSUME NEW name \in NoAmp, NEW x \in Alphabet, NEW e, NEW w, NEW a, NEW b,
         Becomes(name, x, a, b), Ready(Names(name, x), e, w)
  PROVE  Ready(Names(name, x), e \o a, w \o b)
<1> DEFINE t == Names(name, x)
           f == Append(e, "&")
           W == Seq(Alphabet)
<1>1. name \in Alphabet /\ name # "&" /\ "&" \in Alphabet
  BY DEF NoAmp, Alphabet, Marks
<1>2. e \in W /\ Place(t, "text", e) = "text" /\ Wrote(t, "text", e) = w /\ w \in W
  BY DEF Ready
<1>3. Goes(t, "text", "&") = "amp" /\ Puts(t, "text", "&") = << >>
  BY <1>1, NamesTable
<1>4. ASSUME NEW y \in NoAmp
      PROVE  /\ y \in Alphabet
             /\ Goes(t, "text", y) = "text" /\ Puts(t, "text", y) = One(y)
             /\ y = name => Goes(t, "amp", y) = "text" /\ Puts(t, "amp", y) = One(x)
             /\ y # name => Goes(t, "amp", y) = "text" /\ Puts(t, "amp", y) = Two("&", y)
  <2>1. y \in Alphabet /\ y # "&"
    BY DEF NoAmp
  <2>2. QED
    BY <1>1, <2>1, NamesTable
<1> HIDE DEF t
<1>5. f \in W /\ Place(t, "text", f) = "amp" /\ Wrote(t, "text", f) = w
  <2>1. Place(t, "text", f) = Goes(t, "text", "&")
    BY <1>1, <1>2, ScanAppend
  <2>2. Wrote(t, "text", f) = w \o Puts(t, "text", "&")
    <3>1. e \in Seq(Alphabet) /\ "&" \in Alphabet
      BY <1>1, <1>2
    <3>2. Wrote(t, "text", f) = Wrote(t, "text", e) \o Puts(t, Place(t, "text", e), "&")
      BY <3>1, ScanAppend
    <3>3. QED
      BY <1>2, <3>2
  <2>3. w \o << >> = w
    BY <1>2, AfterText, <1>1
  <2>4. QED
    BY <1>1, <1>2, <1>3, <2>1, <2>2, <2>3, AppendProperties
<1> DEFINE Done(u, v) == /\ e \o u \in W /\ Place(t, "text", e \o u) = "text"
                        /\ Wrote(t, "text", e \o u) = w \o v /\ w \o v \in W
<1>6. ASSUME NEW y \in NoAmp
      PROVE  Done(One(y), One(y))
  <2>1. e \o One(y) = Append(e, y) /\ w \o One(y) = Append(w, y)
    <3>1. QED
      BY <1>1, <1>2, <1>4, AfterText
  <2>2. Place(t, "text", Append(e, y)) = "text"
    BY <1>2, <1>4, ScanAppend
  <2>3. Wrote(t, "text", Append(e, y)) = w \o One(y)
    <3>1. e \in Seq(Alphabet) /\ y \in Alphabet
      BY <1>1, <1>2, <1>4
    <3>2. Wrote(t, "text", Append(e, y)) = Wrote(t, "text", e) \o Puts(t, Place(t, "text", e), y)
      BY <3>1, ScanAppend
    <3>3. QED
      BY <1>2, <1>4, <3>2
  <2>4. Append(e, y) \in W /\ Append(w, y) \in W
    BY <1>2, <1>4, AppendProperties
  <2>5. QED
    <3>1. QED
      BY <2>1, <2>2, <2>3, <2>4, Zenon
<1>7. ASSUME NEW y \in NoAmp
      PROVE  /\ e \o Two("&", y) = Append(f, y) /\ Append(f, y) \in W
             /\ Place(t, "text", Append(f, y)) = "text"
             /\ Wrote(t, "text", Append(f, y)) = w \o Puts(t, "amp", y)
  <2>1. e \o Two("&", y) = Append(Append(e, "&"), y)
    BY <1>1, <1>2, <1>4, AfterText, Zenon
  <2>2. Place(t, "text", Append(f, y)) = "text"
    <3> HIDE DEF f
    <3>1. QED
      BY <1>4, <1>5, ScanAppend
  <2>3. Wrote(t, "text", Append(f, y)) = w \o Puts(t, "amp", y)
    <3> HIDE DEF f
    <3>1. f \in Seq(Alphabet) /\ y \in Alphabet
      BY <1>4, <1>5
    <3>2. Wrote(t, "text", Append(f, y)) = Wrote(t, "text", f) \o Puts(t, Place(t, "text", f), y)
      BY <3>1, ScanAppend
    <3>3. QED
      BY <1>5, <3>2
  <2>4. Append(f, y) \in W
    BY <1>4, <1>5, AppendProperties
  <2>5. QED
    BY <2>1, <2>2, <2>3, <2>4, Zenon
<1>8. ASSUME NEW y \in NoAmp \ {name}
      PROVE  Done(Two("&", y), Two("&", y))
  <2>1. w \o Two("&", y) \in W
    <3>1. Two("&", y) \in W
      BY <1>1, <1>4, ShortTyped
    <3>2. QED
      BY <1>2, <3>1, ConcatProperties
  <2>2. Puts(t, "amp", y) = Two("&", y)
    BY <1>4
  <2>3. QED
    <3> HIDE DEF f, W
    <3>1. QED
      BY <1>7, <2>1, <2>2, Zenon
<1>9. Done(Two("&", name), One(x))
  <2>1. w \o One(x) \in W
    <3>1. One(x) \in W
      BY ShortTyped
    <3>2. QED
      BY <1>2, <3>1, ConcatProperties
  <2>2. Puts(t, "amp", name) = One(x)
    BY <1>4
  <2>3. QED
    <3> HIDE DEF f, W
    <3>1. QED
      BY <1>7, <2>1, <2>2, Zenon
<1>10. Done(a, b)
  <2> HIDE DEF Done
  <2>1. QED
    BY <1>6, <1>8, <1>9, Zenon DEF Becomes
<1>11. QED
  BY <1>10 DEF t, Ready

\* So a replacement does for a whole text what it does piece by piece.
LEMMA TextReplaced ==
  ASSUME NEW name \in NoAmp, NEW x \in Alphabet, NEW d \in Seq(Alphabet),
         NEW of \in [Alphabet -> Seq(Alphabet)], NEW to \in [Alphabet -> Seq(Alphabet)],
         \A k \in Alphabet : Becomes(name, x, of[k], to[k])
  PROVE  Replace(Each(of, d), name, x) = Each(to, d)
<1> DEFINE t == Names(name, x)
           Done(y) == Ready(t, Each(of, y), Each(to, y))
           T == {y \in Seq(Alphabet) : Done(y)}
<1>1. << >> \in Seq(Alphabet) /\ Each(of, << >>) = << >> /\ Each(to, << >>) = << >>
  BY EachAppend, EmptySeq
<1>2. << >> \in T
  <2> HIDE DEF t
  <2>1. QED
    BY <1>1, ScanEmpty DEF Ready
<1>3. ASSUME NEW y \in Seq(Alphabet), NEW k \in Alphabet, Done(y)
      PROVE  Done(Append(y, k))
  <2> DEFINE e == Each(of, y)
             w == Each(to, y)
             a == of[k]
             b == to[k]
  <2>1. Each(of, Append(y, k)) = e \o a /\ Each(to, Append(y, k)) = w \o b
    BY EachAppend
  <2>2. Becomes(name, x, a, b) /\ Ready(t, e, w)
    BY <1>3
  <2>3. Ready(t, e \o a, w \o b)
    <3> HIDE DEF e, w, a, b
    <3>1. QED
      BY <2>2, BlockReplaced
  <2>4. QED
    BY <2>1, <2>3, Zenon
<1>4. d \in T
  <2> HIDE DEF Done
  <2>1. \A y \in Seq(Alphabet), k \in Alphabet : y \in T => Append(y, k) \in T
    BY <1>3, AppendProperties
  <2> HIDE DEF T
  <2>2. QED
    BY <1>2, <2>1, TextInduction
<1>5. QED
  <2>1. Ready(t, Each(of, d), Each(to, d))
    BY <1>4
  <2>2. QED
    BY <2>1 DEF Ready, Replace, Place, Wrote

\* What HTML writes for a piece that it escapes, and for the others.
Name(k) ==
  CASE k = "&" -> "amp;"
    [] k = "<" -> "lt;"
    [] k = ">" -> "gt;"

\* A text with the pieces of S escaped, piece by piece.
Escaped(S) == [k \in Alphabet |-> IF k \in S THEN Two("&", Name(k)) ELSE One(k)]

\* Each of them gets a name of its own, that is not an ampersand.
LEMMA EscapedTyped ==
  ASSUME NEW S \in SUBSET {"&", "<", ">"}
  PROVE  /\ Escaped(S) \in [Alphabet -> Seq(Alphabet)]
         /\ \A k \in Alphabet : Escaped(S)[k] = IF k \in S THEN Two("&", Name(k)) ELSE One(k)
         /\ \A k \in S : Name(k) \in NoAmp \ {"nbsp;"} /\ k \in Alphabet
         /\ \A j, k \in S : Name(j) = Name(k) => j = k
<1>1. \A k \in S : Name(k) \in NoAmp \ {"nbsp;"} /\ k \in Alphabet
  BY DEF Name, NoAmp, Alphabet, Marks
<1>2. \A j, k \in S : Name(j) = Name(k) => j = k
  BY DEF Name
<1>3. ASSUME NEW k \in Alphabet
      PROVE  (IF k \in S THEN Two("&", Name(k)) ELSE One(k)) \in Seq(Alphabet)
  <2>1. "&" \in Alphabet /\ One(k) \in Seq(Alphabet)
    BY ShortTyped DEF Alphabet, Marks
  <2>2. CASE k \in S
    <3>1. Name(k) \in Alphabet
      BY <1>1, <2>2 DEF NoAmp
    <3>2. Two("&", Name(k)) \in Seq(Alphabet)
      BY <2>1, <3>1, ShortTyped
    <3>3. QED
      BY <2>2, <3>2
  <2>3. CASE k \notin S
    BY <2>1, <2>3
  <2>4. QED
    BY <2>2, <2>3
<1>4. QED
  <2> DEFINE W == Seq(Alphabet)
  <2> HIDE DEF W
  <2>1. Escaped(S) \in [Alphabet -> W]
    BY <1>3 DEF Escaped, W
  <2>2. \A k \in Alphabet : Escaped(S)[k] = IF k \in S THEN Two("&", Name(k)) ELSE One(k)
    BY DEF Escaped
  <2>3. QED
    BY <1>1, <1>2, <2>1, <2>2 DEF W

\* One replacement takes one escape back.
LEMMA Unescaped ==
  ASSUME NEW S \in SUBSET {"&", "<", ">"}, "&" \in S, NEW d \in Seq(Alphabet), NEW x \in S
  PROVE  Replace(Each(Escaped(S), d), Name(x), x) = Each(Escaped(S \ {x}), d)
<1> DEFINE of == Escaped(S)
           to == Escaped(S \ {x})
<1>1. ASSUME NEW k \in Alphabet
      PROVE  Becomes(Name(x), x, of[k], to[k])
  <2>1. CASE k = x
    <3>1. of[k] = Two("&", Name(x)) /\ to[k] = One(x)
      BY <2>1, EscapedTyped
    <3>2. QED
      BY <3>1 DEF Becomes
  <2>2. CASE k \in S /\ k # x
    <3>1. of[k] = Two("&", Name(k)) /\ to[k] = Two("&", Name(k))
      <4>1. of[k] = IF k \in S THEN Two("&", Name(k)) ELSE One(k)
        BY EscapedTyped
      <4>2. to[k] = IF k \in S \ {x} THEN Two("&", Name(k)) ELSE One(k)
        BY EscapedTyped
      <4>3. QED
        BY <2>2, <4>1, <4>2
    <3>2. Name(k) \in NoAmp \ {Name(x)}
      BY <2>2, EscapedTyped
    <3>3. QED
      BY <3>1, <3>2 DEF Becomes
  <2>3. CASE k \notin S
    <3>1. of[k] = One(k) /\ to[k] = One(k)
      BY <2>3, EscapedTyped
    <3>2. k \in NoAmp
      BY <2>3 DEF NoAmp
    <3>3. QED
      BY <3>1, <3>2 DEF Becomes
  <2>4. QED
    BY <2>1, <2>2, <2>3
<1>2. of \in [Alphabet -> Seq(Alphabet)] /\ to \in [Alphabet -> Seq(Alphabet)]
  BY EscapedTyped
<1>3. Name(x) \in NoAmp /\ x \in Alphabet
  BY EscapedTyped
<1>4. QED
  <2> HIDE DEF of, to
  <2>1. Replace(Each(of, d), Name(x), x) = Each(to, d)
    BY <1>1, <1>2, <1>3, TextReplaced
  <2>2. QED
    BY <2>1 DEF of, to

\* The replacement of another entity finds nothing in an escaped text.
LEMMA NoneEscaped ==
  ASSUME NEW S \in SUBSET {"&", "<", ">"}, "&" \in S, NEW d \in Seq(Alphabet),
         NEW name \in NoAmp, NEW x \in Alphabet, \A k \in S : Name(k) # name
  PROVE  Replace(Each(Escaped(S), d), name, x) = Each(Escaped(S), d)
<1> DEFINE of == Escaped(S)
<1>1. ASSUME NEW k \in Alphabet
      PROVE  Becomes(name, x, of[k], of[k])
  <2>1. CASE k \in S
    <3>1. of[k] = Two("&", Name(k)) /\ Name(k) \in NoAmp \ {name}
      BY <2>1, EscapedTyped
    <3>2. QED
      BY <3>1 DEF Becomes
  <2>2. CASE k \notin S
    <3>1. of[k] = One(k) /\ k \in NoAmp
      BY <2>2, EscapedTyped DEF NoAmp
    <3>2. QED
      BY <3>1 DEF Becomes
  <2>3. QED
    BY <2>1, <2>2
<1>2. of \in [Alphabet -> Seq(Alphabet)]
  BY EscapedTyped
<1>3. QED
  <2> HIDE DEF of
  <2>1. Replace(Each(of, d), name, x) = Each(of, d)
    BY <1>1, <1>2, TextReplaced
  <2>2. QED
    BY <2>1 DEF of

\* What is written piece by piece as it is, is the text.
LEMMA NothingEscaped ==
  ASSUME NEW d \in Seq(Alphabet)
  PROVE  Each(Escaped({}), d) = d
<1> DEFINE of == Escaped({})
           T == {y \in Seq(Alphabet) : Each(of, y) = y}
<1>1. of \in [Alphabet -> Seq(Alphabet)] /\ \A k \in Alphabet : of[k] = One(k)
  BY EscapedTyped
<1> HIDE DEF of
<1>2. << >> \in T
  BY <1>1, EachAppend, EmptySeq
<1>3. ASSUME NEW y \in Seq(Alphabet), NEW k \in Alphabet, Each(of, y) = y
      PROVE  Each(of, Append(y, k)) = Append(y, k)
  <2>1. Each(of, Append(y, k)) = Each(of, y) \o of[k]
    BY <1>1, EachAppend
  <2>2. y \o One(k) = Append(y, k)
    BY AfterText
  <2>3. QED
    BY <1>1, <1>3, <2>1, <2>2
<1>4. d \in T
  <2>1. \A y \in Seq(Alphabet), k \in Alphabet : y \in T => Append(y, k) \in T
    BY <1>3, AppendProperties
  <2> HIDE DEF T
  <2>2. QED
    BY <1>2, <2>1, TextInduction
<1>5. QED
  BY <1>4 DEF of

\* DecodesOnce, for texts of any length: the entities of an escaped text come
\* back as what was escaped, and what only spells an entity stays
\* (decode_basic_html_entities).
THEOREM EscapesDecodeOnce == Spec => []DecodesOnce
<1>1. OfPieces => DecodesOnce
  <2> SUFFICES ASSUME OfPieces
               PROVE  Decode(Encode(doc)) = doc
    BY DEF DecodesOnce
  <2> DEFINE e(S) == Each(Escaped(S), doc)
  <2>1. doc \in Seq(Alphabet)
    BY DEF OfPieces
  <2>2. Encode(doc) = e({"&", "<", ">"})
    BY DEF Encode, Escaped, Name, One, Two
  <2>3. Replace(e({"&", "<", ">"}), "nbsp;", " ") = e({"&", "<", ">"})
    <3>1. "nbsp;" \in NoAmp /\ " " \in Alphabet
      BY DEF NoAmp, Alphabet, Marks
    <3>2. \A k \in {"&", "<", ">"} : Name(k) # "nbsp;"
      BY EscapedTyped
    <3>3. QED
      BY <2>1, <3>1, <3>2, NoneEscaped
  <2>4. Replace(e({"&", "<", ">"}), "lt;", "<") = e({"&", ">"})
    <3>1. {"&", "<", ">"} \ {"<"} = {"&", ">"} /\ Name("<") = "lt;"
      BY DEF Name
    <3>2. QED
      BY <2>1, <3>1, Unescaped
  <2>5. Replace(e({"&", ">"}), "gt;", ">") = e({"&"})
    <3>1. {"&", ">"} \ {">"} = {"&"} /\ Name(">") = "gt;"
      BY DEF Name
    <3>2. QED
      BY <2>1, <3>1, Unescaped
  <2>6. Replace(e({"&"}), "amp;", "&") = e({})
    <3>1. {"&"} \ {"&"} = {} /\ Name("&") = "amp;"
      BY DEF Name
    <3>2. QED
      BY <2>1, <3>1, Unescaped
  <2>7. e({}) = doc
    BY <2>1, NothingEscaped
  <2> HIDE DEF e
  <2>8. QED
    BY <2>2, <2>3, <2>4, <2>5, <2>6, <2>7, Zenon DEF Decode
<1>2. QED
  BY <1>1, TextType, PTL

-----------------------------------------------------------------------------
(***************************************************************************)
(* RanksByUse.                                                             *)
(***************************************************************************)
\* The codes of a written time: a fraction or the offset after the second, a
\* further group or the offset after a group.
LEMMA TextCodes ==
  ASSUME NEW t \in Nat \X Nat \X Nat \X Nat
  PROVE  /\ DOMAIN Text(t) = 1 .. Len(Text(t)) /\ Len(Text(t)) \in Nat
         /\ 2 <= Len(Text(t)) /\ Text(t)[1] = 48 + t[1]
         /\ t[2] = 0 /\ t[3] = 0 /\ t[4] = 0 => Text(t)[2] = 43
         /\ t[2] # 0 \/ t[3] # 0 \/ t[4] # 0 =>
              4 <= Len(Text(t)) /\ Text(t)[2] = 46 /\ Text(t)[3] = 48 + t[2]
         /\ t[2] # 0 /\ t[3] = 0 /\ t[4] = 0 => Text(t)[4] = 43
         /\ t[3] # 0 \/ t[4] # 0 => 5 <= Len(Text(t)) /\ Text(t)[4] = 48 + t[3]
         /\ t[3] # 0 /\ t[4] = 0 => Text(t)[5] = 43
         /\ t[4] # 0 => Text(t)[5] = 48 + t[4]
<1>1. CASE t[4] # 0
  <2>1. Text(t) = <<48 + t[1], 46, 48 + t[2], 48 + t[3], 48 + t[4], 43>>
    BY <1>1 DEF Text, Written, Group, Dot, Digit, Plus
  <2>2. /\ Len(Text(t)) = 6 /\ DOMAIN Text(t) = 1 .. 6
        /\ Text(t)[1] = 48 + t[1] /\ Text(t)[2] = 46 /\ Text(t)[3] = 48 + t[2] /\ Text(t)[4] = 48 + t[3] /\ Text(t)[5] = 48 + t[4] /\ Text(t)[6] = 43
    BY <2>1
  <2>3. QED
    BY <1>1, <2>2
<1>2. CASE t[4] = 0 /\ t[3] # 0
  <2>1. Text(t) = <<48 + t[1], 46, 48 + t[2], 48 + t[3], 43>>
    BY <1>2 DEF Text, Written, Group, Dot, Digit, Plus
  <2>2. /\ Len(Text(t)) = 5 /\ DOMAIN Text(t) = 1 .. 5
        /\ Text(t)[1] = 48 + t[1] /\ Text(t)[2] = 46 /\ Text(t)[3] = 48 + t[2] /\ Text(t)[4] = 48 + t[3] /\ Text(t)[5] = 43
    BY <2>1
  <2>3. QED
    BY <1>2, <2>2
<1>3. CASE t[4] = 0 /\ t[3] = 0 /\ t[2] # 0
  <2>1. Text(t) = <<48 + t[1], 46, 48 + t[2], 43>>
    BY <1>3 DEF Text, Written, Group, Dot, Digit, Plus
  <2>2. /\ Len(Text(t)) = 4 /\ DOMAIN Text(t) = 1 .. 4
        /\ Text(t)[1] = 48 + t[1] /\ Text(t)[2] = 46 /\ Text(t)[3] = 48 + t[2] /\ Text(t)[4] = 43
    BY <2>1
  <2>3. QED
    BY <1>3, <2>2
<1>4. CASE t[4] = 0 /\ t[3] = 0 /\ t[2] = 0
  <2>1. Text(t) = <<48 + t[1], 43>>
    BY <1>4 DEF Text, Written, Group, Dot, Digit, Plus
  <2>2. /\ Len(Text(t)) = 2 /\ DOMAIN Text(t) = 1 .. 2
        /\ Text(t)[1] = 48 + t[1] /\ Text(t)[2] = 43
    BY <2>1
  <2>3. QED
    BY <1>4, <2>2
<1>5. QED
  BY <1>1, <1>2, <1>3, <1>4

\* A difference at a place decides, when all before it agree.
LEMMA LessAt ==
  ASSUME NEW a, NEW b, NEW n \in DOMAIN a \cap DOMAIN b, a[n] < b[n], \A m \in 1 .. n - 1 : a[m] = b[m]
  PROVE  Less(a, b)
BY DEF Less

\* The texts of two times are ordered as the times are.
LEMMA TextsOrdered ==
  ASSUME NEW s \in Nat \X Nat \X Nat \X Nat, NEW t \in Nat \X Nat \X Nat \X Nat, Earlier(s, t)
  PROVE  Less(Text(s), Text(t))
<1> DEFINE a == Text(s)
           b == Text(t)
<1>1. PICK n \in 1 .. 4 : s[n] < t[n] /\ \A m \in 1 .. n - 1 : s[m] = t[m]
  BY DEF Earlier
<1>2. /\ s[1] \in Nat /\ s[2] \in Nat /\ s[3] \in Nat /\ s[4] \in Nat
      /\ t[1] \in Nat /\ t[2] \in Nat /\ t[3] \in Nat /\ t[4] \in Nat
  OBVIOUS
<1>3. /\ DOMAIN a = 1 .. Len(a) /\ Len(a) \in Nat
      /\ 2 <= Len(a) /\ a[1] = 48 + s[1]
      /\ s[2] = 0 /\ s[3] = 0 /\ s[4] = 0 => a[2] = 43
      /\ s[2] # 0 \/ s[3] # 0 \/ s[4] # 0 => 4 <= Len(a) /\ a[2] = 46 /\ a[3] = 48 + s[2]
      /\ s[2] # 0 /\ s[3] = 0 /\ s[4] = 0 => a[4] = 43
      /\ s[3] # 0 \/ s[4] # 0 => 5 <= Len(a) /\ a[4] = 48 + s[3]
      /\ s[3] # 0 /\ s[4] = 0 => a[5] = 43
      /\ s[4] # 0 => a[5] = 48 + s[4]
  BY TextCodes
<1>4. /\ DOMAIN b = 1 .. Len(b) /\ Len(b) \in Nat
      /\ 2 <= Len(b) /\ b[1] = 48 + t[1]
      /\ t[2] # 0 \/ t[3] # 0 \/ t[4] # 0 => 4 <= Len(b) /\ b[2] = 46 /\ b[3] = 48 + t[2]
      /\ t[3] # 0 \/ t[4] # 0 => 5 <= Len(b) /\ b[4] = 48 + t[3]
      /\ t[4] # 0 => b[5] = 48 + t[4]
  BY TextCodes
<1> HIDE DEF a, b
<1>5. CASE n = 1
  <2>1. 1 \in DOMAIN a \cap DOMAIN b /\ a[1] < b[1]
    BY <1>1, <1>2, <1>3, <1>4, <1>5, SMTT(30)
  <2>2. QED
    BY <2>1, LessAt DEF a, b
<1>6. CASE n # 1 /\ s[2] = 0 /\ s[3] = 0 /\ s[4] = 0
  <2>1. 2 \in DOMAIN a \cap DOMAIN b /\ a[2] < b[2] /\ a[1] = b[1]
    BY <1>1, <1>2, <1>3, <1>4, <1>6, SMTT(30)
  <2>2. QED
    BY <2>1, LessAt DEF a, b
<1>7. CASE n = 2 /\ ~(s[2] = 0 /\ s[3] = 0 /\ s[4] = 0)
  <2>1. 3 \in DOMAIN a \cap DOMAIN b /\ a[3] < b[3] /\ a[1] = b[1] /\ a[2] = b[2]
    BY <1>1, <1>2, <1>3, <1>4, <1>7, SMTT(30)
  <2>2. QED
    BY <2>1, LessAt DEF a, b
<1>8. CASE n \in {3, 4} /\ s[2] # 0 /\ s[3] = 0 /\ s[4] = 0
  <2>1. 4 \in DOMAIN a \cap DOMAIN b /\ a[4] < b[4] /\ a[1] = b[1] /\ a[2] = b[2] /\ a[3] = b[3]
    BY <1>1, <1>2, <1>3, <1>4, <1>8, SMTT(30)
  <2>2. QED
    BY <2>1, LessAt DEF a, b
<1>9. CASE n = 3 /\ ~(s[3] = 0 /\ s[4] = 0)
  <2>1. 4 \in DOMAIN a \cap DOMAIN b /\ a[4] < b[4] /\ a[1] = b[1] /\ a[2] = b[2] /\ a[3] = b[3]
    BY <1>1, <1>2, <1>3, <1>4, <1>9, SMTT(30)
  <2>2. QED
    BY <2>1, LessAt DEF a, b
<1>10. CASE n = 4 /\ ~(s[3] = 0 /\ s[4] = 0)
  <2>1. /\ 5 \in DOMAIN a \cap DOMAIN b /\ a[5] < b[5]
        /\ a[1] = b[1] /\ a[2] = b[2] /\ a[3] = b[3] /\ a[4] = b[4]
    BY <1>1, <1>2, <1>3, <1>4, <1>10, SMTT(30)
  <2>2. QED
    BY <2>1, LessAt DEF a, b
<1>11. QED
  BY <1>1, <1>5, <1>6, <1>7, <1>8, <1>9, <1>10

\* Of two texts, only one comes before the other.
LEMMA LessOneWay ==
  ASSUME NEW a \in Seq(Int), NEW b \in Seq(Int), Less(a, b)
  PROVE  ~Less(b, a)
<1> SUFFICES ASSUME Less(b, a)
             PROVE  FALSE
  OBVIOUS
<1>1. DOMAIN a = 1 .. Len(a) /\ DOMAIN b = 1 .. Len(b) /\ Len(a) \in Nat /\ Len(b) \in Nat
  OBVIOUS
<1>2. \A n \in DOMAIN a : a[n] \in Int
  OBVIOUS
<1>3. \A n \in DOMAIN b : b[n] \in Int
  OBVIOUS
<1>4. CASE \E n \in DOMAIN a \cap DOMAIN b : a[n] < b[n] /\ \A m \in 1 .. n - 1 : a[m] = b[m]
  <2>1. PICK n \in DOMAIN a \cap DOMAIN b : a[n] < b[n] /\ \A m \in 1 .. n - 1 : a[m] = b[m]
    BY <1>4
  <2>2. CASE \E k \in DOMAIN b \cap DOMAIN a : b[k] < a[k] /\ \A m \in 1 .. k - 1 : b[m] = a[m]
    <3>1. PICK k \in DOMAIN b \cap DOMAIN a : b[k] < a[k] /\ \A m \in 1 .. k - 1 : b[m] = a[m]
      BY <2>2
    <3>2. n < k \/ n = k \/ k < n
      BY <1>1
    <3>3. n \in Nat /\ n >= 1 /\ k \in Nat /\ k >= 1 /\ a[n] \in Int /\ b[n] \in Int /\ a[k] \in Int /\ b[k] \in Int
      BY <1>1, <1>2, <1>3, <2>1, <3>1
    <3>4. CASE n < k
      <4>1. n \in 1 .. k - 1
        BY <3>3, <3>4
      <4>2. QED
        BY <2>1, <3>1, <3>3, <4>1
    <3>5. CASE k < n
      <4>1. k \in 1 .. n - 1
        BY <3>3, <3>5
      <4>2. QED
        BY <2>1, <3>1, <3>3, <4>1
    <3>6. QED
      BY <2>1, <3>1, <3>2, <3>3, <3>4, <3>5
  <2>3. CASE Len(b) < Len(a) /\ \A m \in DOMAIN b : b[m] = a[m]
    BY <1>1, <1>2, <1>3, <2>1, <2>3
  <2>4. QED
    BY <2>2, <2>3 DEF Less
<1>5. CASE Len(a) < Len(b) /\ \A m \in DOMAIN a : a[m] = b[m]
  <2>1. ~(Len(b) < Len(a))
    BY <1>1, <1>5
  <2>2. QED
    BY <1>1, <1>2, <1>3, <1>5, <2>1 DEF Less
<1>6. QED
  BY <1>4, <1>5 DEF Less

\* Readings of the clock, and more.
Quads == Nat \X Nat \X Nat \X Nat

\* Times are in a strict order, and one of two comes first.
LEMMA EarlierOrder ==
  ASSUME NEW r \in Quads, NEW s \in Quads, NEW t \in Quads
  PROVE  /\ ~Earlier(s, s)
         /\ s = t \/ Earlier(s, t) \/ Earlier(t, s)
         /\ Earlier(r, s) /\ Earlier(s, t) => Earlier(r, t)
<1>1. /\ r[1] \in Nat /\ r[2] \in Nat /\ r[3] \in Nat /\ r[4] \in Nat
      /\ s[1] \in Nat /\ s[2] \in Nat /\ s[3] \in Nat /\ s[4] \in Nat
      /\ t[1] \in Nat /\ t[2] \in Nat /\ t[3] \in Nat /\ t[4] \in Nat
  BY DEF Quads
<1>2. \A x, y : Earlier(x, y) <=>
        \/ x[1] < y[1]
        \/ x[1] = y[1] /\ x[2] < y[2]
        \/ x[1] = y[1] /\ x[2] = y[2] /\ x[3] < y[3]
        \/ x[1] = y[1] /\ x[2] = y[2] /\ x[3] = y[3] /\ x[4] < y[4]
  <2> TAKE x, y
  <2>1. 1 .. 1 - 1 = {} /\ 1 .. 2 - 1 = {1} /\ 1 .. 3 - 1 = {1, 2} /\ 1 .. 4 - 1 = {1, 2, 3}
    OBVIOUS
  <2>2. 1 .. 4 = {1, 2, 3, 4}
    OBVIOUS
  <2>3. QED
    BY <2>1, <2>2, Zenon DEF Earlier
<1>3. ~Earlier(s, s)
  BY <1>1, <1>2
<1>4. s = t \/ Earlier(s, t) \/ Earlier(t, s)
  <2>1. s = <<s[1], s[2], s[3], s[4]>> /\ t = <<t[1], t[2], t[3], t[4]>>
    BY DEF Quads
  <2>2. QED
    BY <1>1, <1>2, <2>1
<1>5. Earlier(r, s) /\ Earlier(s, t) => Earlier(r, t)
  BY <1>1, <1>2
<1>6. QED
  BY <1>3, <1>4, <1>5

\* A written time is a text.
LEMMA TextTyped ==
  ASSUME NEW t \in Quads
  PROVE  Text(t) \in Seq(Int)
<1>1. t[1] \in Nat /\ t[2] \in Nat /\ t[3] \in Nat /\ t[4] \in Nat
  BY DEF Quads
<1>2. QED
  BY <1>1 DEF Text, Written, Group, Dot, Digit, Plus

\* The order of the texts is that of the times, both ways.
LEMMA TextOrder ==
  ASSUME NEW s \in Quads, NEW t \in Quads
  PROVE  Less(Text(s), Text(t)) <=> Earlier(s, t)
<1>1. Earlier(s, t) => Less(Text(s), Text(t))
  BY TextsOrdered DEF Quads
<1>2. ASSUME Less(Text(s), Text(t))
      PROVE  Earlier(s, t)
  <2>1. ~Less(Text(t), Text(s)) /\ s # t
    BY <1>2, TextTyped, LessOneWay
  <2>2. ~Earlier(t, s)
    BY <2>1, TextsOrdered DEF Quads
  <2>3. QED
    BY <2>1, <2>2, EarlierOrder
<1>3. QED
  BY <1>1, <1>2

\* The rows of the table.
Rows == [payload : Payload, pinned : BOOLEAN, favorite : BOOLEAN, deleted : BOOLEAN]

\* The inductive invariant: the rows have been written at times that the clock
\* has passed, no two at the same one.
StampInv ==
  /\ rows \in [Ids -> Rows \cup {NoRow}]
  /\ clock \in Times
  /\ stamp \in [Ids -> {NoStamp} \cup {Text(t) : t \in Times}]
  /\ \A id \in Ids : Has(id) => \E t \in Times : stamp[id] = Text(t) /\ ~Earlier(clock, t)
  /\ \A i, j \in Ids : Has(i) /\ Has(j) /\ stamp[i] = stamp[j] => i = j

\* Of the rows that have been written, the texts are in a strict order, and any
\* later time comes after them all.
LEMMA StampOrder ==
  ASSUME StampInv
  PROVE  /\ \A i \in Ids : Has(i) => ~Less(stamp[i], stamp[i])
         /\ \A i, j \in Ids : Has(i) /\ Has(j) /\ i # j =>
              Less(stamp[i], stamp[j]) \/ Less(stamp[j], stamp[i])
         /\ \A i, j, k \in Ids :
              /\ Has(i) /\ Has(j) /\ Has(k)
              /\ Less(stamp[i], stamp[j]) /\ Less(stamp[j], stamp[k])
              => Less(stamp[i], stamp[k])
         /\ \A t \in Times : Earlier(clock, t) =>
              /\ ~Less(Text(t), Text(t))
              /\ \A i \in Ids : Has(i) => Less(stamp[i], Text(t)) /\ ~Less(Text(t), stamp[i])
<1>1. Times \subseteq Quads /\ clock \in Quads
  BY TimesAssumption DEF Quads, StampInv
<1>2. \A i \in Ids : Has(i) => \E r \in Quads : stamp[i] = Text(r) /\ ~Earlier(clock, r)
  BY <1>1 DEF StampInv
<1>3. ASSUME NEW i \in Ids, Has(i)
      PROVE  ~Less(stamp[i], stamp[i])
  <2>1. PICK r \in Quads : stamp[i] = Text(r)
    BY <1>2, <1>3
  <2>2. QED
    BY <2>1, TextOrder, EarlierOrder
<1>4. ASSUME NEW i \in Ids, NEW j \in Ids, Has(i), Has(j), i # j
      PROVE  Less(stamp[i], stamp[j]) \/ Less(stamp[j], stamp[i])
  <2>1. PICK r \in Quads : stamp[i] = Text(r)
    BY <1>2, <1>4
  <2>2. PICK s \in Quads : stamp[j] = Text(s)
    BY <1>2, <1>4
  <2>3. stamp[i] # stamp[j]
    BY <1>4 DEF StampInv
  <2>4. r # s
    BY <2>1, <2>2, <2>3
  <2>5. Earlier(r, s) \/ Earlier(s, r)
    BY <2>4, EarlierOrder
  <2>6. QED
    BY <2>1, <2>2, <2>5, TextOrder
<1>5. ASSUME NEW i \in Ids, NEW j \in Ids, NEW k \in Ids, Has(i), Has(j), Has(k),
             Less(stamp[i], stamp[j]), Less(stamp[j], stamp[k])
      PROVE  Less(stamp[i], stamp[k])
  <2>1. PICK r \in Quads : stamp[i] = Text(r)
    BY <1>2, <1>5
  <2>2. PICK s \in Quads : stamp[j] = Text(s)
    BY <1>2, <1>5
  <2>3. PICK t \in Quads : stamp[k] = Text(t)
    BY <1>2, <1>5
  <2>4. Earlier(r, s) /\ Earlier(s, t)
    BY <1>5, <2>1, <2>2, <2>3, TextOrder
  <2>5. Earlier(r, t)
    BY <2>4, EarlierOrder
  <2>6. QED
    BY <2>1, <2>3, <2>5, TextOrder
<1>6. ASSUME NEW t \in Times, Earlier(clock, t)
      PROVE  /\ ~Less(Text(t), Text(t))
             /\ \A i \in Ids : Has(i) => Less(stamp[i], Text(t)) /\ ~Less(Text(t), stamp[i])
  <2>1. t \in Quads
    BY <1>1
  <2>2. ~Less(Text(t), Text(t))
    BY <2>1, TextOrder, EarlierOrder
  <2>3. ASSUME NEW i \in Ids, Has(i)
        PROVE  Less(stamp[i], Text(t)) /\ ~Less(Text(t), stamp[i])
    <3>1. PICK r \in Quads : stamp[i] = Text(r) /\ ~Earlier(clock, r)
      BY <1>2, <2>3
    <3>2. Earlier(r, t) /\ ~Earlier(t, r)
      <4>1. r = clock \/ Earlier(r, clock)
        BY <1>1, <3>1, EarlierOrder
      <4>2. Earlier(r, t)
        BY <1>1, <1>6, <2>1, <4>1, EarlierOrder
      <4>3. Earlier(t, r) => Earlier(r, r)
        BY <2>1, <4>2, EarlierOrder
      <4>4. QED
        BY <4>2, <4>3, EarlierOrder
    <3>3. QED
      BY <2>1, <3>1, <3>2, TextOrder
  <2>4. QED
    BY <2>2, <2>3
<1>7. QED
  BY <1>3, <1>4, <1>5, <1>6

\* The rows used later than row i.
Ahead(i) == {j \in Ids : Has(j) /\ Less(stamp[i], stamp[j])}

\* A row that is written at a later time becomes the first, and the rows that
\* were before it move down one: what Repository says of a use.
LEMMA WriteTouches ==
  ASSUME StampInv, NEW id \in Ids, NEW t \in Times, Earlier(clock, t),
         stamp' = [stamp EXCEPT ![id] = Text(t)],
         \A j \in Ids : Has(j)' <=> Has(j) \/ j = id
  PROVE  R!Touch(id)
<1>1. stamp'[id] = Text(t) /\ \A j \in Ids \ {id} : stamp'[j] = stamp[j]
  BY DEF StampInv
<1>2. \A i \in Ids : IsFiniteSet(Ahead(i)) /\ Cardinality(Ahead(i)) \in Nat
  BY FS_Subset, FS_CardinalityType, TypesAssumption DEF Ahead, TypesAssumption
<1>3. Ahead(id)' = {}
  BY <1>1, StampOrder DEF Ahead
<1>4. \A j \in Ids \ {id} : Has(j) => Ahead(j)' = Ahead(j) \cup {id}
  BY <1>1, StampOrder DEF Ahead
<1>5. Ranks' = [i \in Ids |-> IF Has(i)' THEN 1 + Cardinality(Ahead(i)') ELSE 0]
  BY DEF Ranks, Ahead, Has
<1>6. \A i \in Ids : Ranks[i] = IF Has(i) THEN 1 + Cardinality(Ahead(i)) ELSE 0
  BY DEF Ranks, Ahead
<1>7. 1 + Cardinality(Ahead(id)') = 1
  BY <1>3, FS_EmptySet
<1>8. ASSUME NEW j \in Ids \ {id}, Has(j)
      PROVE  Cardinality(Ahead(j)') =
               IF ~Has(id) \/ Ranks[j] < Ranks[id] THEN Cardinality(Ahead(j)) + 1 ELSE Cardinality(Ahead(j))
  <2>1. Cardinality(Ahead(j)') = IF id \in Ahead(j) THEN Cardinality(Ahead(j)) ELSE Cardinality(Ahead(j)) + 1
    BY <1>2, <1>4, <1>8, FS_AddElement
  <2>2. CASE id \in Ahead(j)
    <3>1. Has(id) /\ Less(stamp[j], stamp[id])
      BY <2>2 DEF Ahead
    <3>2. Ahead(id) \subseteq Ahead(j)
      BY <1>8, <3>1, StampOrder DEF Ahead
    <3>3. Cardinality(Ahead(id)) <= Cardinality(Ahead(j))
      BY <1>2, <3>2, FS_Subset
    <3>4. ~(Ranks[j] < Ranks[id])
      BY <1>2, <1>6, <1>8, <3>1, <3>3
    <3>5. QED
      BY <2>1, <2>2, <3>1, <3>4
  <2>3. CASE id \notin Ahead(j) /\ Has(id)
    <3>1. Less(stamp[id], stamp[j]) /\ ~Less(stamp[j], stamp[j])
      BY <1>8, <2>3, StampOrder DEF Ahead
    <3>2. Ahead(j) \subseteq Ahead(id) /\ j \in Ahead(id) /\ j \notin Ahead(j)
      BY <1>8, <2>3, <3>1, StampOrder DEF Ahead
    <3>3. Cardinality(Ahead(j)) < Cardinality(Ahead(id))
      BY <1>2, <3>2, FS_Subset
    <3>4. Ranks[j] < Ranks[id]
      BY <1>2, <1>6, <1>8, <2>3, <3>3
    <3>5. QED
      BY <2>1, <2>3, <3>4
  <2>4. CASE ~Has(id)
    <3>1. id \notin Ahead(j)
      BY <2>4 DEF Ahead
    <3>2. QED
      BY <2>1, <2>4, <3>1
  <2>5. QED
    BY <2>2, <2>3, <2>4
<1>9. Ranks' = [j \in Ids |->
                  IF j = id THEN 1
                  ELSE IF Has(j) /\ (~Has(id) \/ Ranks[j] < Ranks[id]) THEN Ranks[j] + 1 ELSE Ranks[j]]
  <2> DEFINE new(j) == IF Has(j)' THEN 1 + Cardinality(Ahead(j)') ELSE 0
             old(j) == IF j = id THEN 1
                       ELSE IF Has(j) /\ (~Has(id) \/ Ranks[j] < Ranks[id]) THEN Ranks[j] + 1 ELSE Ranks[j]
  <2>1. ASSUME NEW j \in Ids
        PROVE  new(j) = old(j)
    <3>1. CASE j = id
      BY <1>7, <3>1
    <3>2. CASE j # id /\ Has(j)
      BY <1>2, <1>6, <1>8, <3>2
    <3>3. CASE j # id /\ ~Has(j)
      BY <1>6, <3>3
    <3>4. QED
      BY <3>1, <3>2, <3>3
  <2> HIDE DEF new, old
  <2>2. [j \in Ids |-> new(j)] = [j \in Ids |-> old(j)]
    BY <2>1
  <2>3. QED
    BY <1>5, <2>2 DEF new, old
<1>10. QED
  BY <1>9 DEF R!Touch, R!Stored, Has

\* Such a write keeps the invariant.
LEMMA WriteKeepsStamps ==
  ASSUME StampInv, NEW id \in Ids, NEW t \in Times, Now(t), NEW r \in Rows,
         rows' = [rows EXCEPT ![id] = r], stamp' = [stamp EXCEPT ![id] = Text(t)]
  PROVE  StampInv' /\ R!Touch(id)
<1>1. Earlier(clock, t) /\ clock' = t
  BY DEF Now
<1>2. r # NoRow
  BY TimesAssumption DEF Rows
<1>3. rows' \in [Ids -> Rows \cup {NoRow}] /\ \A j \in Ids : rows'[j] = IF j = id THEN r ELSE rows[j]
  BY DEF StampInv, Rows
<1>4. \A j \in Ids : Has(j)' <=> Has(j) \/ j = id
  BY <1>2, <1>3 DEF Has
<1>5. R!Touch(id)
  BY <1>1, <1>4, WriteTouches
<1>6. /\ stamp' \in [Ids -> {NoStamp} \cup {Text(s) : s \in Times}]
      /\ stamp'[id] = Text(t) /\ \A j \in Ids \ {id} : stamp'[j] = stamp[j]
  BY DEF StampInv
<1>7. Times \subseteq Quads /\ clock \in Times
  BY TimesAssumption DEF Quads, StampInv
<1>8. ASSUME NEW j \in Ids, Has(j)'
      PROVE  \E s \in Times : stamp'[j] = Text(s) /\ ~Earlier(t, s)
  <2>1. CASE j = id
    BY <1>6, <1>7, <2>1, EarlierOrder
  <2>2. CASE j # id
    <3>1. PICK s \in Times : stamp[j] = Text(s) /\ ~Earlier(clock, s)
      BY <1>4, <1>8, <2>2 DEF StampInv
    <3>2. Earlier(t, s) => Earlier(clock, s)
      BY <1>1, <1>7, EarlierOrder
    <3>3. QED
      BY <1>6, <2>2, <3>1, <3>2
  <2>3. QED
    BY <2>1, <2>2
<1>9. ASSUME NEW i \in Ids, NEW j \in Ids, Has(i)', Has(j)', stamp'[i] = stamp'[j]
      PROVE  i = j
  <2>1. \A k \in Ids : Has(k) => stamp[k] # Text(t)
    BY <1>1, StampOrder
  <2>2. QED
    BY <1>4, <1>6, <1>9, <2>1 DEF StampInv
<1>10. StampInv'
  BY <1>1, <1>3, <1>6, <1>8, <1>9 DEF StampInv, Rows
<1>11. QED
  BY <1>5, <1>10

\* Every statement keeps the invariant and is one of Repository.
LEMMA StatementIsRepository ==
  ASSUME StampInv, [TimesNext]_tvars
  PROVE  StampInv' /\ [TableNext]_<<rows, Ranks>>
<1>1. \A id \in Ids : Has(id) => rows[id] \in Rows
  BY DEF StampInv, Has, Rows
<1>2. ASSUME NEW p \in Payload, UpsertItem(p)
      PROVE  StampInv' /\ TableNext
  <2>1. PICK t \in Times :
          /\ Now(t)
          /\ \/ \E id \in Ids :
                  /\ Has(id) /\ rows[id].payload = p
                  /\ rows' = [rows EXCEPT ![id].deleted = FALSE]
                  /\ stamp' = [stamp EXCEPT ![id] = Text(t)]
             \/ /\ \A id \in Ids : Has(id) => rows[id].payload # p
                /\ \E id \in Ids :
                     /\ ~Has(id)
                     /\ rows' = [rows EXCEPT ![id] =
                          [payload |-> p, pinned |-> FALSE, favorite |-> FALSE, deleted |-> FALSE]]
                     /\ stamp' = [stamp EXCEPT ![id] = Text(t)]
    BY <1>2 DEF UpsertItem
  <2>2. CASE \E id \in Ids :
               /\ Has(id) /\ rows[id].payload = p
               /\ rows' = [rows EXCEPT ![id].deleted = FALSE]
               /\ stamp' = [stamp EXCEPT ![id] = Text(t)]
    <3>1. PICK id \in Ids :
               /\ Has(id) /\ rows[id].payload = p
               /\ rows' = [rows EXCEPT ![id].deleted = FALSE]
               /\ stamp' = [stamp EXCEPT ![id] = Text(t)]
      BY <2>2
    <3> DEFINE r == [rows[id] EXCEPT !.deleted = FALSE]
    <3>2. r \in Rows /\ rows' = [rows EXCEPT ![id] = r]
      BY <1>1, <3>1 DEF Rows
    <3>3. StampInv' /\ R!Touch(id)
      <4> HIDE DEF r
      <4>1. QED
        BY <2>1, <3>1, <3>2, WriteKeepsStamps
    <3>4. QED
      BY <3>1, <3>3 DEF TableNext, R!Upsert, R!Stored, Has
  <2>3. CASE /\ \A id \in Ids : Has(id) => rows[id].payload # p
             /\ \E id \in Ids :
                  /\ ~Has(id)
                  /\ rows' = [rows EXCEPT ![id] =
                       [payload |-> p, pinned |-> FALSE, favorite |-> FALSE, deleted |-> FALSE]]
                  /\ stamp' = [stamp EXCEPT ![id] = Text(t)]
    <3> DEFINE r == [payload |-> p, pinned |-> FALSE, favorite |-> FALSE, deleted |-> FALSE]
    <3>1. PICK id \in Ids : ~Has(id) /\ rows' = [rows EXCEPT ![id] = r] /\ stamp' = [stamp EXCEPT ![id] = Text(t)]
      BY <2>3
    <3>2. r \in Rows
      BY DEF Rows
    <3>3. StampInv' /\ R!Touch(id)
      <4> HIDE DEF r
      <4>1. QED
        BY <2>1, <3>1, <3>2, WriteKeepsStamps
    <3>4. QED
      BY <2>3, <3>1, <3>3 DEF TableNext, R!Upsert, R!Stored, Has
  <2>4. QED
    BY <2>1, <2>2, <2>3
<1>3. ASSUME NEW id \in Ids, MarkUsed(id)
      PROVE  StampInv' /\ TableNext
  <2>1. PICK t \in Times : Has(id) /\ Now(t) /\ stamp' = [stamp EXCEPT ![id] = Text(t)] /\ rows' = rows
    BY <1>3 DEF MarkUsed
  <2>2. rows[id] \in Rows /\ rows' = [rows EXCEPT ![id] = rows[id]]
    BY <1>1, <2>1 DEF StampInv
  <2>3. StampInv' /\ R!Touch(id)
    BY <2>1, <2>2, WriteKeepsStamps
  <2>4. QED
    BY <2>1, <2>3 DEF TableNext, R!MarkUsed, R!Stored, Has
<1>4. ASSUME NEW id \in Ids, SoftDelete(id)
      PROVE  StampInv' /\ TableNext
  <2>1. Has(id) /\ rows' = [rows EXCEPT ![id].deleted = TRUE] /\ clock' = clock /\ stamp' = stamp
    BY <1>4 DEF SoftDelete
  <2>2. rows' \in [Ids -> Rows \cup {NoRow}] /\ \A j \in Ids : Has(j)' <=> Has(j)
    BY <1>1, <2>1, TimesAssumption DEF StampInv, Has, Rows
  <2>3. Ranks' = Ranks
    BY <2>1, <2>2 DEF Ranks
  <2>4. StampInv'
    BY <2>1, <2>2 DEF StampInv, Rows
  <2>5. QED
    BY <2>1, <2>3, <2>4 DEF TableNext, R!SoftDelete, R!Stored, Has
<1>5. CASE UNCHANGED tvars
  BY <1>5 DEF tvars, StampInv, Ranks, Has
<1>6. QED
  BY <1>2, <1>3, <1>4, <1>5 DEF TimesNext

\* RanksByUse, for any number of rows and readings of the clock: ordered by the
\* texts in last_used_at, with or without fractions of a second, the rows
\* behave as the table of Repository, whose order is that of their use.
THEOREM TextsRankByUse == TimesSpec => RanksByUse
<1>1. TimesInit => StampInv /\ R!StoreInit
  <2> SUFFICES ASSUME TimesInit
               PROVE  StampInv /\ R!StoreInit
    OBVIOUS
  <2>1. \A id \in Ids : ~Has(id)
    BY DEF TimesInit, Has
  <2>2. Ranks = [id \in Ids |-> 0]
    BY <2>1 DEF Ranks
  <2>3. StampInv
    BY <2>1 DEF TimesInit, StampInv
  <2>4. QED
    BY <2>2, <2>3 DEF R!StoreInit, TimesInit
<1>2. StampInv /\ [TimesNext]_tvars => StampInv' /\ [TableNext]_<<rows, Ranks>>
  BY StatementIsRepository
<1>3. QED
  BY <1>1, <1>2, PTL DEF TimesSpec, RanksByUse
=============================================================================
