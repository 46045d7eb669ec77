------------------------------- MODULE MCPicker ------------------------------
(***************************************************************************)
(* A window over a history of two texts, one of which the search string    *)
(* finds. Two threads at a time are enough for requests that overtake each *)
(* other; MaxUnread bounds them and the messages that are not read yet.    *)
(***************************************************************************)
EXTENDS Picker, TLC

CONSTANTS t, u, i1, i2, c1, c2, c3

MCIds     == {i1, i2}
OneId     == {i1}
MCTexts   == {t, u}
OneText   == {t}
TwoConns  == {c1, c2}
ThreeConns == {c1, c2, c3}
NoneOf    == {}
MCCleaned == [x \in Texts |-> x]
MCQueries == {"", "t"}
MCHits    == [q \in MCQueries |-> {t}]

MCRequests ==
  {Capturing} \cup {Searching(q) : q \in MCQueries}
    \cup {Restoring(id, plain) : id \in Ids, plain \in BOOLEAN}
    \cup {[op |-> "delete", id |-> id] : id \in Ids}
    \cup {[op |-> op, id |-> id, value |-> v] : op \in {"pin", "favorite"}, id \in Ids, v \in BOOLEAN}

Symmetry == Permutations(MCIds) \cup Permutations(ThreeConns)
TwoSymmetry == Permutations(MCIds) \cup Permutations(TwoConns)
=============================================================================
