--------------------------- MODULE MCAtomicService ---------------------------
(***************************************************************************)
(* AtomicService on a small history: one text, one image, so the three     *)
(* contents "text", "image" and "text with image", one id for each, and a  *)
(* listing window of two rows.                                             *)
(***************************************************************************)
EXTENDS AtomicService, TLC

CONSTANTS t, g, i1, i2, i3, c1

MCIds      == {i1, i2, i3}
MCTexts    == {t}
MCPngs     == {g}
MCHtmls    == {}
MCConns    == {c1}
MCCleaned  == [x \in MCTexts |-> x]
MCQueries  == {"", "needle"}
MCHits     == [q \in MCQueries |-> MCTexts]
Capturing  == [op |-> "capture"]
Searching(q) == [op |-> "search", query |-> q]
Restoring(id, plain) == [op |-> "restore", id |-> id, paste |-> TRUE, plain |-> plain]

\* Every operation; the unpinning of an item is told from its pinning, the
\* clearing of a favorite mark is left to the code's symmetry with it.
MCRequests ==
  {Capturing, [op |-> "malformed"], Searching(""), Searching("needle")}
    \cup {Restoring(id, plain) : id \in MCIds, plain \in BOOLEAN}
    \cup {[op |-> "delete", id |-> id] : id \in MCIds}
    \cup {[op |-> "pin", id |-> id, value |-> v] : id \in MCIds, v \in BOOLEAN}
    \cup {[op |-> "favorite", id |-> id, value |-> TRUE] : id \in MCIds}

Symmetry == Permutations(MCIds)
=============================================================================
