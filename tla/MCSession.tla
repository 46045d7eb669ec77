------------------------------- MODULE MCSession ------------------------------
(***************************************************************************)
(* The session of two texts, m (stored as t) and u, and two connections:   *)
(* the two threads of a window that opens, the restores of a pressed and a *)
(* repeated Enter on the same row or on two, and what an earlier window    *)
(* has left with the daemon.                                               *)
(***************************************************************************)
EXTENDS Session, TLC

CONSTANTS t, m, u, i1, i2, c1, c2

TwoIds    == {i1, i2}
TwoConns  == {c1, c2}
MCTexts   == {t, m, u}
MCCleaned == [x \in MCTexts |-> IF x = m THEN t ELSE x]
MCQueries == {""}
MCHits    == [q \in MCQueries |-> MCTexts]
NoData    == {}

Program(text) == [owner |-> "app", data |-> [Blank EXCEPT !.text = text], hung |-> FALSE]

AppAtStart == {Program(m)}
TwoTexts   == {Program(m), Program(u)}

MCRequests ==
  [op : {"capture"}] \cup [op : {"search"}, query : {""}]
    \cup [op : {"restore"}, id : Ids, paste : {TRUE}, plain : BOOLEAN]

Symmetry == Permutations(TwoIds) \cup Permutations(TwoConns)
=============================================================================
