--------------------------- MODULE SocketPathProofs ---------------------------
(***************************************************************************)
(* However many daemons start at the same time, the path of the socket is  *)
(* not lost: while daemons serve, it leads to one of them, or the one that *)
(* has made it free is about to bind.                                      *)
(***************************************************************************)
EXTENDS SocketPath, TLAPS

-----------------------------------------------------------------------------
\* A daemon that starts, looks, removes or binds leaves the path taken: a bind
\* that fails has found another daemon's socket there.
LEMMA StartingKeeps ==
  ASSUME SocketInv, NEW d \in Daemons, Start(d) \/ Stat(d) \/ Unlink(d) \/ Bind(d)
  PROVE  SocketInv'
<1> USE SocketAssumption DEF SocketInv, SocketTypeOK, Goto
<1>1. CASE Start(d)
  BY <1>1 DEF Start, PathTaken, Serving
<1>2. CASE Stat(d)
  <2>1. SocketTypeOK'
    BY <1>2 DEF Stat
  <2>2. Serving' = Serving
    BY <1>2 DEF Stat, Serving
  <2>3. PathTaken'
    BY <1>2, <2>2 DEF Stat, PathTaken
  <2>4. QED
    BY <2>1, <2>3
<1>3. CASE Unlink(d)
  <2>1. SocketTypeOK'
    BY <1>3 DEF Unlink
  <2>2. Serving' = Serving
    BY <1>3 DEF Unlink, Serving
  <2>3. PathTaken'
    BY <1>3, <2>2 DEF Unlink, PathTaken, Serving
  <2>4. QED
    BY <2>1, <2>3
<1>4. CASE Bind(d)
  <2>1. SocketTypeOK'
    BY <1>4 DEF Bind
  <2>2. CASE path = "none"
    BY <1>4, <2>1, <2>2 DEF Bind, PathTaken, Serving
  <2>3. CASE path # "none"
    <3>1. Serving' = Serving
      BY <1>4, <2>3 DEF Bind, Serving
    <3>2. QED
      BY <1>4, <2>1, <2>3, <3>1 DEF Bind, PathTaken
  <2>4. QED
    BY <2>2, <2>3
<1>5. QED
  BY <1>1, <1>2, <1>3, <1>4

\* A daemon that dies loses the path only for those it had taken it from.
LEMMA DieKeeps ==
  ASSUME SocketInv, NEW d \in Daemons, Die(d)
  PROVE  SocketInv'
<1> USE SocketAssumption DEF SocketInv, SocketTypeOK, Goto
<1>1. SocketTypeOK'
  BY DEF Die
<1>2. Serving' = Serving \ {d}
  BY DEF Die, Serving
<1>3. ASSUME Serving' # {}, ~lost'
      PROVE  \/ path' \in Serving'
             \/ path' = "none" /\ \E e \in Daemons : pc'[e] = "bind"
  <2>1. Serving # {} /\ ~lost /\ path # d /\ ~Last(d)
    BY <1>2, <1>3 DEF Die
  <2>2. CASE path \in Serving
    BY <1>2, <2>1, <2>2 DEF Die
  <2>3. CASE path = "none" /\ \E e \in Daemons : pc[e] = "bind"
    <3>1. PICK e \in Daemons \ {d} : pc[e] = "bind"
      BY <2>1, <2>3 DEF Last
    <3>2. QED
      BY <2>3, <3>1 DEF Die
  <2>4. QED
    BY <2>1, <2>2, <2>3 DEF PathTaken
<1>4. QED
  BY <1>1, <1>3 DEF PathTaken

\* The invariant of the path (prepare_socket_path and bind, ipc.rs:55-56).
THEOREM SocketInductive == Spec => []SocketInv
<1>1. Init => SocketInv
  <2>1. Init => SocketTypeOK
    <3> SUFFICES ASSUME Init
                 PROVE  SocketTypeOK
      OBVIOUS
    <3>1. deaths \in 0 .. MaxDeaths
      BY SocketAssumption DEF Init
    <3>2. pc \in [Daemons -> {"stopped", "stat", "unlink", "bind", "serving"}]
      BY DEF Init
    <3>3. QED
      BY <3>1, <3>2 DEF Init, SocketTypeOK
  <2>2. Init => Serving = {}
    BY DEF Init, Serving
  <2>3. QED
    BY <2>1, <2>2 DEF SocketInv, PathTaken
<1>2. SocketInv /\ [Next]_vars => SocketInv'
  <2>1. ASSUME SocketInv, UNCHANGED vars
        PROVE  SocketInv'
    BY <2>1 DEF vars, SocketInv, SocketTypeOK, PathTaken, Serving
  <2>2. QED
    BY <2>1, StartingKeeps, DieKeeps DEF Next
<1>3. QED
  BY <1>1, <1>2, PTL DEF Spec

\* When nobody is starting and a daemon serves, clients reach one, for any
\* number of daemons started at the same time.
THEOREM ServedWhenSettled == Spec => []Reachable
<1>1. SocketInv => Reachable
  BY DEF SocketInv, PathTaken, Settled, Reachable
<1>2. QED
  BY <1>1, SocketInductive, PTL
=============================================================================
