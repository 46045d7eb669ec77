------------------------------ MODULE SocketPath ------------------------------
(***************************************************************************)
(* How a starting rcopyd takes the path of its socket (prepare_socket_path *)
(* and serve_default_socket, crates/daemon/src/ipc.rs): it looks what is   *)
(* there, removes a socket, live or stale, refuses anything else, and      *)
(* binds. Each of the three is a system call of its own, and a second      *)
(* daemon, started by hand beside the one systemd keeps running            *)
(* (scripts/setup-x11.sh), may do the same in between. A daemon may die at *)
(* any time; it leaves the path as it is.                                  *)
(***************************************************************************)
EXTENDS Integers, FiniteSets

CONSTANTS
  Daemons,    \* The daemons that are started, again after they ended.
  Managed,    \* Those of them that systemd starts again.
  MaxDeaths   \* Bound on the deaths.

ASSUME SocketAssumption ==
  /\ Managed \subseteq Daemons
  /\ Daemons \cap {"none", "file", "stale"} = {}
  /\ MaxDeaths \in Nat

VARIABLES
  pc,       \* pc[d]: where daemon d is.
  path,     \* At the path: nothing, a file that is no socket, the socket of a
            \* daemon that is gone, or that of a daemon.
  deaths,   \* The deaths so far.
  lost      \* History: a daemon died that had taken the path from one that serves.

vars == <<pc, path, deaths, lost>>

Serving == {d \in Daemons : pc[d] = "serving"}

SocketTypeOK ==
  /\ pc \in [Daemons -> {"stopped", "stat", "unlink", "bind", "serving"}]
  /\ path \in {"none", "file", "stale"} \cup Daemons
  /\ deaths \in 0 .. MaxDeaths
  /\ lost \in BOOLEAN

Init ==
  /\ pc = [d \in Daemons |-> "stopped"]
  /\ path \in {"none", "file", "stale"}
  /\ deaths = 0
  /\ lost = FALSE

-----------------------------------------------------------------------------
Goto(d, place) == pc' = [pc EXCEPT ![d] = place]

\* main, up to serve_default_socket: systemd, or the user, starts it.
Start(d) ==
  /\ pc[d] = "stopped"
  /\ Goto(d, "stat")
  /\ UNCHANGED <<path, deaths, lost>>

\* A symlink_metadata that lets whatever is there be.
StatOnly(d) ==
  /\ pc[d] = "stat"
  /\ Goto(d, IF path = "file" THEN "stopped" ELSE "bind")
  /\ UNCHANGED <<path, deaths, lost>>

\* symlink_metadata: what is no socket is refused, and the daemon ends.
Stat(d) ==
  /\ pc[d] = "stat"
  /\ Goto(d, CASE path = "none" -> "bind" [] path = "file" -> "stopped" [] OTHER -> "unlink")
  /\ UNCHANGED <<path, deaths, lost>>

\* remove_file: of the socket that is at the path by now. With none there any
\* more it fails, and the daemon ends.
Unlink(d) ==
  /\ pc[d] = "unlink"
  /\ Goto(d, IF path = "none" THEN "stopped" ELSE "bind")
  /\ path' = "none"
  /\ UNCHANGED <<deaths, lost>>

\* A wrong bind: one that fails cleans up the path.
BindCleansUp(d) ==
  /\ pc[d] = "bind"
  /\ IF path = "none" THEN Goto(d, "serving") /\ path' = d ELSE Goto(d, "stopped") /\ path' = "none"
  /\ UNCHANGED <<deaths, lost>>

\* UnixListener::bind: it fails when another daemon was faster.
Bind(d) ==
  /\ pc[d] = "bind"
  /\ IF path = "none"
     THEN Goto(d, "serving") /\ path' = d /\ lost' = FALSE
     ELSE Goto(d, "stopped") /\ UNCHANGED <<path, lost>>
  /\ UNCHANGED deaths

\* Nobody but d would give the daemons that serve a path again.
Last(d) == pc[d] = "bind" /\ path = "none" /\ \A e \in Daemons \ {d} : pc[e] # "bind"

\* The daemon dies, starting or serving.
Die(d) ==
  /\ pc[d] # "stopped"
  /\ deaths < MaxDeaths
  /\ deaths' = deaths + 1
  /\ Goto(d, "stopped")
  /\ path' = IF path = d THEN "stale" ELSE path
  /\ lost' = (Serving \ {d} # {} /\ (lost \/ path = d \/ Last(d)))

Next == \E d \in Daemons : Start(d) \/ Stat(d) \/ Unlink(d) \/ Bind(d) \/ Die(d)

Spec == Init /\ [][Next]_vars

(***************************************************************************)
(* A daemon that starts goes on, and systemd starts its own again          *)
(* (Restart=on-failure; that it gives up after some failures in a row is   *)
(* left out, and MaxDeaths ends the deaths).                               *)
(***************************************************************************)
Fairness ==
  /\ \A d \in Daemons : WF_vars(Stat(d) \/ Unlink(d) \/ Bind(d))
  /\ \A d \in Managed : WF_vars(Start(d))

FairSpec == Spec /\ Fairness

-----------------------------------------------------------------------------
(***************************************************************************)
(* Properties.                                                             *)
(***************************************************************************)
\* However many daemons start at the same time and remove each other's sockets:
\* when the dust has settled and one serves, the path leads to one that serves,
\* unless a daemon died that had taken the path from another.
Settled == \A d \in Daemons : pc[d] \in {"stopped", "serving"}

Reachable == Settled /\ Serving # {} /\ ~lost => path \in Serving

\* Its inductive form: while daemons serve, the path leads to one of them or
\* one that has made it free is about to bind.
PathTaken ==
  Serving # {} /\ ~lost =>
    \/ path \in Serving
    \/ path = "none" /\ \E d \in Daemons : pc[d] = "bind"

SocketInv == SocketTypeOK /\ PathTaken

\* After a crash the clients find a daemon again: whenever the one systemd
\* keeps is down, the path leads to a daemon that serves in the end, whatever
\* sockets were left there, unless something that is no socket is in its place.
Recovers ==
  \A d \in Managed : pc[d] # "serving" ~> path \in Serving \cup {"file"}
=============================================================================
