----------------------------- MODULE MCSocketPath -----------------------------
(***************************************************************************)
(* The daemon systemd keeps and two more, enough for one that takes the    *)
(* path while a second one looks at it and the first serves.               *)
(***************************************************************************)
EXTENDS SocketPath

CONSTANTS d1, d2, d3

ThreeDaemons == {d1, d2, d3}
OneManaged   == {d1}
=============================================================================
