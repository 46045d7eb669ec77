----------------------------- MODULE MCPickerLock -----------------------------
(***************************************************************************)
(* Three presses of the shortcut: a window, a press that toggles it and    *)
(* one that crosses the toggle, or one that finds nobody alive when the    *)
(* others have left.                                                       *)
(***************************************************************************)
EXTENDS PickerLock

CONSTANTS p1, p2, p3

ThreeProcs == {p1, p2, p3}
=============================================================================
