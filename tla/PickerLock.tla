------------------------------ MODULE PickerLock ------------------------------
(***************************************************************************)
(* One picker at a time: SingleInstanceGuard (crates/picker/src/main.rs).  *)
(* Every press of the shortcut starts a process. It creates the lock file  *)
(* and opens the window, or finds the lock of a living process, ends that  *)
(* one with SIGTERM and leaves (the press closes the window), or finds a   *)
(* lock nobody holds and takes its place. A marker file of the last toggle *)
(* silences the presses that a held key repeats.                           *)
(*                                                                         *)
(* Each file operation is a step, because every other process may run      *)
(* between two of them. Any of them may fail, and a process may die at any *)
(* step and leaves its files as they are. GTK keeps the name of the        *)
(* application on the session bus: a second process does not open a        *)
(* window, it asks the first for one.                                      *)
(***************************************************************************)
EXTENDS Integers, FiniteSets

CONSTANTS
  Procs,     \* The processes the presses start, named by their pids.
  NoProc     \* No file, or no pid.

ASSUME LockAssumption == NoProc \notin Procs

VARIABLES
  pc,        \* pc[p]: where p is.
  lock,      \* Who created the file that is at the path of the lock.
  written,   \* The processes whose file holds their pid.
  found,     \* found[p]: the pid p read in the lock.
  recent,    \* The marker is younger than TOGGLE_DEBOUNCE.
  dying,     \* SIGTERM was sent to these.
  windows,   \* The windows on the screen.
  alone,     \* History: who passed the marker with no other picker alive.
  failed,    \* History: who died, or had to do without what failed under it.
  disturbed  \* History: two starts were at the lock at the same time, or one
             \* could not read it.

files == <<lock, written, recent>>

vars == <<pc, found, dying, windows, alone, failed, disturbed, files>>

\* Where a process looks at the lock or changes it, and where it holds it.
Touching == {"create", "write", "read", "judge", "remove", "again"}
Holding  == {"run", "window", "closing"}
Over     == {"toggled", "suppressed", "ended"}
Places   == {"new", "check", "mark", "kill"} \cup Touching \cup Holding \cup Over

Alive(p) == pc[p] \notin {"new"} \cup Over

LockTypeOK ==
  /\ pc \in [Procs -> Places]
  /\ lock \in Procs \cup {NoProc}
  /\ written \subseteq Procs
  /\ found \in [Procs -> Procs \cup {NoProc}]
  /\ recent \in BOOLEAN
  /\ dying \subseteq Procs
  /\ windows \in Nat
  /\ alone \subseteq Procs
  /\ failed \subseteq Procs
  /\ disturbed \in BOOLEAN

Init ==
  /\ pc = [p \in Procs |-> "new"]
  /\ lock = NoProc
  /\ written = {}
  /\ found = [p \in Procs |-> NoProc]
  /\ recent = FALSE
  /\ dying = {}
  /\ windows = 0
  /\ alone = {}
  /\ failed = {}
  /\ disturbed = FALSE

-----------------------------------------------------------------------------
(***************************************************************************)
(* SingleInstanceGuard::acquire.                                           *)
(***************************************************************************)
Goto(p, place) == pc' = [pc EXCEPT ![p] = place]

Fails(p) == failed' = failed \cup {p}

\* The lock cannot be created or written: the press is lost.
GiveUp(p) == Goto(p, "suppressed") /\ Fails(p)

\* The shortcut is pressed: the desktop starts a process.
Press(p) ==
  /\ pc[p] = "new"
  /\ Goto(p, "check")
  /\ UNCHANGED <<files, found, dying, windows, alone, failed, disturbed>>

OnlyAlive(p) == \A q \in Procs \ {p} : ~Alive(q)

\* toggle_was_recent: the press ends here while the marker is young. A marker
\* that cannot be read, or is younger than the clock, stops nobody.
Check(p) ==
  /\ pc[p] = "check"
  /\ \/ recent /\ Goto(p, "suppressed") /\ UNCHANGED <<alone, disturbed>>
     \/ /\ Goto(p, "create")
        /\ alone' = IF OnlyAlive(p) THEN {p} ELSE {}
        /\ disturbed' = (~OnlyAlive(p) /\ (disturbed \/ \E q \in Procs : pc[q] \in Touching))
  /\ UNCHANGED <<files, found, dying, windows, failed>>

\* create_lock up to its open(): place next if the path is taken.
CreateOr(p, next) ==
  \/ lock = NoProc /\ lock' = p /\ Goto(p, "write") /\ UNCHANGED failed
  \/ lock # NoProc /\ Goto(p, next) /\ UNCHANGED <<lock, failed>>
  \/ GiveUp(p) /\ UNCHANGED lock

Create(p) ==
  /\ pc[p] = "create"
  /\ CreateOr(p, "read")
  /\ UNCHANGED <<written, recent, found, dying, windows, alone, disturbed>>

\* A wrong create_lock: a failed write is ignored.
WriteUnchecked(p) ==
  /\ pc[p] = "write"
  /\ \E ok \in BOOLEAN : written' = IF ok THEN written \cup {p} ELSE written
  /\ Goto(p, "run")
  /\ UNCHANGED <<lock, recent, found, dying, windows, alone, failed, disturbed>>

\* create_lock after its open(): the pid goes to the file p created, whether
\* or not it is still at the path. A file that cannot be written stays, empty.
Write(p) ==
  /\ pc[p] = "write"
  /\ \/ written' = written \cup {p} /\ Goto(p, "run") /\ UNCHANGED failed
     \/ GiveUp(p) /\ UNCHANGED written
  /\ UNCHANGED <<lock, recent, found, dying, windows, alone, disturbed>>

\* lock_owner_pid: nobody, when the file is gone, is still empty or cannot be read.
Read(p) ==
  /\ pc[p] = "read"
  /\ \/ /\ found' = [found EXCEPT ![p] = IF lock \in written THEN lock ELSE NoProc]
        /\ UNCHANGED disturbed
     \/ /\ found' = [found EXCEPT ![p] = NoProc]
        /\ disturbed' = (disturbed \/ (lock \in written /\ Alive(lock)))
  /\ Goto(p, "judge")
  /\ UNCHANGED <<files, dying, windows, alone, failed>>

\* A wrong guard: a lock without a pid counts as held, the press is dropped.
JudgeEmptyHeld(p) ==
  /\ pc[p] = "judge"
  /\ Goto(p, IF found[p] = NoProc THEN "suppressed" ELSE IF Alive(found[p]) THEN "mark" ELSE "remove")
  /\ UNCHANGED <<files, found, dying, windows, alone, failed, disturbed>>

\* A wrong guard: it does not look whether the owner lives.
JudgeNobody(p) ==
  /\ pc[p] = "judge"
  /\ Goto(p, "remove")
  /\ UNCHANGED <<files, found, dying, windows, alone, failed, disturbed>>

\* pid_is_alive.
Judge(p) ==
  /\ pc[p] = "judge"
  /\ Goto(p, IF found[p] # NoProc /\ Alive(found[p]) THEN "mark" ELSE "remove")
  /\ UNCHANGED <<files, found, dying, windows, alone, failed, disturbed>>

\* mark_toggled, whose errors are ignored.
Mark(p) ==
  /\ pc[p] = "mark"
  /\ recent' \in {TRUE, recent}
  /\ Goto(p, "kill")
  /\ UNCHANGED <<lock, written, found, dying, windows, alone, failed, disturbed>>

\* terminate_process, which does not look whether kill could be started and was
\* allowed to; main returns, and p holds no guard to drop.
Kill(p) ==
  /\ pc[p] = "kill"
  /\ \/ dying' = dying \cup {found[p]} /\ UNCHANGED failed
     \/ Fails(p) /\ UNCHANGED dying
  /\ Goto(p, "toggled")
  /\ UNCHANGED <<files, found, windows, alone, disturbed>>

\* The lock that looked stale is removed, whosever it is by now; errors are ignored.
Remove(p) ==
  /\ pc[p] = "remove"
  /\ \/ lock' = NoProc /\ UNCHANGED failed
     \/ Fails(p) /\ UNCHANGED lock
  /\ Goto(p, "again")
  /\ UNCHANGED <<written, recent, found, dying, windows, alone, disturbed>>

\* The second create_lock: a process that was faster wins.
CreateAgain(p) ==
  /\ pc[p] = "again"
  /\ CreateOr(p, "suppressed")
  /\ UNCHANGED <<written, recent, found, dying, windows, alone, disturbed>>

-----------------------------------------------------------------------------
(***************************************************************************)
(* ui::run, and the drop of the guard.                                     *)
(***************************************************************************)
Primary == \E q \in Procs : pc[q] = "window"

\* Application::run: the first process builds the window, a later one has the
\* first build another and returns at once.
Run(p) ==
  /\ pc[p] = "run"
  /\ windows' = windows + 1
  /\ Goto(p, IF Primary THEN "closing" ELSE "window")
  /\ UNCHANGED <<files, found, dying, alone, failed, disturbed>>

\* Escape, or a restore that is done. With its last window the application ends.
CloseWindow(p) ==
  /\ pc[p] = "window"
  /\ windows' = windows - 1
  /\ IF windows = 1 THEN Goto(p, "closing") ELSE UNCHANGED pc
  /\ UNCHANGED <<files, found, dying, alone, failed, disturbed>>

\* SingleInstanceGuard::drop removes the lock at the path, whosever it is, if it can.
Drop(p) ==
  /\ pc[p] = "closing"
  /\ lock' \in {NoProc, lock}
  /\ Goto(p, "ended")
  /\ UNCHANGED <<written, recent, found, dying, windows, alone, failed, disturbed>>

\* The process dies where it stands, and no guard is dropped.
Dies(p) ==
  /\ Alive(p)
  /\ Goto(p, "ended")
  /\ Fails(p)
  /\ windows' = IF pc[p] = "window" THEN 0 ELSE windows
  /\ UNCHANGED <<files, found, dying, alone, disturbed>>

\* SIGTERM arrives.
Terminate(p) == p \in dying /\ Dies(p)

\* A crash, or a kill -9.
Crash(p) == p \notin dying /\ Dies(p)

\* 700 ms go by.
Expire ==
  /\ recent
  /\ recent' = FALSE
  /\ UNCHANGED <<lock, written, pc, found, dying, windows, alone, failed, disturbed>>

-----------------------------------------------------------------------------
Acquire(p) ==
  \/ Check(p) \/ Create(p) \/ Write(p) \/ Read(p) \/ Judge(p)
  \/ Mark(p) \/ Kill(p) \/ Remove(p) \/ CreateAgain(p)

Step(p) ==
  \/ Press(p) \/ Acquire(p)
  \/ Run(p) \/ CloseWindow(p) \/ Drop(p)
  \/ Terminate(p) \/ Crash(p)

Next == Expire \/ \E p \in Procs : Step(p)

Spec == Init /\ [][Next]_vars

(***************************************************************************)
(* A start goes on until it has the lock or leaves, and a signal arrives.  *)
(***************************************************************************)
Fairness == \A p \in Procs : WF_vars(Acquire(p)) /\ WF_vars(Terminate(p))

FairSpec == Spec /\ Fairness

-----------------------------------------------------------------------------
(***************************************************************************)
(* Properties.                                                             *)
(***************************************************************************)
\* The shortcut never stops working: a press that finds no picker alive, and
\* that no other press crosses, opens the window, whatever locks, empty or
\* stale, an earlier crash, a toggle or a race of presses has left. An operation
\* that fails under this very press may lose it.
AloneOpens == \A p \in alone \ failed : pc[p] \notin {"toggled", "suppressed"}

\* A press never adds a window to the one that is open, and the picker that
\* holds the window can be closed by the next press, because the lock names it:
\* unless, since the last moment without a picker, two presses were at the lock
\* at the same time or one could not read it.
Named(p) == lock = p /\ p \in written

OneWindow ==
  ~disturbed =>
    /\ windows <= 1
    /\ \A p \in Procs : pc[p] = "window" => Named(p)

(***************************************************************************)
(* The inductive invariant: undisturbed, one start at a time touches the   *)
(* lock, and it only gets past judge() when nobody holds it.               *)
(***************************************************************************)
OneTouches ==
  ~disturbed => \A p, q \in Procs : pc[p] \in Touching /\ pc[q] \in Touching => p = q

HoldersNamed == ~disturbed => \A p \in Procs : pc[p] \in Holding => Named(p)

\* What a start that touches the lock knows of the one who holds it.
TouchKnows ==
  ~disturbed => \A p, q \in Procs :
    pc[q] \in Holding =>
      /\ pc[p] \notin {"write", "remove", "again"}
      /\ pc[p] = "judge" => found[p] = q

WriterCreated == ~disturbed => \A p \in Procs : pc[p] = "write" => lock = p

\* The windows are those of one process.
WindowsOwned ==
  /\ windows > 0 <=> Primary
  /\ \A p, q \in Procs : pc[p] = "window" /\ pc[q] = "window" => p = q
  /\ ~disturbed => windows <= 1

\* A process whose file was not created yet is not in the lock.
LockOfCreator ==
  \A p \in Procs : pc[p] \in {"new", "check"} \cup (Touching \ {"write"}) => lock # p

\* Only who holds the lock, or once held it, is found in one.
FoundHeld ==
  /\ \A p \in Procs :
       /\ found[p] \in written \cup {NoProc}
       /\ pc[p] \in {"mark", "kill"} => found[p] # NoProc
  /\ \A p \in written : pc[p] \notin {"new", "check"} \cup Touching

\* A start that found nobody alive still has the lock for itself.
AloneUndisturbed ==
  \A p \in alone \ failed :
    /\ pc[p] \notin {"new", "check", "mark", "kill", "toggled", "suppressed"}
    /\ pc[p] \in Touching \cup {"run"} => \A q \in Procs \ {p} : pc[q] \in {"new", "check"} \cup Over
    /\ pc[p] = "again" => lock = NoProc

LockInv ==
  /\ LockTypeOK
  /\ OneTouches /\ HoldersNamed /\ TouchKnows /\ WriterCreated
  /\ WindowsOwned /\ LockOfCreator /\ FoundHeld /\ AloneUndisturbed

\* A press that comes while a window is open closes it, and does not open a
\* second: whatever the holder and the presses before it did to the lock, this
\* press finds the holder there, and the signal reaches it. It may fail only with
\* an operation of its own, or when a disturbance lets it take the lock for stale.
ClosesOpen ==
  \A p, q \in Procs :
    (pc[p] = "create" /\ pc[q] = "window" /\ ~disturbed)
      ~> (pc[q] # "window" \/ disturbed \/ p \in failed)
=============================================================================
