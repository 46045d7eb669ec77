---------------------------- MODULE PickerLockProofs ----------------------------
(***************************************************************************)
(* The single-instance guard, for any number of processes: unless a start  *)
(* is disturbed there is one window and the lock names its process, and a  *)
(* start that is alone always opens the window.                            *)
(*                                                                         *)
(* The invariant is about three roles. One start at a time touches the     *)
(* lock; who has got past it holds it, and the file at the path is his;    *)
(* a start that touches the lock beside a holder reads the holder's pid    *)
(* and never gets as far as to remove the file. A lemma per action says    *)
(* that it keeps every part.                                               *)
(***************************************************************************)
EXTENDS PickerLock, TLAPS

-----------------------------------------------------------------------------
\* A new process touches nothing.
LEMMA PressKeeps ==
  ASSUME LockInv, NEW p \in Procs, Press(p)
  PROVE  LockInv'
<1> USE LockAssumption DEF Goto, Fails, files
<1>1. LockTypeOK'
  BY DEF LockInv, LockTypeOK, Press, Places
<1>2. OneTouches'
  BY DEF LockInv, OneTouches, Press, Touching
<1>3. HoldersNamed'
  BY DEF LockInv, HoldersNamed, Press, Named, Holding
<1>4. TouchKnows'
  BY DEF LockInv, TouchKnows, Press, Holding
<1>5. WriterCreated'
  BY DEF LockInv, WriterCreated, Press
<1>6. WindowsOwned'
  BY DEF LockInv, WindowsOwned, Press, Primary
<1>7. LockOfCreator'
  BY DEF LockInv, LockOfCreator, Press
<1>8. FoundHeld'
  BY DEF LockInv, FoundHeld, Press
<1>9. AloneUndisturbed'
  BY DEF LockInv, AloneUndisturbed, Press
<1>10. QED
  BY <1>1, <1>2, <1>3, <1>4, <1>5, <1>6, <1>7, <1>8, <1>9 DEF LockInv

\* A process that passes the marker starts to touch the lock: with nobody else
\* alive a new undisturbed age begins; beside another that touches it, the age ends.
LEMMA CheckKeeps ==
  ASSUME LockInv, NEW p \in Procs, Check(p)
  PROVE  LockInv'
<1> USE LockAssumption DEF Goto, files, OnlyAlive
<1>1. LockTypeOK'
  BY DEF LockInv, LockTypeOK, TouchKnows, WriterCreated, WindowsOwned, Check,
         Places, Touching, Over
<1>2. OneTouches'
  <2>1. CASE OnlyAlive(p)
    BY <2>1 DEF LockInv, LockTypeOK, OneTouches, Check, Alive, Touching, Over
  <2>2. CASE ~OnlyAlive(p)
    BY <2>2 DEF LockInv, LockTypeOK, OneTouches, Check, Touching
  <2>3. QED
    BY <2>1, <2>2
<1>3. HoldersNamed'
  BY DEF LockInv, LockTypeOK, HoldersNamed, Check, Named, Alive, Holding, Over
<1>4. TouchKnows'
  BY DEF LockInv, LockTypeOK, TouchKnows, Check, Alive, Holding, Over
<1>5. WriterCreated'
  BY DEF LockInv, LockTypeOK, WriterCreated, Check, Alive, Over
<1>6. WindowsOwned'
  BY DEF LockInv, LockTypeOK, WindowsOwned, Check, Primary, Alive, Over
<1>7. LockOfCreator'
  BY DEF LockInv, LockTypeOK, LockOfCreator, Check
<1>8. FoundHeld'
  BY DEF LockInv, LockTypeOK, FoundHeld, Check
<1>9. AloneUndisturbed'
  BY DEF LockInv, LockTypeOK, AloneUndisturbed, Check, Alive, Over
<1>10. QED
  BY <1>1, <1>2, <1>3, <1>4, <1>5, <1>6, <1>7, <1>8, <1>9 DEF LockInv

\* Who creates the file finds none, so nobody holds the lock; who finds one reads it.
LEMMA CreateKeeps ==
  ASSUME LockInv, NEW p \in Procs, Create(p)
  PROVE  LockInv'
<1> USE LockAssumption DEF Goto, Fails, files, CreateOr, GiveUp
<1>1. LockTypeOK'
  BY DEF LockInv, LockTypeOK, Create, Places, Touching, Over
<1>2. OneTouches'
  BY DEF LockInv, LockTypeOK, OneTouches, Create, Touching
<1>3. HoldersNamed'
  BY DEF LockInv, LockTypeOK, HoldersNamed, Create, Named, Holding
<1>4. TouchKnows'
  BY DEF LockInv, LockTypeOK, HoldersNamed, TouchKnows, Create, Named, Holding
<1>5. WriterCreated'
  BY DEF LockInv, LockTypeOK, WriterCreated, Create
<1>6. WindowsOwned'
  BY DEF LockInv, LockTypeOK, WindowsOwned, Create, Primary
<1>7. LockOfCreator'
  BY DEF LockInv, LockTypeOK, LockOfCreator, Create, Touching
<1>8. FoundHeld'
  BY DEF LockInv, LockTypeOK, FoundHeld, Create, Touching
<1>9. AloneUndisturbed'
  BY DEF LockInv, LockTypeOK, AloneUndisturbed, Create, Touching, Over
<1>10. QED
  BY <1>1, <1>2, <1>3, <1>4, <1>5, <1>6, <1>7, <1>8, <1>9 DEF LockInv

\* The file of the process is at the path, and from now on it names it.
LEMMA WriteKeeps ==
  ASSUME LockInv, NEW p \in Procs, Write(p)
  PROVE  LockInv'
<1> USE LockAssumption DEF Goto, Fails, files, GiveUp
<1>1. LockTypeOK'
  BY DEF LockInv, LockTypeOK, Write, Places, Holding, Over
<1>2. OneTouches'
  BY DEF LockInv, LockTypeOK, OneTouches, Write, Touching
<1>3. HoldersNamed'
  BY DEF LockInv, LockTypeOK, HoldersNamed, WriterCreated, Write, Named,
         Holding
<1>4. TouchKnows'
  BY DEF LockInv, LockTypeOK, OneTouches, TouchKnows, Write, Touching
<1>5. WriterCreated'
  BY DEF LockInv, LockTypeOK, WriterCreated, Write
<1>6. WindowsOwned'
  BY DEF LockInv, LockTypeOK, WindowsOwned, Write, Primary
<1>7. LockOfCreator'
  BY DEF LockInv, LockTypeOK, LockOfCreator, Write, Touching
<1>8. FoundHeld'
  BY DEF LockInv, LockTypeOK, FoundHeld, Write, Touching
<1>9. AloneUndisturbed'
  BY DEF LockInv, LockTypeOK, AloneUndisturbed, Write, Touching, Over
<1>10. QED
  BY <1>1, <1>2, <1>3, <1>4, <1>5, <1>6, <1>7, <1>8, <1>9 DEF LockInv

\* Beside a holder, the pid read is the holder's, or the age ends.
LEMMA ReadKeeps ==
  ASSUME LockInv, NEW p \in Procs, Read(p)
  PROVE  LockInv'
<1> USE LockAssumption DEF Goto, Fails, files
<1>1. LockTypeOK'
  BY DEF LockInv, LockTypeOK, Read, Places, Touching
<1>2. OneTouches'
  BY DEF LockInv, LockTypeOK, OneTouches, Read, Touching
<1>3. HoldersNamed'
  BY DEF LockInv, LockTypeOK, HoldersNamed, Read, Named, Holding
<1>4. TouchKnows'
  BY DEF LockInv, LockTypeOK, HoldersNamed, TouchKnows, Read, Named, Alive, Holding,
         Over
<1>5. WriterCreated'
  BY DEF LockInv, LockTypeOK, WriterCreated, Read
<1>6. WindowsOwned'
  BY DEF LockInv, LockTypeOK, WindowsOwned, Read, Primary
<1>7. LockOfCreator'
  BY DEF LockInv, LockTypeOK, LockOfCreator, Read, Touching
<1>8. FoundHeld'
  BY DEF LockInv, LockTypeOK, FoundHeld, Read, Touching
<1>9. AloneUndisturbed'
  BY DEF LockInv, LockTypeOK, AloneUndisturbed, Read, Touching, Over
<1>10. QED
  BY <1>1, <1>2, <1>3, <1>4, <1>5, <1>6, <1>7, <1>8, <1>9 DEF LockInv

\* A holder lives, so only a start without a holder goes on to remove.
LEMMA JudgeKeeps ==
  ASSUME LockInv, NEW p \in Procs, Judge(p)
  PROVE  LockInv'
<1> USE LockAssumption DEF Goto, Fails, files
<1>1. LockTypeOK'
  BY DEF LockInv, LockTypeOK, Judge, Places, Touching
<1>2. OneTouches'
  BY DEF LockInv, OneTouches, Judge, Touching
<1>3. HoldersNamed'
  BY DEF LockInv, HoldersNamed, Judge, Named, Holding
<1>4. TouchKnows'
  BY DEF LockInv, TouchKnows, Judge, Alive, Holding, Over
<1>5. WriterCreated'
  BY DEF LockInv, WriterCreated, Judge
<1>6. WindowsOwned'
  BY DEF LockInv, WindowsOwned, Judge, Primary
<1>7. LockOfCreator'
  BY DEF LockInv, LockOfCreator, Judge, Touching
<1>8. FoundHeld'
  BY DEF LockInv, FoundHeld, Judge, Touching
<1>9. AloneUndisturbed'
  BY DEF LockInv, LockTypeOK, FoundHeld, AloneUndisturbed, Judge, Alive,
         Touching, Over
<1>10. QED
  BY <1>1, <1>2, <1>3, <1>4, <1>5, <1>6, <1>7, <1>8, <1>9 DEF LockInv

\* The marker is not part of the invariant.
LEMMA MarkKeeps ==
  ASSUME LockInv, NEW p \in Procs, Mark(p)
  PROVE  LockInv'
<1> USE LockAssumption DEF Goto, Fails, files
<1>1. LockTypeOK'
  BY DEF LockInv, LockTypeOK, Mark, Places
<1>2. OneTouches'
  BY DEF LockInv, OneTouches, Mark, Touching
<1>3. HoldersNamed'
  BY DEF LockInv, HoldersNamed, Mark, Named, Holding
<1>4. TouchKnows'
  BY DEF LockInv, TouchKnows, Mark, Holding
<1>5. WriterCreated'
  BY DEF LockInv, WriterCreated, Mark
<1>6. WindowsOwned'
  BY DEF LockInv, WindowsOwned, Mark, Primary
<1>7. LockOfCreator'
  BY DEF LockInv, LockOfCreator, Mark, Touching
<1>8. FoundHeld'
  BY DEF LockInv, FoundHeld, Mark, Touching
<1>9. AloneUndisturbed'
  BY DEF LockInv, AloneUndisturbed, Mark, Over
<1>10. QED
  BY <1>1, <1>2, <1>3, <1>4, <1>5, <1>6, <1>7, <1>8, <1>9 DEF LockInv

\* A signal, sent or not, is not yet a death.
LEMMA KillKeeps ==
  ASSUME LockInv, NEW p \in Procs, Kill(p)
  PROVE  LockInv'
<1> USE LockAssumption DEF Goto, Fails, files
<1>1. LockTypeOK'
  BY DEF LockInv, LockTypeOK, FoundHeld, Kill, Places, Over
<1>2. OneTouches'
  BY DEF LockInv, OneTouches, Kill, Touching
<1>3. HoldersNamed'
  BY DEF LockInv, HoldersNamed, Kill, Named, Holding
<1>4. TouchKnows'
  BY DEF LockInv, TouchKnows, Kill, Holding
<1>5. WriterCreated'
  BY DEF LockInv, WriterCreated, Kill
<1>6. WindowsOwned'
  BY DEF LockInv, WindowsOwned, Kill, Primary
<1>7. LockOfCreator'
  BY DEF LockInv, LockOfCreator, Kill, Touching
<1>8. FoundHeld'
  BY DEF LockInv, FoundHeld, Kill, Touching
<1>9. AloneUndisturbed'
  BY DEF LockInv, AloneUndisturbed, Kill, Over
<1>10. QED
  BY <1>1, <1>2, <1>3, <1>4, <1>5, <1>6, <1>7, <1>8, <1>9 DEF LockInv

\* Nobody holds the lock that is removed, or left there.
LEMMA RemoveKeeps ==
  ASSUME LockInv, NEW p \in Procs, Remove(p)
  PROVE  LockInv'
<1> USE LockAssumption DEF Goto, Fails, files
<1>1. LockTypeOK'
  BY DEF LockInv, LockTypeOK, Remove, Places, Touching
<1>2. OneTouches'
  BY DEF LockInv, OneTouches, Remove, Touching
<1>3. HoldersNamed'
  BY DEF LockInv, HoldersNamed, TouchKnows, Remove, Holding
<1>4. TouchKnows'
  BY DEF LockInv, TouchKnows, Remove, Holding
<1>5. WriterCreated'
  BY DEF LockInv, OneTouches, WriterCreated, Remove, Touching
<1>6. WindowsOwned'
  BY DEF LockInv, WindowsOwned, Remove, Primary
<1>7. LockOfCreator'
  BY DEF LockInv, LockOfCreator, Remove, Touching
<1>8. FoundHeld'
  BY DEF LockInv, FoundHeld, Remove, Touching
<1>9. AloneUndisturbed'
  BY DEF LockInv, AloneUndisturbed, Remove, Touching, Over
<1>10. QED
  BY <1>1, <1>2, <1>3, <1>4, <1>5, <1>6, <1>7, <1>8, <1>9 DEF LockInv

\* As Create, after Remove.
LEMMA CreateAgainKeeps ==
  ASSUME LockInv, NEW p \in Procs, CreateAgain(p)
  PROVE  LockInv'
<1> USE LockAssumption DEF Goto, Fails, files, CreateOr, GiveUp
<1>1. LockTypeOK'
  BY DEF LockInv, LockTypeOK, CreateAgain, Places, Touching, Over
<1>2. OneTouches'
  BY DEF LockInv, LockTypeOK, OneTouches, CreateAgain, Touching
<1>3. HoldersNamed'
  BY DEF LockInv, LockTypeOK, HoldersNamed, CreateAgain, Named, Holding
<1>4. TouchKnows'
  BY DEF LockInv, LockTypeOK, TouchKnows, CreateAgain, Holding
<1>5. WriterCreated'
  BY DEF LockInv, LockTypeOK, WriterCreated, CreateAgain
<1>6. WindowsOwned'
  BY DEF LockInv, LockTypeOK, WindowsOwned, CreateAgain, Primary
<1>7. LockOfCreator'
  BY DEF LockInv, LockTypeOK, LockOfCreator, CreateAgain, Touching
<1>8. FoundHeld'
  BY DEF LockInv, LockTypeOK, FoundHeld, CreateAgain, Touching
<1>9. AloneUndisturbed'
  BY DEF LockInv, LockTypeOK, AloneUndisturbed, CreateAgain, Touching, Over
<1>10. QED
  BY <1>1, <1>2, <1>3, <1>4, <1>5, <1>6, <1>7, <1>8, <1>9 DEF LockInv

\* The first holder has the window.
LEMMA RunKeeps ==
  ASSUME LockInv, NEW p \in Procs, Run(p)
  PROVE  LockInv'
<1> USE LockAssumption DEF Goto, files, Primary
<1>1. LockTypeOK'
  BY DEF LockInv, LockTypeOK, Run, Places, Holding
<1>2. OneTouches'
  BY DEF LockInv, OneTouches, Run, Touching
<1>3. HoldersNamed'
  BY DEF LockInv, HoldersNamed, Run, Named, Holding
<1>4. TouchKnows'
  BY DEF LockInv, TouchKnows, Run, Holding
<1>5. WriterCreated'
  BY DEF LockInv, WriterCreated, Run
<1>6. WindowsOwned'
  BY DEF LockInv, LockTypeOK, HoldersNamed, WindowsOwned, Run, Named, Holding
<1>7. LockOfCreator'
  BY DEF LockInv, LockOfCreator, Run, Touching
<1>8. FoundHeld'
  BY DEF LockInv, FoundHeld, Run, Touching
<1>9. AloneUndisturbed'
  BY DEF LockInv, AloneUndisturbed, Run, Over
<1>10. QED
  BY <1>1, <1>2, <1>3, <1>4, <1>5, <1>6, <1>7, <1>8, <1>9 DEF LockInv

\* The windows of the one process that has them become fewer.
LEMMA CloseWindowKeeps ==
  ASSUME LockInv, NEW p \in Procs, CloseWindow(p)
  PROVE  LockInv'
<1> USE LockAssumption DEF Goto, Fails, files
<1>1. LockTypeOK'
  BY DEF LockInv, LockTypeOK, WindowsOwned, CloseWindow, Primary, Places,
         Holding
<1>2. OneTouches'
  BY DEF LockInv, LockTypeOK, OneTouches, CloseWindow, Touching
<1>3. HoldersNamed'
  BY DEF LockInv, LockTypeOK, HoldersNamed, CloseWindow, Named, Holding
<1>4. TouchKnows'
  BY DEF LockInv, LockTypeOK, TouchKnows, CloseWindow, Holding
<1>5. WriterCreated'
  BY DEF LockInv, LockTypeOK, WriterCreated, CloseWindow
<1>6. WindowsOwned'
  BY DEF LockInv, LockTypeOK, WindowsOwned, CloseWindow, Primary
<1>7. LockOfCreator'
  BY DEF LockInv, LockTypeOK, LockOfCreator, CloseWindow, Touching
<1>8. FoundHeld'
  BY DEF LockInv, LockTypeOK, FoundHeld, CloseWindow, Touching
<1>9. AloneUndisturbed'
  BY DEF LockInv, LockTypeOK, AloneUndisturbed, CloseWindow, Touching, Over
<1>10. QED
  BY <1>1, <1>2, <1>3, <1>4, <1>5, <1>6, <1>7, <1>8, <1>9 DEF LockInv

\* The lock that is removed, if it can be, is the process's own, so nobody else holds it.
LEMMA DropKeeps ==
  ASSUME LockInv, NEW p \in Procs, Drop(p)
  PROVE  LockInv'
<1> USE LockAssumption DEF Goto, Fails, files
<1>1. LockTypeOK'
  BY DEF LockInv, LockTypeOK, Drop, Places, Over
<1>2. OneTouches'
  BY DEF LockInv, OneTouches, Drop, Touching
<1>3. HoldersNamed'
  BY DEF LockInv, LockTypeOK, HoldersNamed, Drop, Named, Holding
<1>4. TouchKnows'
  BY DEF LockInv, TouchKnows, Drop, Holding
<1>5. WriterCreated'
  BY DEF LockInv, TouchKnows, WriterCreated, Drop, Holding
<1>6. WindowsOwned'
  BY DEF LockInv, WindowsOwned, Drop, Primary
<1>7. LockOfCreator'
  BY DEF LockInv, LockOfCreator, Drop, Touching
<1>8. FoundHeld'
  BY DEF LockInv, FoundHeld, Drop, Touching
<1>9. AloneUndisturbed'
  BY DEF LockInv, AloneUndisturbed, Drop, Touching, Over
<1>10. QED
  BY <1>1, <1>2, <1>3, <1>4, <1>5, <1>6, <1>7, <1>8, <1>9 DEF LockInv

\* What a dead process held it does not hold any more.
LEMMA DiesKeeps ==
  ASSUME LockInv, NEW p \in Procs, Dies(p)
  PROVE  LockInv'
<1> USE LockAssumption DEF Goto, Fails, files
<1>1. LockTypeOK'
  BY DEF LockInv, LockTypeOK, Dies, Places, Over
<1>2. OneTouches'
  BY DEF LockInv, OneTouches, Dies, Touching
<1>3. HoldersNamed'
  BY DEF LockInv, HoldersNamed, Dies, Named, Holding
<1>4. TouchKnows'
  BY DEF LockInv, TouchKnows, Dies, Holding
<1>5. WriterCreated'
  BY DEF LockInv, WriterCreated, Dies
<1>6. WindowsOwned'
  BY DEF LockInv, LockTypeOK, WindowsOwned, Dies, Primary
<1>7. LockOfCreator'
  BY DEF LockInv, LockOfCreator, Dies, Touching
<1>8. FoundHeld'
  BY DEF LockInv, FoundHeld, Dies, Touching
<1>9. AloneUndisturbed'
  BY DEF LockInv, AloneUndisturbed, Dies, Touching, Over
<1>10. QED
  BY <1>1, <1>2, <1>3, <1>4, <1>5, <1>6, <1>7, <1>8, <1>9 DEF LockInv
-----------------------------------------------------------------------------
\* The marker growing old changes nothing the invariant is about.
LEMMA ExpireKeeps ==
  ASSUME LockInv, Expire
  PROVE  LockInv'
BY DEF LockInv, LockTypeOK, OneTouches, HoldersNamed, TouchKnows, WriterCreated,
       WindowsOwned, LockOfCreator, FoundHeld, AloneUndisturbed, Expire, Named, Primary

\* The parts of the invariant hold together in every state (main.rs).
THEOREM LockInductive == Spec => []LockInv
<1>1. Init => LockInv
  <2> SUFFICES ASSUME Init
               PROVE  LockInv
    OBVIOUS
  <2>1. LockTypeOK
    BY DEF Init, LockTypeOK, Places
  <2>2. OneTouches /\ HoldersNamed /\ TouchKnows /\ WriterCreated
    BY DEF Init, OneTouches, HoldersNamed, TouchKnows, WriterCreated, Touching, Holding
  <2>3. WindowsOwned
    BY DEF Init, WindowsOwned, Primary
  <2>4. LockOfCreator /\ FoundHeld /\ AloneUndisturbed
    BY LockAssumption DEF Init, LockOfCreator, FoundHeld, AloneUndisturbed
  <2>5. QED
    BY <2>1, <2>2, <2>3, <2>4 DEF LockInv
<1>2. LockInv /\ [Next]_vars => LockInv'
  <2> SUFFICES ASSUME LockInv, [Next]_vars
               PROVE  LockInv'
    OBVIOUS
  <2>1. ASSUME NEW p \in Procs, Step(p)
        PROVE  LockInv'
    <3>1. CASE Press(p)
      BY <3>1, PressKeeps
    <3>2. CASE Acquire(p)
      BY <3>2, CheckKeeps, CreateKeeps, WriteKeeps, ReadKeeps, JudgeKeeps, MarkKeeps,
         KillKeeps, RemoveKeeps, CreateAgainKeeps DEF Acquire
    <3>3. CASE Run(p) \/ CloseWindow(p) \/ Drop(p)
      BY <3>3, RunKeeps, CloseWindowKeeps, DropKeeps
    <3>4. CASE Terminate(p) \/ Crash(p)
      BY <3>4, DiesKeeps DEF Terminate, Crash
    <3>5. QED
      BY <2>1, <3>1, <3>2, <3>3, <3>4 DEF Step
  <2>2. CASE Expire
    BY <2>2, ExpireKeeps
  <2>3. CASE UNCHANGED vars
    BY <2>3 DEF vars, files, LockInv, LockTypeOK, OneTouches, HoldersNamed, TouchKnows,
         WriterCreated, WindowsOwned, LockOfCreator, FoundHeld, AloneUndisturbed, Named, Primary
  <2>4. QED
    BY <2>1, <2>2, <2>3 DEF Next
<1>3. QED
  BY <1>1, <1>2, PTL DEF Spec

\* Undisturbed there is one window, and its process is the one the lock
\* names, so the next press can close it (acquire, main.rs:29).
THEOREM OneWindowAtATime == Spec => []OneWindow
<1>1. LockInv => OneWindow
  BY DEF LockInv, WindowsOwned, HoldersNamed, Holding, OneWindow
<1>2. QED
  BY <1>1, LockInductive, PTL

\* No file that an earlier process left keeps a start that is alone from
\* opening the window (the branch of main.rs:45).
THEOREM AloneAlwaysOpens == Spec => []AloneOpens
<1>1. LockInv => AloneOpens
  BY DEF LockInv, AloneUndisturbed, AloneOpens
<1>2. QED
  BY <1>1, LockInductive, PTL
=============================================================================
