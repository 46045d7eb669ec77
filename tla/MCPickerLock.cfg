SPECIFICATION FairSpec
CONSTANTS
  p1 = p1
  p2 = p2
  p3 = p3
  NoProc = NoProc
  Procs <- ThreeProcs
INVARIANTS
  LockInv
  AloneOpens
  OneWindow
PROPERTIES
  ClosesOpen
CHECK_DEADLOCK FALSE
