SPECIFICATION FairSpec
CONSTANTS
  d1 = d1
  d2 = d2
  d3 = d3
  Daemons <- ThreeDaemons
  Managed <- OneManaged
  MaxDeaths = 2
INVARIANTS
  SocketInv
  Reachable
PROPERTIES
  Recovers
CHECK_DEADLOCK FALSE
