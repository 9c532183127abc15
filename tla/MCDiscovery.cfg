SPECIFICATION Spec
CONSTANTS
  a1 = a1  a2 = a2
  u1 = u1  u2 = u2
  Addrs <- AddrsDef
  Sorted <- SortedDef
  Users <- UsersDef
  ByHand <- ByHandDef
  Timeout = 2
  Period = 1
  UpdateTimeout = 2
  MaxDelay = 0
  MaxTime = 3
  FirstIndex = {3}
  None = None
SYMMETRY UserSymmetry
INVARIANTS
  HeartbeatKeepsListed RoundRobinFair
PROPERTIES
  DeadForgotten
