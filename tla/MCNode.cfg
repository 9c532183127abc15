SPECIFICATION MCSpec
CONSTANTS
  k1 = k1  k2 = k2  k3 = k3
  small = small  big = big  huge = huge
  Keys <- KeysDef
  Values <- ValuesDef
  KeyLen <- KeyLenDef
  ValueLen <- ValueLenDef
  Limits <- LimitsDef
  n1 = n1  n2 = n2  n3 = n3
  RingPeers = {n1, n2, n3}
  Replicas = 2
  MaxPoint = 3
INVARIANTS
  Accounting WithinLimit KeepsMostRecent NoNeedlessEviction
  NextClockwise OrderIrrelevant
PROPERTIES
  ImplementsCache OthersKeep
