SPECIFICATION FairSpec
CONSTANTS
  n1 = n1  n2 = n2
  agreed = agreed  disputed = disputed  spaced = spaced
  Nodes <- NodesDef
  Keys <- KeysDef
  Owner <- OwnerDef
  Received <- ReceivedDef
  Users = {u1, u2}
  Versions = {v1}
  MaxHops = 1
  None = None
  Error = Error
INVARIANTS
  SingleFlight WaitersShare OwnKey CachedAtOwner WaitsEnd
PROPERTY
  EveryGetReturns
