SPECIFICATION FairWireSpec
CONSTANTS
  c1 = c1
  c2 = c2
  Calls <- MCCalls
  NoCall = NoCall
  WireCap = 1
INVARIANTS
  DoneOnce
  OwnReply
PROPERTIES
  ImplementsCalls
  ImplementsPeer
  LostConnReleases
