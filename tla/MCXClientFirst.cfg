SPECIFICATION FairSpec
CONSTANTS
  o1 = o1  o2 = o2
  s1 = s1  s2 = s2
  c1 = c1  c2 = c2
  Ops <- OneOp
  Servers <- ServersDef
  Clients <- ClientsDef
  None = None
  Unwanted = Unwanted
CHECK_DEADLOCK FALSE
PROPERTY
  ReturnsOnFirstSuccess
