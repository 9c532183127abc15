SPECIFICATION FairSpec
CONSTANTS
  r1 = r1
  r2 = r2
  bad = bad
  unknown = unknown
  Requests = {r1, r2, bad, unknown}
  Unknown = {unknown}
  BadBody = {bad}
  NoRequest = NoRequest
  OutCap = 1
INVARIANTS
  AnsweredOnce
  NoneLeftAtClose
PROPERTIES
  ImplementsPeer
  TimedRequestsAnswered
  ClosedAfterClient
