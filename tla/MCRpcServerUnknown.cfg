SPECIFICATION Spec
CONSTANTS
  r1 = r1
  r2 = r2
  bad = bad
  unknown = unknown
  Requests = {r1, unknown}
  Unknown = {unknown}
  BadBody = {}
  NoRequest = NoRequest
  OutCap = 1
INVARIANTS
  RefusalKeepsConnection
