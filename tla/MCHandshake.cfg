SPECIFICATION FairSpec
CONSTANTS
  Codecs = {gob, json, other}
  ClientCodecs = {gob, json}
  ServerCodecs = {gob}
  MaxRequests = 3
CHECK_DEADLOCK FALSE
INVARIANT
  StreamInStep
PROPERTIES
  FailedDialLeavesNothing DialReturns
