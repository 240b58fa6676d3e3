SPECIFICATION MCSpec
CONSTANTS
  g1 = g1
  r1 = r1
  lower = lower
  upper = upper
  key = key
  none = none
  Calls = {g1, r1}
  GrpcCalls = {g1}
  RestCalls = {r1}
  Requests <- MCRequests
  Ids <- MCIds
  NoId = none
  Canon <- MCCanon
  Malformed = "malformed"
  NoText = ""
  BufferCap = 1
  Attempts = 1
INVARIANTS
  KeyAckedOnce
  ReadYourWrites
PROPERTIES
  ClientContract
