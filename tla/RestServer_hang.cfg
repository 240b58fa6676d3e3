SPECIFICATION RFairSpec
CONSTANTS
  c1 = c1
  c2 = c2
  lower = lower
  upper = upper
  junk = junk
  key = key
  none = none
  Calls = {c1}
  RestCalls = {c1}
  Requests <- FewRequests
  Ids <- MCIds
  NoId = none
  Canon <- MCCanon
  Malformed = "malformed"
  NoText = ""
  BufferCap = 1
  Attempts = 1
PROPERTIES
  TimeoutAnswers
