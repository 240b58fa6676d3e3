SPECIFICATION MCSpec
CONSTANTS
  c1 = c1
  c2 = c2
  c3 = c3
  lower = lower
  upper = upper
  junk = junk
  key = key
  none = none
  Calls = {c1, c2, c3}
  Requests <- MCRequests
  Ids <- MCIds
  NoId = none
  Canon <- MCCanon
  Malformed = "malformed"
  NoText = ""
  BufferCap = 1
  Attempts = 2
SYMMETRY Symmetry
INVARIANTS
  TypeOK
  AckIsStored
  HeardIsStored
  FailedIsSilent
  PublishedOnce
PROPERTIES
  ImplementsContract
  ReadsAcknowledged
  PagesAreFull
