SPECIFICATION InputSpec
CONSTANT Inputs <- MCInputs
INVARIANTS
  AcceptedEntryIsFindable
  QueryAcceptedIffInRange
  InterfacesAgree
  ConfigAcceptedIffDocumented
  FailureIsWritten
