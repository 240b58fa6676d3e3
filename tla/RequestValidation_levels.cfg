SPECIFICATION InputSpec
CONSTANT Inputs <- MCInputs
INVARIANTS
  DocumentedLevelAccepted
