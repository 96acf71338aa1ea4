SPECIFICATION Spec
CONSTANTS
  Inputs <- MCInputs
  MaxAttempts = 2
INVARIANTS
  SectionsInOrder
  Isolation
  NothingWithoutEvidence
  DocumentAgrees
  TechnologiesShown
  FoundIsShown
  
CHECK_DEADLOCK FALSE
