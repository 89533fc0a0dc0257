SPECIFICATION Spec
CONSTANTS
  a = a
  b = b
  MaxMutations = 2
  Identities <- MCIdentities
  Plans <- MCPlans
INVARIANTS
  TypeOK
  DriftIsLogged
  SealedDiscloses
  AppliedIsUndone
  NewestFirst
PROPERTIES
  ImplementsUndoLog
  RunEnds
CHECK_DEADLOCK FALSE
