SPECIFICATION Spec
CONSTANTS
  a = a
  b = b
  MaxMutations = 2
  Identities <- MCIdentities
  Plans <- MCPlans
INVARIANT
  RevertedHoweverEnded
CHECK_DEADLOCK FALSE
