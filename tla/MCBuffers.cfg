SPECIFICATION Spec
CONSTANTS
  Inputs <- MCInputs
  Length <- MCLength
INVARIANT GuardedByLastIndexed
