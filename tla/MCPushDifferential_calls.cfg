SPECIFICATION Spec
CONSTANTS
  Spills = FALSE
  CheckpointEvery = 2
  TreeSize = 6
  Docs <- MCDocs
  Limits = {0, 1, 3, 4}
INVARIANTS SameCalls
