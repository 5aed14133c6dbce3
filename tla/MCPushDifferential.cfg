SPECIFICATION Spec
CONSTANTS
  Spills = FALSE
  CheckpointEvery = 2
  TreeSize = 7
  Docs <- MCDocs
  Limits = {0, 1, 3, 4}
INVARIANTS SameEvents
