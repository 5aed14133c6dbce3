SPECIFICATION Spec
CONSTANTS
  TreeSize = 5
  Docs <- MCDocs
  Options <- AllOptions
INVARIANTS ParsedIsWalkable
