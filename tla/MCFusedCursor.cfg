SPECIFICATION FairSpec
CONSTANTS
  Spills = TRUE
  CheckpointEvery = 2
  TreeSize = 7
  Docs <- MCDocs
  Options <- AllOptions
INVARIANTS CInv MarkCountContract PendingBounded AcceptsExactlyTheGrammar DeliversTheTree
PROPERTIES ImplementsSinkProtocol Returns
