SPECIFICATION FairSpec
CONSTANTS
  Spills = TRUE
  CheckpointEvery = 2
  TreeSize = 8
  Docs <- MCDocs
INVARIANTS IInv MarkCountContract PendingBounded AcceptsExactlyJson DeliversTheTree
PROPERTIES ImplementsSinkProtocol Returns
