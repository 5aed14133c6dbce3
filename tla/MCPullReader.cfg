SPECIFICATION FairSpec
CONSTANTS
  TreeSize = 7
  Docs <- MCDocs
  Options <- AllOptions
INVARIANTS RInv WalksExactlyTheGrammar SlicesAreDocuments
PROPERTIES HintExact Returns
