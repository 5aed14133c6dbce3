SPECIFICATION BothSpec
CONSTANTS
  TreeSize = 8
  EditSize = 4
  RawTokens <- MCRaw
  Text <- MCText
  Index <- MCIndex
  Docs <- MCDocs
  Batches <- MCBatches
  Options <- AllOptions
INVARIANTS BInv BatchMatchesSingles ResolvesByReference BatchAcceptsTheGrammar
PROPERTIES StopsWhenResolved
