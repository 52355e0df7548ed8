SPECIFICATION Spec
CONSTANTS
  Tokens <- MCTokens
  Documents <- MCDocuments
  OldItems <- MCOldItems
  BuiltItems <- MCBuiltItems
  Reorderings <- MCReorderings
INVARIANTS
  RoundTripIsExact
  OrderDoesNotMatter
  AllOrNothing
  OlderReadersFindTheirs
