SPECIFICATION Spec
CONSTANTS
  Tokens <- MCTokens
  Documents <- MCDocuments
  OldItems <- MCOldItems
  BuiltItems <- MCBuiltItems
  Reorderings <- MCReorderings
INVARIANT
  GuaranteedRoundTrip
