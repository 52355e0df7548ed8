SPECIFICATION Spec
CONSTANTS
  FlagKeys = {}
  SegmentKeys = {}
  ContextKinds <- MCContextKinds
  ContextKeys <- MCContextKeys
  AttrNames <- MCAttrNames
  Values <- MCValues
  StringTests <- MCStringTests
  Regexps <- MCRegexps
  Timestamps <- MCTimestamps
  SemVers <- MCSemVers
  ZeroTime <- MCZeroTime
  MillisLimit = 8
  NonASCII <- MCNonASCII
  Texts <- MCTexts
  ClauseCases <- MCClauseCases
INVARIANT
  DatesInCorrectFormatAreFound
