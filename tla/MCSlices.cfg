SPECIFICATION Spec
CONSTANTS
  FlagKeys = {}
  SegmentKeys = {}
  ContextKinds = {"user"}
  ContextKeys <- MCContextKeys
  AttrNames = {}
  Values <- MCValues
  StringTests = {}
  Regexps <- NoTable
  Timestamps <- NoTable
  SemVers <- NoTable
  ZeroTime = 0
  MillisLimit = 8
  Zero = ""
  Spares = {1}
  Keys = {"f", "g", "h"}
  Preallocated = 1
  MaxChainArrays = 3
  Bytes <- MCBytes
  Ints <- MCInts
  InitialCapacity = 1
  MaxBytes = 3
  Width = 8
  KeyLists <- MCKeyLists
  ClauseLists <- MCClauseLists
  Settings = {"x"}
  MaxLength = 2
  MaxArrays = 3
  MaxBuilt = 2
INVARIANTS
  HoldsWhatWasAppended
  HexAgreesWithPositions
  BuiltItemsArePreprocessed
PROPERTIES
  NestingIsExact
  BuiltItemsStayTheSame
