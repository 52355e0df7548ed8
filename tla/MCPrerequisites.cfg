SPECIFICATION Spec
CONSTANTS
  FlagKeys <- MCFlagKeys
  SegmentKeys = {}
  ContextKinds = {"user", "org"}
  ContextKeys <- MCContextKeys
  AttrNames = {}
  Values <- MCValues
  StringTests = {}
  Regexps <- NoTable
  Timestamps <- NoTable
  SemVers <- NoTable
  ZeroTime = 0
  MillisLimit = 8
  WeightScale = 4
  Hash <- NoTable
  EnableSecondaryKey = FALSE
  Flags <- MCFlags
  Segments = {}
  BigSegmentAnswers <- MCAnswers
  Contexts <- MCContexts
  ProviderConfigured = FALSE
  RecorderProvided = TRUE
  Changing = {"flags"}
INVARIANTS
  TypeOK
  NoFlagInsideItself
  FatalErrorReachesCaller
  ErrorIsLogged
  CircularOnlyIfCyclic
  EventsInPostOrder
  PrerequisiteVerdictsMatchEvents
  VariationExists
  MeaningOfEvaluation
PROPERTIES
  GivesUpAtOnce
  Termination
  KeepsTheContract
