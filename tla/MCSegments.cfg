SPECIFICATION Spec
CONSTANTS
  FlagKeys <- MCFlagKeys
  SegmentKeys <- MCSegmentKeys
  ContextKinds <- MCContextKinds
  ContextKeys <- MCContextKeys
  AttrNames <- MCAttrNames
  Values <- MCValues
  StringTests = {}
  Regexps <- NoTable
  Timestamps <- NoTable
  SemVers <- NoTable
  ZeroTime = 0
  MillisLimit = 8
  WeightScale = 4
  Hash <- MCHash
  EnableSecondaryKey = FALSE
  Flags <- MCFlags
  Segments <- MCSegmentVersions
  BigSegmentAnswers <- MCAnswers
  Contexts <- MCContexts
  ProviderConfigured = FALSE
  RecorderProvided = TRUE
  Changing = {"segments"}
INVARIANTS
  NoSegmentInsideItself
  NeverException
  MeaningOfEvaluation
  StatusIsWorstSeen
PROPERTIES
  Termination
