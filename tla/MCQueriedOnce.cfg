SPECIFICATION Spec
CONSTANTS
  FlagKeys <- MCFlagKeys
  SegmentKeys <- MCSegmentKeys
  ContextKinds <- MCContextKinds
  ContextKeys <- MCContextKeys
  AttrNames = {}
  Values <- MCValues
  StringTests = {}
  Regexps <- NoTable
  Timestamps <- NoTable
  SemVers <- NoTable
  ZeroTime = 0
  MillisLimit = 8
  WeightScale = 4
  Hash <- NoTable
  EnableSecondaryKey = FALSE
  Flags <- MCFlags
  Segments <- MCSegmentVersions
  BigSegmentAnswers <- MCAnswers
  Contexts <- MCContexts
  ProviderConfigured = TRUE
  RecorderProvided = TRUE
  Changing = {}
INVARIANT
  QueriedOncePerEvaluation
