SPECIFICATION Spec
CONSTANTS
  FlagKeys <- MCFlagKeys
  SegmentKeys = {}
  ContextKinds <- MCContextKinds
  ContextKeys <- MCContextKeys
  AttrNames <- MCAttrNames
  Values <- MCValues
  StringTests = {}
  Regexps <- NoTable
  Timestamps <- NoTable
  SemVers <- NoTable
  ZeroTime = 0
  MillisLimit = 8
  WeightScale = 4
  Hash <- MCHash
  EnableSecondaryKey = TRUE
  Rollouts <- MCRollouts
  RolloutContexts <- MCRolloutContexts
  SecondaryKeys <- MCSecondaryKeys
  RolloutFlag = "f"
  RolloutSalt = "salt"
  Population <- MCPopulation
INVARIANTS
  SharesMatchWeights
  ErrorForAllContextsOrNone
  ExperimentBucketsByKeyOnly
  SeedReplacesFlagKey
