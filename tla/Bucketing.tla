------------------------------ MODULE Bucketing ------------------------------
(***************************************************************************)
(* Percentage rollouts and experiments (evaluator_bucketing.go and         *)
(* variationOrRolloutResult in evaluator.go), and the weight of a segment  *)
(* rule.                                                                   *)
(*                                                                         *)
(* Hash stands for "SHA1, first fifteen hex digits, divided by 2^60 - 1 in *)
(* float32".  Buckets are counted in units of one weight: WeightScale is   *)
(* 100000 in the code.  The quotient may round up to exactly 1, so that    *)
(* WeightScale itself is a possible bucket.  The float32 rounding of sums  *)
(* of weights is not modelled: sums are exact.                             *)
(***************************************************************************)
EXTENDS Clauses

CONSTANTS
  WeightScale,          \* the weight that means 100%
  Hash,                 \* hash input -> bucket in 0..WeightScale
  EnableSecondaryKey    \* EvaluatorOptionEnableSecondaryKey

ASSUME BucketingAssumption ==
  /\ WeightScale \in Nat \ {0}
  /\ \A input \in DOMAIN Hash : Hash[input] \in 0..WeightScale
  /\ EnableSecondaryKey \in BOOLEAN

\* The bytes that are hashed: a prefix, the bucketing value, and the secondary key if any.
\* Mutant: the seed is ignored.
HashInputWithoutSeed(seed, key, salt, value, secondary) ==
  <<<<key, salt>>, value, secondary>>

HashInput(seed, key, salt, value, secondary) ==
  <<IF IsDefined(seed) THEN seed ELSE <<key, salt>>, value, secondary>>

\* Mutant: an experiment may bucket by any attribute.
AttributeAsConfigured(isExperiment, bucketBy) ==
  IF bucketBy = UndefinedRef THEN "key" ELSE bucketBy

BucketingAttribute(isExperiment, bucketBy) ==
  IF isExperiment \/ bucketBy = UndefinedRef THEN "key" ELSE bucketBy

\* Mutant: the context's kind is looked up before the reference is validated.
FailureWithKindFirst(context, contextKind, attr, value) ==
  IF ~HasKind(context, contextKind) THEN "contextLacksDesiredKind"
  ELSE IF attr = InvalidRef THEN "invalidAttrRef"
  ELSE IF value = Null THEN "attributeNotFound"
  ELSE IF IsString(value) \/ IsIntValue(value) THEN ""
  ELSE "attributeValueWrongType"

\* Why there is no bucket, or "".
BucketingFailure(context, contextKind, attr, value) ==
  IF attr = InvalidRef THEN "invalidAttrRef"
  ELSE IF ~HasKind(context, contextKind) THEN "contextLacksDesiredKind"
  ELSE IF value = Null THEN "attributeNotFound"
  ELSE IF IsString(value) \/ IsIntValue(value) THEN ""
  ELSE "attributeValueWrongType"

ComputeBucketValue(context, isExperiment, seed, contextKind, key, bucketBy, salt) ==
  LET attr       == BucketingAttribute(isExperiment, bucketBy)
      individual == IndividualContextByKind(context, contextKind)
      value      == GetValueForRef(individual, contextKind, attr)
      secondary  == IF EnableSecondaryKey /\ ~isExperiment THEN individual.secondary ELSE <<>>
      problem    == BucketingFailure(context, contextKind, attr, value)
  IN  [bucket  |-> IF problem = ""
                   THEN Hash[HashInput(seed, key, salt, value, secondary)]
                   ELSE 0,
       problem |-> problem,
       err     |-> IF problem = "invalidAttrRef" THEN "badAttrRef" ELSE NoError]

\* The cumulative weight of the first n weighted variations of a rollout.
CumulativeWeight(variations) ==
  LET sum[n \in 0..Len(variations)] ==
        IF n = 0 THEN 0 ELSE sum[n - 1] + variations[n].weight
  IN  sum

\* Mutant: the end of a share belongs to it.
BucketPositionInclusive(variations, bucket) ==
  LET inside == {n \in DOMAIN variations : bucket <= CumulativeWeight(variations)[n]}
  IN  IF inside = {} THEN 0 ELSE CHOOSE n \in inside : \A m \in inside : n <= m

\* The position of the weighted variation that a bucket falls in, or 0 if it falls in none.
BucketPosition(variations, bucket) ==
  LET inside == {n \in DOMAIN variations : bucket < CumulativeWeight(variations)[n]}
  IN  IF inside = {} THEN 0 ELSE CHOOSE n \in inside : \A m \in inside : n <= m

VariationChosen(variation, inExperiment) ==
  [variation |-> variation, inExperiment |-> inExperiment, err |-> NoError]
VariationError(err) == [variation |-> -1, inExperiment |-> FALSE, err |-> err]

VariationOrRolloutResult(vr, context, key, salt) ==
  LET rollout      == vr.rollout
      variations   == rollout.variations
      isExperiment == IsExperimentRollout(rollout)
      computed     == ComputeBucketValue(context, isExperiment, rollout.seed,
                        rollout.contextKind, key, rollout.bucketBy, salt)
      position     == BucketPosition(variations, computed.bucket)
      last         == variations[Len(variations)]
  IN  IF IsDefined(vr.variation) THEN VariationChosen(vr.variation[1], FALSE)
      ELSE IF variations = <<>> THEN VariationError("emptyRollout")
      ELSE IF computed.err # NoError THEN VariationError(computed.err)
      ELSE IF position # 0
      THEN VariationChosen(variations[position].variation,
             /\ isExperiment
             /\ ~variations[position].untracked
             /\ computed.problem # "contextLacksDesiredKind")
      \* Past the end of the last bucket: the last variation takes what is left over.
      ELSE VariationChosen(last.variation, isExperiment /\ ~last.untracked)

(***************************************************************************)
(* The weight of a segment rule whose clauses all match.                   *)
(***************************************************************************)
SegmentRuleWeightMatches(rule, context, key, salt) ==
  LET computed == ComputeBucketValue(context, FALSE, <<>>, rule.rolloutContextKind,
                                     key, rule.bucketBy, salt)
  IN  IF ~IsDefined(rule.weight) THEN Matched(TRUE)
      ELSE IF computed.err # NoError THEN Failed(computed.err)
      ELSE IF computed.problem = "contextLacksDesiredKind" THEN Matched(FALSE)
      ELSE Matched(computed.bucket < rule.weight[1])
==============================================================================
