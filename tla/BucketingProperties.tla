------------------------- MODULE BucketingProperties -------------------------
(***************************************************************************)
(* What rollouts and experiments promise.  A behaviour evaluates one       *)
(* rollout of one flag for one context.                                    *)
(***************************************************************************)
EXTENDS Bucketing

CONSTANTS
  Rollouts,           \* the rollouts of the flag
  RolloutContexts,    \* the contexts they are evaluated for
  SecondaryKeys,      \* optional secondary keys that a context may have instead of its own
  RolloutFlag,        \* the flag's key
  RolloutSalt,        \* and its salt
  Population          \* for every bucket, a context whose key leads to it

Assigned(r, c, key) ==
  VariationOrRolloutResult([variation |-> <<>>, rollout |-> r], c, key, RolloutSalt)
\* A rollout as it is without a seed and an attribute of its own.
ByKeyOnly(r) == [r EXCEPT !.bucketBy = UndefinedRef, !.seed = <<>>]
BucketOf(r, c) ==
  ComputeBucketValue(c, IsExperimentRollout(r), r.seed, r.contextKind, RolloutFlag,
                     r.bucketBy, RolloutSalt)

ASSUME RolloutsAssumption ==
  /\ Rollouts \subseteq Rollout
  /\ \A c \in RolloutContexts : IsContext(c)
  /\ RolloutFlag \in FlagKeys

\* Any bucket is that of some key.
ASSUME PopulationAssumption ==
  \A r \in Rollouts, b \in 0..WeightScale :
    BucketOf(ByKeyOnly(r), Population[b]) = [bucket |-> b, problem |-> "", err |-> NoError]

VARIABLES rollout, context, assigned
rolloutVars == <<rollout, context, assigned>>

Init == rollout \in Rollouts /\ context \in RolloutContexts /\ assigned = <<>>
Assign ==
  /\ assigned = <<>>
  /\ assigned' = <<Assigned(rollout, context, RolloutFlag)>>
  /\ UNCHANGED <<rollout, context>>
Next == Assign \/ (assigned # <<>> /\ UNCHANGED rolloutVars)
Spec == Init /\ [][Next]_rolloutVars

------------------------------------------------------------------------------
IsDone == IsDefined(assigned)

\* What the contexts in a bucket get.
InBucket(r, b) == Assigned(ByKeyOnly(r), Population[b], RolloutFlag).variation
TotalBefore(r, i) == CumulativeWeight(r.variations)[i - 1]
Share(r, v) == Cardinality({b \in 0..(WeightScale - 1) : InBucket(r, b) = v})
IsPartition(r) ==
  /\ r.variations # <<>>
  /\ \A i, j \in DOMAIN r.variations :
       i # j => r.variations[i].variation # r.variations[j].variation
  /\ TotalBefore(r, Len(r.variations)) <= WeightScale

\* Each variation of a rollout but the last gets the share of the hash's range that its
\* weight says, the last one all that is left over, and the shares lie in the order of the
\* list, so that a change of a later weight does not move users between earlier variations.
SharesMatchWeights ==
  IsPartition(rollout) =>
    LET variations == rollout.variations
        n == Len(variations)
    IN  /\ \A i \in 1..(n - 1) : Share(rollout, variations[i].variation) = variations[i].weight
        /\ Share(rollout, variations[n].variation) = WeightScale - TotalBefore(rollout, n)
        /\ \A b, c \in 0..WeightScale : b <= c =>
             \E i, j \in 1..n :
               /\ InBucket(rollout, b) = variations[i].variation
               /\ InBucket(rollout, c) = variations[j].variation
               /\ i <= j

\* Whether a rollout is malformed does not depend on the context it is evaluated for: an
\* invalid attribute reference is an error also for contexts that lack the rollout's kind.
ErrorForAllContextsOrNone ==
  IsDone => \A c \in RolloutContexts : Assigned(rollout, c, RolloutFlag).err = assigned[1].err

\* An experiment buckets by key alone: neither bucketBy, not even a malformed one, nor the
\* secondary key changes its result.
ExperimentBucketsByKeyOnly ==
  IsDone /\ rollout.kind = "experiment" =>
    \A by \in AttrRef, secondary \in SecondaryKeys :
      LET same == [rollout EXCEPT !.bucketBy = by]
          twin == [context EXCEPT !.individuals =
                     [kind \in DOMAIN @ |-> [@[kind] EXCEPT !.secondary = secondary]]]
      IN  Assigned(same, twin, RolloutFlag) = assigned[1]

\* Rollouts with one seed put a context in the same place whatever flags they belong to.
SeedReplacesFlagKey ==
  IsDone /\ IsDefined(rollout.seed) =>
    \A key \in FlagKeys : Assigned(rollout, context, key) = assigned[1]
==============================================================================
