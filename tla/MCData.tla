------------------------------- MODULE MCData -------------------------------
(***************************************************************************)
(* Flags, segments and contexts for the model checking instances, built    *)
(* from a plain record of each type.                                       *)
(***************************************************************************)
EXTENDS Sequences, Integers

NoRollout == [kind |-> "", contextKind |-> "", variations |-> <<>>, bucketBy |-> "", seed |-> <<>>]
FixedVariation(i) == [variation |-> <<i>>, rollout |-> NoRollout]

\* A flag that is on, has two variations, serves the second one and has no conditions.
PlainFlag(key) ==
  [key |-> key, on |-> TRUE, salt |-> "salt", variations |-> 2, prerequisites |-> <<>>,
   targets |-> <<>>, contextTargets |-> <<>>, rules |-> <<>>,
   fallthrough |-> FixedVariation(1), offVariation |-> <<0>>, trackEventsFallthrough |-> FALSE]

\* Prerequisites that all ask for variation 1.
Requires(keys) == [i \in DOMAIN keys |-> [key |-> keys[i], variation |-> 1]]

NotParsed == [valuesMap |-> <<>>, values |-> <<>>]
PlainClauseOn(attr, v) ==
  [op |-> "in", attribute |-> attr, values |-> <<v>>, negate |-> FALSE, contextKind |-> "user",
   preprocessed |-> NotParsed]
SegmentClause(keys, negate) ==
  [op |-> "segmentMatch", attribute |-> "", negate |-> negate, contextKind |-> "",
   values |-> [i \in DOMAIN keys |-> <<"string", keys[i]>>], preprocessed |-> NotParsed]

RuleWith(clauses, i) == [clauses |-> clauses, vr |-> FixedVariation(i), trackEvents |-> FALSE]

\* A segment with empty lists and no rules.
PlainSegment(key) ==
  [key |-> key, salt |-> "salt", unbounded |-> FALSE, generation |-> <<>>,
   unboundedContextKind |-> "", included |-> {}, excluded |-> {}, includedContexts |-> <<>>,
   excludedContexts |-> <<>>, rules |-> <<>>]
BigSegment(key, kind) ==
  [PlainSegment(key) EXCEPT !.unbounded = TRUE, !.generation = <<1>>, !.unboundedContextKind = kind]
SegmentRuleWith(clauses) ==
  [clauses |-> clauses, weight |-> <<>>, bucketBy |-> "", rolloutContextKind |-> ""]
==============================================================================
