----------------------------- MODULE MCSegments -----------------------------
(***************************************************************************)
(* Segments: one flag with two rules over three segments that list keys,   *)
(* contain one another (also negated, also in a cycle), are weighted, are  *)
(* malformed or are big segments without a provider, in a data store that  *)
(* is updated at any moment.                                               *)
(***************************************************************************)
EXTENDS EvaluatorProperties, MCData

MCFlagKeys == {"f"}
MCSegmentKeys == {"s", "t", "u"}
MCContextKinds == {"user", "org"}
MCContextKeys == {"a", "b"}
MCAttrNames == {"color"}
Red == <<"string", "red">>
MCValues == {Null, Red} \cup {StringValue(key) : key \in MCSegmentKeys} \cup {<<"number", 2>>}

Individual(key, color) == [key |-> key, secondary |-> <<>>, attributes |-> [n \in MCAttrNames |-> color]]
MCContexts ==
  {[valid |-> TRUE, individuals |-> [kind \in {"user"} |-> Individual("a", Red)]],
   [valid |-> TRUE, individuals |->
      [kind \in MCContextKinds |-> IF kind = "user" THEN Individual("a", Null) ELSE Individual("b", Red)]]}

ColorClause == PlainClauseOn("color", Red)
MCFlags ==
  {[PlainFlag("f") EXCEPT !.rules =
      <<RuleWith(<<SegmentClause(<<"s">>, FALSE)>>, 0),
        RuleWith(<<SegmentClause(<<"t", "u">>, TRUE)>>, 1)>>],
   [PlainFlag("f") EXCEPT !.rules =
      <<RuleWith(<<[SegmentClause(<<"t">>, FALSE) EXCEPT !.values = <<<<"number", 2>>, @[1]>>],
                   SegmentClause(<<"s">>, FALSE)>>, 3)>>]}

Weighted(clauses, weight, kind) ==
  [SegmentRuleWith(clauses) EXCEPT !.weight = <<weight>>, !.rolloutContextKind = kind]
OfOrg(keys) == <<[contextKind |-> "org", values |-> keys]>>

MCSegmentVersions ==
  {[PlainSegment("s") EXCEPT !.rules = <<SegmentRuleWith(<<SegmentClause(<<"t">>, FALSE)>>)>>],
   [PlainSegment("s") EXCEPT !.excluded = {"b"}, !.rules =
      <<SegmentRuleWith(<<SegmentClause(<<"t">>, TRUE), SegmentClause(<<"u">>, FALSE)>>)>>],
   [PlainSegment("s") EXCEPT !.included = {"a"}, !.excluded = {"a"}],
   [PlainSegment("t") EXCEPT !.rules = <<SegmentRuleWith(<<SegmentClause(<<"u", "s">>, FALSE)>>)>>],
   [PlainSegment("t") EXCEPT !.includedContexts = OfOrg({"b"}), !.excluded = {"a"}],
   [PlainSegment("t") EXCEPT !.rules =
      <<Weighted(<<>>, 2, "org"), Weighted(<<ColorClause>>, 1, "user")>>],
   [BigSegment("t", "org") EXCEPT !.rules = <<SegmentRuleWith(<<ColorClause>>)>>],
   [PlainSegment("u") EXCEPT !.excludedContexts = OfOrg({"b"}),
      !.rules = <<SegmentRuleWith(<<>>)>>],
   [PlainSegment("u") EXCEPT !.rules =
      <<[Weighted(<<ColorClause>>, 4, "user") EXCEPT !.bucketBy = "/"]>>]}

\* Users are in the second quarter of the hash's range, organisations in the first.
MCHash ==
  [input \in {HashInput(<<>>, "t", "salt", StringValue(key), <<>>) : key \in MCContextKeys} |->
     IF input[2] = StringValue("a") THEN 1 ELSE 0]

MCAnswers == {[membership |-> <<>>, status |-> "HEALTHY"]}
NoTable == [s \in {} |-> <<>>]

\* The hypothesis of the theorem on MeaningOfEvaluation, for these segments.
ASSUME SegmentListsAssumption == ListsAreForOtherKinds
==============================================================================
