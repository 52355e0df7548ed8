---------------------------- MODULE MCBigSegments ----------------------------
(***************************************************************************)
(* Big segments: a flag and its prerequisite, both with rules over big     *)
(* segments of two context kinds, and a big segment store whose answers    *)
(* and whose state of health change at any moment.                         *)
(***************************************************************************)
EXTENDS EvaluatorProperties, MCData

MCFlagKeys == {"f", "g", "h"}
MCSegmentKeys == {"p", "q", "r"}
MCContextKinds == {"user", "org"}
MCContextKeys == {"a", "b"}
MCAnonymous == [n \in {} |-> Null]
Individual(key) == [key |-> key, secondary |-> <<>>, attributes |-> MCAnonymous]
MCContexts ==
  {[valid |-> TRUE, individuals |-> [kind \in {"user"} |-> Individual("a")]],
   [valid |-> TRUE, individuals |-> [kind \in MCContextKinds |-> Individual("a")]],
   [valid |-> TRUE, individuals |->
      [kind \in MCContextKinds |-> IF kind = "user" THEN Individual("a") ELSE Individual("b")]]}
MCValues == {StringValue(key) : key \in MCSegmentKeys} \cup {Null, StringValue("x")}

Malformed == PlainClauseOn("/", StringValue("x"))
MCFlags ==
  {PlainFlag("h"),
   [PlainFlag("f") EXCEPT !.prerequisites = Requires(<<"g", "h">>),
      !.rules = <<RuleWith(<<SegmentClause(<<"p", "q">>, FALSE)>>, 0)>>],
   [PlainFlag("f") EXCEPT !.rules =
      <<RuleWith(<<SegmentClause(<<"q">>, TRUE), SegmentClause(<<"r", "p">>, TRUE)>>, 0)>>],
   [PlainFlag("g") EXCEPT !.rules = <<RuleWith(<<SegmentClause(<<"p">>, FALSE)>>, 1),
                                      RuleWith(<<SegmentClause(<<"q">>, FALSE)>>, 0)>>],
   [PlainFlag("g") EXCEPT !.rules = <<RuleWith(<<SegmentClause(<<"r", "q">>, FALSE), Malformed>>, 1)>>]}

MCSegmentVersions ==
  {[BigSegment("p", "user") EXCEPT !.rules = <<SegmentRuleWith(<<SegmentClause(<<"q">>, FALSE)>>)>>],
   [BigSegment("q", "org") EXCEPT !.rules = <<SegmentRuleWith(<<>>)>>],
   [BigSegment("r", "user") EXCEPT !.generation = <<>>]}

InBoth == <<[ref \in {<<"p", 1>>, <<"q", 1>>} |-> IF ref[1] = "p" THEN <<FALSE>> ELSE <<TRUE>>]>>
MCAnswers ==
  {[membership |-> InBoth, status |-> "HEALTHY"],
   [membership |-> <<>>, status |-> "STALE"],
   [membership |-> <<>>, status |-> "STORE_ERROR"]}
NoTable == [s \in {} |-> <<>>]

\* The hypothesis of the theorem on MeaningOfEvaluation, for these segments.
ASSUME SegmentListsAssumption == ListsAreForOtherKinds
==============================================================================
