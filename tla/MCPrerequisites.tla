--------------------------- MODULE MCPrerequisites ---------------------------
(***************************************************************************)
(* Prerequisites: three flags, each with versions that require others (in  *)
(* a chain, a diamond or a cycle), are off, fail or are malformed, in a    *)
(* data store that is updated at any moment.                               *)
(***************************************************************************)
EXTENDS EvaluatorProperties, MCData

MCFlagKeys == {"f", "g", "h"}
MCContextKeys == {"a"}
MCContexts ==
  {[valid |-> v, individuals |->
     [kind \in {"user"} |-> [key |-> "a", secondary |-> <<>>, attributes |-> <<>>]]] : v \in BOOLEAN}

TargetFor(kind, keys, i) == [contextKind |-> kind, values |-> keys, variation |-> i]

\* A rule whose clause names no attribute.
MalformedRule == RuleWith(<<PlainClauseOn("", <<"string", "a">>)>>, 1)

MCFlags ==
  {[PlainFlag("f") EXCEPT !.prerequisites = Requires(<<"h", "g">>)],
   [PlainFlag("f") EXCEPT !.prerequisites = Requires(<<"h">>), !.offVariation = <<7>>],
   PlainFlag("g"),
   [PlainFlag("g") EXCEPT !.prerequisites = Requires(<<"h">>)],
   [PlainFlag("g") EXCEPT !.prerequisites = Requires(<<"h">>), !.on = FALSE, !.offVariation = <<1>>],
   PlainFlag("h"),
   [PlainFlag("h") EXCEPT !.prerequisites = Requires(<<"f">>)],
   [PlainFlag("h") EXCEPT !.rules = <<MalformedRule>>],
   [PlainFlag("h") EXCEPT !.fallthrough = FixedVariation(2)],
   [PlainFlag("h") EXCEPT !.targets = <<TargetFor("", {"a"}, 0)>>,
      !.contextTargets = <<TargetFor("org", {"a"}, 1), TargetFor("user", {}, 0)>>]}

MCValues == {<<"string", "a">>}
MCAnswers == {[membership |-> <<>>, status |-> "HEALTHY"]}
NoTable == [s \in {} |-> <<>>]
==============================================================================
