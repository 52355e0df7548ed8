--------------------------- MODULE MCSerialization ---------------------------
(***************************************************************************)
(* Serialization of a flag or a segment in which one object, at any place, *)
(* has at most two properties that are left out, repeated, null, empty, of *)
(* the wrong type or otherwise unusual.  What has been read is read again  *)
(* with the properties in another order, or written and read back; so is   *)
(* an item that was made by a builder.                                     *)
(***************************************************************************)
EXTENDS SerializationProperties, SequencesExt

Org == <<"string", "org">>
Number == <<"number", 1>>
MCTexts == {<<>>, <<"a">>, <<"/">>, <<"/", "a">>, <<"/", "a", "/", "b">>, <<"/", "~1", "a">>}

\* A usual value for each property, and the unusual ones.
RECURSIVE UsualObject(_)
UsualScalar(t) ==
  CASE t = "string" -> Org
    [] t = "bool" -> <<"bool", TRUE>>
    [] t = "attribute" -> <<"text", <<"/", "a", "/", "b">>>>
    [] OTHER -> Number
UsualElement(t) == IF t \in ObjectTypes THEN <<"object", UsualObject(t)>> ELSE UsualScalar(t)
Usual(p) == IF p.list THEN <<"array", <<UsualElement(p.type)>>>> ELSE UsualElement(p.type)
UsualObject(t) == [i \in DOMAIN Schema[t] |-> <<Schema[t][i].name, Usual(Schema[t][i])>>]

Unusual(p) ==
  {<<"null">>} \cup
  CASE p.list -> {<<"array", <<>>>>, <<"array", <<UsualElement(p.type), UsualElement(p.type)>>>>,
                  <<"array", <<UsualElement(p.type), <<"null">>>>>>}
    [] ~p.list /\ p.type \in ObjectTypes -> {<<"object", <<>>>>}
    [] ~p.list /\ p.type = "attribute" -> {<<"text", t>> : t \in MCTexts}
    [] ~p.list /\ p.type = "string" -> {<<"string", "">>, Number}
    [] ~p.list /\ p.type = "bool" -> {<<"bool", FALSE>>, Number}
    [] OTHER -> {<<"number", 0>>, Org}

Places == {"FeatureFlag", "Segment", "FlagRule", "Clause", "VariationOrRollout", "Rollout",
           "ClientSideAvailability", "MigrationFlagParameters", "Prerequisite", "Target",
           "SegmentRule", "SegmentTarget", "WeightedVariation"}
Object(name, json0) == <<"object", <<<<name, json0>>>>>>
Listed(name, json0) == Object(name, <<"array", <<json0>>>>)
RootOf(place) == IF place \in {"Segment", "SegmentRule", "SegmentTarget"} THEN "Segment" ELSE "FeatureFlag"
Document(place, object) ==
  CASE place \in {"FeatureFlag", "Segment"} -> object
    [] place = "FlagRule" -> Listed("rules", object)
    [] place = "Clause" -> Listed("rules", Listed("clauses", object))
    [] place = "VariationOrRollout" -> Object("fallthrough", object)
    [] place = "Rollout" -> Object("fallthrough", Object("rollout", object))
    [] place = "WeightedVariation" ->
         Object("fallthrough", Object("rollout", Listed("variations", object)))
    [] place = "ClientSideAvailability" -> Object("clientSideAvailability", object)
    [] place = "MigrationFlagParameters" -> Object("migration", object)
    [] place = "Prerequisite" -> Listed("prerequisites", object)
    [] place = "Target" -> Listed("targets", object)
    [] place = "SegmentRule" -> Listed("rules", object)
    [] place = "SegmentTarget" -> Listed("excludedContexts", object)

\* One change of an object: a property left out, replaced, or repeated at the end.
Changes(t, props) ==
  {RemoveAt(props, i) : i \in DOMAIN props}
    \cup UNION {{[props EXCEPT ![i] = <<@[1], v>>] : v \in Unusual(Properties[t][props[i][1]])} :
                  i \in DOMAIN props}
    \cup UNION {{Append(props, <<props[i][1], v>>) : v \in Unusual(Properties[t][props[i][1]])} :
                  i \in DOMAIN props}
Objects(t) ==
  LET once == {UsualObject(t)} \cup Changes(t, UsualObject(t))
  IN  IF Len(Schema[t]) > 10 THEN once ELSE once \cup UNION {Changes(t, o) : o \in once}

\* Items from builders: references are made by NewRef and NewLiteralRef.
MCReferences ==
  {UndefinedAttr} \cup {NewRef(t) : t \in MCTexts \ {<<>>}}
    \cup {NewLiteralRef(t) : t \in MCTexts \ {<<>>}}
BuiltClause(attribute, kind) ==
  [Zero["Clause"] EXCEPT !.attribute = attribute, !.contextKind = kind]
BuiltFlag(attribute, kind, csa) ==
  LET rule == [Zero["FlagRule"] EXCEPT !.clauses = <<BuiltClause(attribute, kind)>>, !.variation = <<0>>]
  IN  [Zero["FeatureFlag"] EXCEPT !.key = "built", !.on = TRUE, !.rules = <<rule>>,
         !.targets = <<[Zero["Target"] EXCEPT !.values = <<"a">>]>>,
         !.clientSideAvailability = csa]
BuiltSegment(attribute, kind) ==
  LET rule == [Zero["SegmentRule"] EXCEPT !.clauses = <<BuiltClause(UndefinedAttr, "")>>,
                 !.weight = <<1>>, !.bucketBy = attribute, !.rolloutContextKind = kind]
  IN  [Zero["Segment"] EXCEPT !.key = "built", !.rules = <<rule>>]
\* The builder's default is mobile; any call that changes it makes it explicit.
Availabilities ==
  {a \in [usingMobileKey : BOOLEAN, usingEnvironmentId : BOOLEAN, explicit : BOOLEAN] :
     a.explicit \/ (a.usingMobileKey /\ ~a.usingEnvironmentId)}
MCBuiltItems(type) ==
  IF type = "Segment"
  THEN {BuiltSegment(attribute, kind) : attribute \in MCReferences, kind \in {"", "org"}}
  ELSE {BuiltFlag(attribute, kind, csa) :
          attribute \in MCReferences, kind \in {"", "org"}, csa \in Availabilities}

OldSegment == [Zero["Segment"] EXCEPT !.key = "old", !.included = <<"a">>, !.generation = <<1>>]
OldFlag == BuiltFlag(NewRef(<<"a">>), "org", Zero["ClientSideAvailability"])
MCOldItems(type) == IF type = "Segment" THEN {OldSegment} ELSE {OldFlag}

MCDocuments(type) ==
  UNION {{Document(place, <<"object", o>>) : o \in Objects(place)} :
           place \in {p \in Places : RootOf(p) = type}}

\* One property of an object comes first: of the first object with several properties.
RECURSIVE MCReorderings(_, _)
MCReorderings(type, json) ==
  CASE json[1] = "object" /\ Len(json[2]) = 1 ->
         {Object(json[2][1][1], d) : d \in MCReorderings(type, json[2][1][2])}
    [] json[1] = "array" /\ Len(json[2]) = 1 ->
         {<<"array", <<d>>>> : d \in MCReorderings(type, json[2][1])}
    [] json[1] = "object" /\ Len(json[2]) > 1 /\ Obj!NoneRepeated(json[2]) ->
         {<<"object", <<json[2][i]>> \o RemoveAt(json[2], i)>> : i \in 2..Len(json[2])}
    [] OTHER -> {}

MCTokens == {"a", "b", "/", "~1", "~01"}
==============================================================================
