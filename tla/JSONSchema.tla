------------------------------ MODULE JSONSchema ------------------------------
(***************************************************************************)
(* What flags and segments look like as JSON, and the scalars among their  *)
(* properties (ldmodel/model_marshal.go, model_unmarshal.go).              *)
(*                                                                         *)
(* A JSON value is <<tag, value>>, or <<"null">>; an object is a sequence  *)
(* of <<name, value>>, as the reader meets its properties one by one.  An  *)
(* attribute is a text: a sequence of tokens, of which "/" separates and   *)
(* "~1" is an escaped "/".                                                 *)
(***************************************************************************)
EXTENDS Integers, Sequences

(***************************************************************************)
(* Attribute references.  A path without components is invalid; a          *)
(* reference without a text is undefined.                                  *)
(***************************************************************************)
UndefinedAttr == [text |-> <<>>, path |-> <<>>]
Escape(token) == CASE token = "/" -> "~1" [] token = "~1" -> "~01" [] OTHER -> token
Unescape(token) == CASE token = "~1" -> "/" [] token = "~01" -> "~1" [] OTHER -> token

\* The components behind the leading "/", after each of the tokens.
ComponentsUpTo(text) ==
  LET path[n \in 1..Len(text)] ==
        IF n = 1 THEN <<<<>>>>
        ELSE IF text[n] = "/" THEN Append(path[n - 1], <<>>)
        ELSE [path[n - 1] EXCEPT ![Len(path[n - 1])] = Append(@, Unescape(text[n]))]
  IN  path
Components(text) == ComponentsUpTo(text)[Len(text)]
NewRef(text) ==
  [text |-> text,
   path |-> IF text[1] # "/" THEN <<text>>
            ELSE IF \E i \in DOMAIN Components(text) : Components(text)[i] = <<>> THEN <<>>
            ELSE Components(text)]
NewLiteralRef(text) ==
  [text |-> IF text[1] = "/" THEN <<"/">> \o [i \in DOMAIN text |-> Escape(text[i])] ELSE text,
   path |-> <<text>>]

SetAttrNameOrRef(text, kind) ==
  CASE text = <<>>                -> UndefinedAttr
    [] text # <<>> /\ kind = ""  -> NewLiteralRef(text)
    [] text # <<>> /\ kind # ""  -> NewRef(text)

\* Mutant: the reference is written as it is, also where it will be read as a name.
WriteAttrRefAsIs(ref, kind) == ref.text

WriteAttrRef(ref, kind) ==
  IF kind # "" THEN ref.text ELSE IF ref.path = <<>> THEN <<>> ELSE ref.path[1]

(***************************************************************************)
(* The properties of each type of object, in the order they are written:   *)
(* the property's name and type, whether it is a list of that type, and    *)
(* whether it is left out if it is not set.                                *)
(***************************************************************************)
Always(name, type) == [name |-> name, type |-> type, list |-> FALSE, always |-> TRUE]
IfSet(name, type) == [name |-> name, type |-> type, list |-> FALSE, always |-> FALSE]
\* Mutant: an empty list is left out.
ListIfSet(name, type) == [name |-> name, type |-> type, list |-> TRUE, always |-> FALSE]

List(name, type) == [name |-> name, type |-> type, list |-> TRUE, always |-> TRUE]

FeatureFlagSchema ==
  <<Always("key", "string"), Always("on", "bool"), List("prerequisites", "Prerequisite"),
    List("targets", "Target"), List("contextTargets", "Target"), List("rules", "FlagRule"),
    Always("fallthrough", "VariationOrRollout"), Always("offVariation", "intOrNull"),
    List("variations", "any"), IfSet("clientSideAvailability", "ClientSideAvailability"),
    Always("clientSide", "bool"), Always("salt", "string"), Always("trackEvents", "bool"),
    Always("trackEventsFallthrough", "bool"), Always("debugEventsUntilDate", "date"),
    Always("version", "int"), Always("deleted", "bool"),
    IfSet("migration", "MigrationFlagParameters"), IfSet("samplingRatio", "optionalInt"),
    IfSet("excludeFromSummaries", "bool")>>
PrerequisiteSchema == <<Always("key", "string"), Always("variation", "int")>>
TargetSchema ==
  <<IfSet("contextKind", "string"), Always("variation", "int"), List("values", "string")>>
FlagRuleSchema ==
  <<IfSet("variation", "intOrNull"), IfSet("rollout", "Rollout"), IfSet("id", "string"),
    List("clauses", "Clause"), Always("trackEvents", "bool")>>
VariationOrRolloutSchema == <<IfSet("variation", "intOrNull"), IfSet("rollout", "Rollout")>>
RolloutSchema ==
  <<IfSet("kind", "string"), IfSet("contextKind", "string"),
    List("variations", "WeightedVariation"), IfSet("seed", "intUnlessNull"),
    IfSet("bucketBy", "attribute")>>
WeightedVariationSchema ==
  <<Always("variation", "int"), Always("weight", "int"), IfSet("untracked", "bool")>>
ClauseSchema ==
  <<IfSet("contextKind", "string"), Always("attribute", "attribute"), Always("op", "string"),
    List("values", "any"), Always("negate", "bool")>>
ClientSideAvailabilitySchema ==
  <<Always("usingMobileKey", "bool"), Always("usingEnvironmentId", "bool")>>
MigrationFlagParametersSchema == <<IfSet("checkRatio", "optionalInt")>>
SegmentSchema ==
  <<Always("key", "string"), List("included", "string"), List("excluded", "string"),
    List("includedContexts", "SegmentTarget"), List("excludedContexts", "SegmentTarget"),
    Always("salt", "string"), List("rules", "SegmentRule"), IfSet("unbounded", "bool"),
    IfSet("unboundedContextKind", "string"), Always("version", "int"),
    Always("generation", "intOrNull"), Always("deleted", "bool")>>
SegmentTargetSchema == <<IfSet("contextKind", "string"), List("values", "string")>>
SegmentRuleSchema ==
  <<Always("id", "string"), List("clauses", "Clause"), IfSet("weight", "intUnlessNull"),
    IfSet("bucketBy", "attribute"), IfSet("rolloutContextKind", "string")>>
Schema ==
  [FeatureFlag |-> FeatureFlagSchema,
   Prerequisite |-> PrerequisiteSchema,
   Target |-> TargetSchema,
   FlagRule |-> FlagRuleSchema,
   VariationOrRollout |-> VariationOrRolloutSchema,
   Rollout |-> RolloutSchema,
   WeightedVariation |-> WeightedVariationSchema,
   Clause |-> ClauseSchema,
   ClientSideAvailability |-> ClientSideAvailabilitySchema,
   MigrationFlagParameters |-> MigrationFlagParametersSchema,
   Segment |-> SegmentSchema,
   SegmentTarget |-> SegmentTargetSchema,
   SegmentRule |-> SegmentRuleSchema]

ObjectTypes == DOMAIN Schema
OptionalInts == {"intOrNull", "intUnlessNull", "optionalInt"}
ScalarTypes == {"string", "bool", "int", "date", "any", "attribute"} \cup OptionalInts
Properties ==
  [type \in ObjectTypes |->
     [name \in {Schema[type][i].name : i \in DOMAIN Schema[type]} |->
        Schema[type][CHOOSE i \in DOMAIN Schema[type] : Schema[type][i].name = name]]]
Names(type) == DOMAIN Properties[type]

\* The attribute of an object that has one, and the context kind that tells what it is.
AttributeOf(type) == IF type = "Clause" THEN {"attribute"}
                     ELSE IF type \in {"Rollout", "SegmentRule"} THEN {"bucketBy"} ELSE {}
KindOf(type, r) == IF type = "SegmentRule" THEN r.rolloutContextKind ELSE r.contextKind

\* Go's zero value.  "present" tells a migration from a nil pointer.
ZeroScalar(type) ==
  CASE type = "string"              -> ""
    [] type = "bool"                -> FALSE
    [] type \in {"int", "date"}     -> 0
    [] type \in OptionalInts        -> <<>>
    [] type = "attribute"           -> UndefinedAttr
Hidden(type) ==
  CASE type = "ClientSideAvailability"  -> {"explicit"}
    [] type = "MigrationFlagParameters" -> {"present"}
    [] OTHER                            -> {}
Fields(type) == Names(type) \ {"clientSide"}
\* The zero value of an object in which the objects have the given zero values.
ZeroObject(type, NestedZero(_)) ==
  [name \in Hidden(type) \cup Fields(type) |->
     CASE name \in Hidden(type) -> FALSE
       [] name \notin Hidden(type) /\ Properties[type][name].list -> <<>>
       [] name \notin Hidden(type) /\ ~Properties[type][name].list
            /\ Properties[type][name].type \in ObjectTypes ->
            NestedZero(Properties[type][name].type)
       [] OTHER -> ZeroScalar(Properties[type][name].type)]
ZeroWithoutObjects(type) == ZeroObject(type, ZeroScalar)
ZeroOfRule(type) == ZeroObject(type, ZeroWithoutObjects)
Zero == [type \in ObjectTypes |-> ZeroObject(type, ZeroOfRule)]
\* What an element of a list is read over.
NewValue(type) == IF type \in ObjectTypes THEN Zero[type] ELSE <<>>
------------------------------------------------------------------------------
(***************************************************************************)
(* Reading.  A reader yields the value in a sequence, or <<>> after an     *)
(* error, which ends all the readers around it.                            *)
(***************************************************************************)
ReadScalar(type, old, json) ==
  CASE type = "any"                                            -> <<json>>
    [] type \in {"string", "bool"} /\ json[1] = type           -> <<json[2]>>
    [] type \in {"int", "date"} /\ json[1] = "number"          -> <<json[2]>>
    [] type \in OptionalInts /\ json[1] = "number"             -> <<<<json[2]>>>>
    [] type = "attribute" /\ json[1] = "text"                  -> <<json[2]>>
    [] type = "date" /\ json[1] = "null"                       -> <<0>>
    [] type \in {"attribute", "intOrNull"} /\ json[1] = "null" -> <<<<>>>>
    [] type = "intUnlessNull" /\ json[1] = "null"              -> <<old>>
    [] OTHER                                                   -> <<>>

\* Where a null may stand for an object.
ReadNullObject(type, old) ==
  CASE type = "Rollout"                 -> <<Zero[type]>>
    [] type = "ClientSideAvailability"  -> <<[old EXCEPT !.explicit = FALSE]>>
    [] type = "MigrationFlagParameters" -> <<[Zero[type] EXCEPT !.present = TRUE]>>
    [] OTHER                            -> <<>>

\* Local variables of a reader are fields while it runs: an attribute is kept as a text, and
\* the deprecated "clientSide" next to the flag's own fields.
BeginObject(type, old) ==
  CASE AttributeOf(type) # {} ->
         [name \in DOMAIN old |-> IF name \in AttributeOf(type) THEN <<>> ELSE old[name]]
    [] type = "FeatureFlag" ->
         [name \in Names(type) |-> IF name = "clientSide" THEN FALSE ELSE old[name]]
    [] type = "ClientSideAvailability"  -> [old EXCEPT !.explicit = TRUE]
    [] type = "MigrationFlagParameters" -> [Zero[type] EXCEPT !.present = TRUE]
    [] OTHER                            -> old

ClientSideAvailabilityOf(r) ==
  IF r.clientSideAvailability.explicit
  THEN r.clientSideAvailability
  ELSE [usingMobileKey |-> TRUE, usingEnvironmentId |-> r.clientSide, explicit |-> FALSE]

EndObject(type, r) ==
  CASE AttributeOf(type) # {} ->
         [name \in DOMAIN r |->
            IF name \in AttributeOf(type) THEN SetAttrNameOrRef(r[name], KindOf(type, r))
            ELSE r[name]]
    [] type = "FeatureFlag" ->
         [name \in Fields(type) |->
            IF name = "clientSideAvailability" THEN ClientSideAvailabilityOf(r) ELSE r[name]]
    [] OTHER -> r

------------------------------------------------------------------------------
(***************************************************************************)
(* Writing.                                                                *)
(***************************************************************************)
IsSet(p, v) ==
  CASE p.list                                -> v # <<>>
    [] p.type = "bool"                       -> v
    [] p.type = "string"                     -> v # ""
    [] p.type \in OptionalInts               -> v # <<>>
    [] p.type = "attribute"                  -> v.text # <<>>
    [] p.type = "Rollout"                    -> v.variations # <<>>
    [] p.type = "ClientSideAvailability"     -> v.explicit
    [] p.type = "MigrationFlagParameters"    -> v.present

\* What each property is written from.
Source(type, r, name) ==
  CASE name \in AttributeOf(type)   -> WriteAttrRef(r[name], KindOf(type, r))
    [] type = "FeatureFlag" /\ name = "clientSide" -> r.clientSideAvailability.usingEnvironmentId
    [] OTHER                        -> r[name]

WriteScalar(type, v) ==
  CASE type \in {"string", "bool"}  -> <<type, v>>
    [] type = "int"                 -> <<"number", v>>
    [] type = "attribute"           -> <<"text", v>>
    [] type = "any"                 -> v
    [] type \in OptionalInts        -> IF v = <<>> THEN <<"null">> ELSE <<"number", v[1]>>
    [] type = "date"                -> IF v = 0 THEN <<"null">> ELSE <<"number", v>>
==============================================================================
