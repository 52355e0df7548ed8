------------------------- MODULE SerializationProofs -------------------------
(***************************************************************************)
(* What documents say is read whatever the order, or nothing of it is;     *)
(* what is written is there for older readers, and is read back as it was. *)
(***************************************************************************)
EXTENDS SerializationProperties, SequenceTheorems, RecursionFacts

------------------------------------------------------------------------------
(***************************************************************************)
(* The schema: which objects nest, and which properties may be left out.   *)
(***************************************************************************)
LeafTypes ==
  {"Prerequisite", "Target", "WeightedVariation", "Clause", "ClientSideAvailability",
   "MigrationFlagParameters", "SegmentTarget"}
RolloutTypes == {"Rollout", "SegmentRule"}
RuleTypes == {"FlagRule", "VariationOrRollout", "Segment"}
\* What each level handles, with the scalars and the levels below.
TypesOfLeaves == ScalarTypes \cup LeafTypes
TypesOfRollouts == TypesOfLeaves \cup RolloutTypes
TypesOfRules == TypesOfRollouts \cup RuleTypes
Below(type) ==
  CASE type \in LeafTypes    -> ScalarTypes
    [] type \in RolloutTypes -> TypesOfLeaves
    [] type \in RuleTypes    -> TypesOfRollouts
    [] type = "FeatureFlag"  -> TypesOfRules
\* What a property may be in an object of a type.
Fits(type, p) ==
  /\ p.type \in Below(type)
  /\ p.list \in BOOLEAN /\ p.always \in BOOLEAN
  /\ p.list => p.always /\ p.type # "attribute"
  /\ p.name \in AttributeOf(type) <=> p.type = "attribute"
  /\ p.name \notin {"explicit", "present"}
  /\ p.name = "clientSide" => type = "FeatureFlag" /\ p.type = "bool" /\ ~p.list
  /\ ~p.always => p.type \notin {"int", "date", "any"}
  /\ p.always => p.type \notin {"ClientSideAvailability", "MigrationFlagParameters",
                                "intUnlessNull", "optionalInt"}
  /\ p.type \in ObjectTypes /\ ~p.list =>
       \/ p.type = "VariationOrRollout" /\ p.always /\ type = "FeatureFlag"
       \/ p.type \in {"ClientSideAvailability", "MigrationFlagParameters"} /\ ~p.always
            /\ type = "FeatureFlag"
       \/ p.type = "Rollout" /\ ~p.always
IsSchema(type, schema) ==
  /\ Len(schema) \in Nat /\ DOMAIN schema = 1..Len(schema)
  /\ \A i, j \in DOMAIN schema : schema[i].name = schema[j].name => i = j
  /\ \A i \in DOMAIN schema : Fits(type, schema[i])

\* Objects nest four deep.
LEMMA TypesByDepth ==
  ObjectTypes = LeafTypes \cup RolloutTypes \cup RuleTypes \cup {"FeatureFlag"}
BY DEF ObjectTypes, Schema, LeafTypes, RolloutTypes, RuleTypes

\* The properties of a flag.
LEMMA FeatureFlagIsSchema == IsSchema("FeatureFlag", FeatureFlagSchema)
<1> DEFINE s == FeatureFlagSchema
           fits(p) == Fits("FeatureFlag", p)
<1>1. /\ Len(s) \in Nat /\ DOMAIN s = 1..Len(s)
      /\ \A i, j \in DOMAIN s : s[i].name = s[j].name => i = j
  BY DEF FeatureFlagSchema, Always, IfSet, List
<1>2. /\ fits(Always("key", "string")) /\ fits(Always("on", "bool"))
      /\ fits(List("prerequisites", "Prerequisite")) /\ fits(List("targets", "Target"))
      /\ fits(List("contextTargets", "Target")) /\ fits(List("rules", "FlagRule"))
      /\ fits(Always("fallthrough", "VariationOrRollout"))
      /\ fits(Always("offVariation", "intOrNull")) /\ fits(List("variations", "any"))
      /\ fits(IfSet("clientSideAvailability", "ClientSideAvailability"))
      /\ fits(Always("clientSide", "bool")) /\ fits(Always("salt", "string"))
      /\ fits(Always("trackEvents", "bool")) /\ fits(Always("trackEventsFallthrough", "bool"))
      /\ fits(Always("debugEventsUntilDate", "date")) /\ fits(Always("version", "int"))
      /\ fits(Always("deleted", "bool")) /\ fits(IfSet("migration", "MigrationFlagParameters"))
      /\ fits(IfSet("samplingRatio", "optionalInt"))
      /\ fits(IfSet("excludeFromSummaries", "bool"))
  BY TypesByDepth DEF Fits, Below, TypesOfLeaves, TypesOfRollouts, TypesOfRules, LeafTypes,
     RolloutTypes, RuleTypes, ScalarTypes, OptionalInts, AttributeOf, Always, IfSet, List
<1> HIDE DEF fits
<1>3. \A i \in DOMAIN s : fits(s[i])
  BY <1>2 DEF FeatureFlagSchema
<1> QED BY <1>1, <1>3, Zenon DEF IsSchema, fits

\* The properties of a prerequisite.
LEMMA PrerequisiteIsSchema == IsSchema("Prerequisite", PrerequisiteSchema)
<1> DEFINE s == PrerequisiteSchema
           fits(p) == Fits("Prerequisite", p)
<1>1. /\ Len(s) \in Nat /\ DOMAIN s = 1..Len(s)
      /\ \A i, j \in DOMAIN s : s[i].name = s[j].name => i = j
  BY DEF PrerequisiteSchema, Always, IfSet, List
<1>2. /\ fits(Always("key", "string")) /\ fits(Always("variation", "int"))
  BY TypesByDepth DEF Fits, Below, TypesOfLeaves, TypesOfRollouts, TypesOfRules, LeafTypes,
     RolloutTypes, RuleTypes, ScalarTypes, OptionalInts, AttributeOf, Always, IfSet, List
<1> HIDE DEF fits
<1>3. \A i \in DOMAIN s : fits(s[i])
  BY <1>2 DEF PrerequisiteSchema
<1> QED BY <1>1, <1>3, Zenon DEF IsSchema, fits

\* The properties of a target.
LEMMA TargetIsSchema == IsSchema("Target", TargetSchema)
<1> DEFINE s == TargetSchema
           fits(p) == Fits("Target", p)
<1>1. /\ Len(s) \in Nat /\ DOMAIN s = 1..Len(s)
      /\ \A i, j \in DOMAIN s : s[i].name = s[j].name => i = j
  BY DEF TargetSchema, Always, IfSet, List
<1>2. /\ fits(IfSet("contextKind", "string")) /\ fits(Always("variation", "int"))
      /\ fits(List("values", "string"))
  BY TypesByDepth DEF Fits, Below, TypesOfLeaves, TypesOfRollouts, TypesOfRules, LeafTypes,
     RolloutTypes, RuleTypes, ScalarTypes, OptionalInts, AttributeOf, Always, IfSet, List
<1> HIDE DEF fits
<1>3. \A i \in DOMAIN s : fits(s[i])
  BY <1>2 DEF TargetSchema
<1> QED BY <1>1, <1>3, Zenon DEF IsSchema, fits

\* The properties of a flag's rule.
LEMMA FlagRuleIsSchema == IsSchema("FlagRule", FlagRuleSchema)
<1> DEFINE s == FlagRuleSchema
           fits(p) == Fits("FlagRule", p)
<1>1. /\ Len(s) \in Nat /\ DOMAIN s = 1..Len(s)
      /\ \A i, j \in DOMAIN s : s[i].name = s[j].name => i = j
  BY DEF FlagRuleSchema, Always, IfSet, List
<1>2. /\ fits(IfSet("variation", "intOrNull")) /\ fits(IfSet("rollout", "Rollout"))
      /\ fits(IfSet("id", "string")) /\ fits(List("clauses", "Clause"))
      /\ fits(Always("trackEvents", "bool"))
  BY TypesByDepth DEF Fits, Below, TypesOfLeaves, TypesOfRollouts, TypesOfRules, LeafTypes,
     RolloutTypes, RuleTypes, ScalarTypes, OptionalInts, AttributeOf, Always, IfSet, List
<1> HIDE DEF fits
<1>3. \A i \in DOMAIN s : fits(s[i])
  BY <1>2 DEF FlagRuleSchema
<1> QED BY <1>1, <1>3, Zenon DEF IsSchema, fits

\* The properties of a variation or rollout.
LEMMA VariationOrRolloutIsSchema == IsSchema("VariationOrRollout", VariationOrRolloutSchema)
<1> DEFINE s == VariationOrRolloutSchema
           fits(p) == Fits("VariationOrRollout", p)
<1>1. /\ Len(s) \in Nat /\ DOMAIN s = 1..Len(s)
      /\ \A i, j \in DOMAIN s : s[i].name = s[j].name => i = j
  BY DEF VariationOrRolloutSchema, Always, IfSet, List
<1>2. /\ fits(IfSet("variation", "intOrNull")) /\ fits(IfSet("rollout", "Rollout"))
  BY TypesByDepth DEF Fits, Below, TypesOfLeaves, TypesOfRollouts, TypesOfRules, LeafTypes,
     RolloutTypes, RuleTypes, ScalarTypes, OptionalInts, AttributeOf, Always, IfSet, List
<1> HIDE DEF fits
<1>3. \A i \in DOMAIN s : fits(s[i])
  BY <1>2 DEF VariationOrRolloutSchema
<1> QED BY <1>1, <1>3, Zenon DEF IsSchema, fits

\* The properties of a rollout.
LEMMA RolloutIsSchema == IsSchema("Rollout", RolloutSchema)
<1> DEFINE s == RolloutSchema
           fits(p) == Fits("Rollout", p)
<1>1. /\ Len(s) \in Nat /\ DOMAIN s = 1..Len(s)
      /\ \A i, j \in DOMAIN s : s[i].name = s[j].name => i = j
  BY DEF RolloutSchema, Always, IfSet, List
<1>2. /\ fits(IfSet("kind", "string")) /\ fits(IfSet("contextKind", "string"))
      /\ fits(List("variations", "WeightedVariation")) /\ fits(IfSet("seed", "intUnlessNull"))
      /\ fits(IfSet("bucketBy", "attribute"))
  BY TypesByDepth DEF Fits, Below, TypesOfLeaves, TypesOfRollouts, TypesOfRules, LeafTypes,
     RolloutTypes, RuleTypes, ScalarTypes, OptionalInts, AttributeOf, Always, IfSet, List
<1> HIDE DEF fits
<1>3. \A i \in DOMAIN s : fits(s[i])
  BY <1>2 DEF RolloutSchema
<1> QED BY <1>1, <1>3, Zenon DEF IsSchema, fits

\* The properties of a weighted variation.
LEMMA WeightedVariationIsSchema == IsSchema("WeightedVariation", WeightedVariationSchema)
<1> DEFINE s == WeightedVariationSchema
           fits(p) == Fits("WeightedVariation", p)
<1>1. /\ Len(s) \in Nat /\ DOMAIN s = 1..Len(s)
      /\ \A i, j \in DOMAIN s : s[i].name = s[j].name => i = j
  BY DEF WeightedVariationSchema, Always, IfSet, List
<1>2. /\ fits(Always("variation", "int")) /\ fits(Always("weight", "int"))
      /\ fits(IfSet("untracked", "bool"))
  BY TypesByDepth DEF Fits, Below, TypesOfLeaves, TypesOfRollouts, TypesOfRules, LeafTypes,
     RolloutTypes, RuleTypes, ScalarTypes, OptionalInts, AttributeOf, Always, IfSet, List
<1> HIDE DEF fits
<1>3. \A i \in DOMAIN s : fits(s[i])
  BY <1>2 DEF WeightedVariationSchema
<1> QED BY <1>1, <1>3, Zenon DEF IsSchema, fits

\* The properties of a clause.
LEMMA ClauseIsSchema == IsSchema("Clause", ClauseSchema)
<1> DEFINE s == ClauseSchema
           fits(p) == Fits("Clause", p)
<1>1. /\ Len(s) \in Nat /\ DOMAIN s = 1..Len(s)
      /\ \A i, j \in DOMAIN s : s[i].name = s[j].name => i = j
  BY DEF ClauseSchema, Always, IfSet, List
<1>2. /\ fits(IfSet("contextKind", "string")) /\ fits(Always("attribute", "attribute"))
      /\ fits(Always("op", "string")) /\ fits(List("values", "any"))
      /\ fits(Always("negate", "bool"))
  BY TypesByDepth DEF Fits, Below, TypesOfLeaves, TypesOfRollouts, TypesOfRules, LeafTypes,
     RolloutTypes, RuleTypes, ScalarTypes, OptionalInts, AttributeOf, Always, IfSet, List
<1> HIDE DEF fits
<1>3. \A i \in DOMAIN s : fits(s[i])
  BY <1>2 DEF ClauseSchema
<1> QED BY <1>1, <1>3, Zenon DEF IsSchema, fits

\* The properties of client-side availability.
LEMMA ClientSideAvailabilityIsSchema ==
  IsSchema("ClientSideAvailability", ClientSideAvailabilitySchema)
<1> DEFINE s == ClientSideAvailabilitySchema
           fits(p) == Fits("ClientSideAvailability", p)
<1>1. /\ Len(s) \in Nat /\ DOMAIN s = 1..Len(s)
      /\ \A i, j \in DOMAIN s : s[i].name = s[j].name => i = j
  BY DEF ClientSideAvailabilitySchema, Always, IfSet, List
<1>2. /\ fits(Always("usingMobileKey", "bool")) /\ fits(Always("usingEnvironmentId", "bool"))
  BY TypesByDepth DEF Fits, Below, TypesOfLeaves, TypesOfRollouts, TypesOfRules, LeafTypes,
     RolloutTypes, RuleTypes, ScalarTypes, OptionalInts, AttributeOf, Always, IfSet, List
<1> HIDE DEF fits
<1>3. \A i \in DOMAIN s : fits(s[i])
  BY <1>2 DEF ClientSideAvailabilitySchema
<1> QED BY <1>1, <1>3, Zenon DEF IsSchema, fits

\* The properties of migration parameters.
LEMMA MigrationFlagParametersIsSchema ==
  IsSchema("MigrationFlagParameters", MigrationFlagParametersSchema)
<1> DEFINE s == MigrationFlagParametersSchema
           fits(p) == Fits("MigrationFlagParameters", p)
<1>1. /\ Len(s) \in Nat /\ DOMAIN s = 1..Len(s)
      /\ \A i, j \in DOMAIN s : s[i].name = s[j].name => i = j
  BY DEF MigrationFlagParametersSchema, Always, IfSet, List
<1>2. /\ fits(IfSet("checkRatio", "optionalInt"))
  BY TypesByDepth DEF Fits, Below, TypesOfLeaves, TypesOfRollouts, TypesOfRules, LeafTypes,
     RolloutTypes, RuleTypes, ScalarTypes, OptionalInts, AttributeOf, Always, IfSet, List
<1> HIDE DEF fits
<1>3. \A i \in DOMAIN s : fits(s[i])
  BY <1>2 DEF MigrationFlagParametersSchema
<1> QED BY <1>1, <1>3, Zenon DEF IsSchema, fits

\* The properties of a segment.
LEMMA SegmentIsSchema == IsSchema("Segment", SegmentSchema)
<1> DEFINE s == SegmentSchema
           fits(p) == Fits("Segment", p)
<1>1. /\ Len(s) \in Nat /\ DOMAIN s = 1..Len(s)
      /\ \A i, j \in DOMAIN s : s[i].name = s[j].name => i = j
  BY DEF SegmentSchema, Always, IfSet, List
<1>2. /\ fits(Always("key", "string")) /\ fits(List("included", "string"))
      /\ fits(List("excluded", "string")) /\ fits(List("includedContexts", "SegmentTarget"))
      /\ fits(List("excludedContexts", "SegmentTarget")) /\ fits(Always("salt", "string"))
      /\ fits(List("rules", "SegmentRule")) /\ fits(IfSet("unbounded", "bool"))
      /\ fits(IfSet("unboundedContextKind", "string")) /\ fits(Always("version", "int"))
      /\ fits(Always("generation", "intOrNull")) /\ fits(Always("deleted", "bool"))
  BY TypesByDepth DEF Fits, Below, TypesOfLeaves, TypesOfRollouts, TypesOfRules, LeafTypes,
     RolloutTypes, RuleTypes, ScalarTypes, OptionalInts, AttributeOf, Always, IfSet, List
<1> HIDE DEF fits
<1>3. \A i \in DOMAIN s : fits(s[i])
  BY <1>2 DEF SegmentSchema
<1> QED BY <1>1, <1>3, Zenon DEF IsSchema, fits

\* The properties of a segment's target.
LEMMA SegmentTargetIsSchema == IsSchema("SegmentTarget", SegmentTargetSchema)
<1> DEFINE s == SegmentTargetSchema
           fits(p) == Fits("SegmentTarget", p)
<1>1. /\ Len(s) \in Nat /\ DOMAIN s = 1..Len(s)
      /\ \A i, j \in DOMAIN s : s[i].name = s[j].name => i = j
  BY DEF SegmentTargetSchema, Always, IfSet, List
<1>2. /\ fits(IfSet("contextKind", "string")) /\ fits(List("values", "string"))
  BY TypesByDepth DEF Fits, Below, TypesOfLeaves, TypesOfRollouts, TypesOfRules, LeafTypes,
     RolloutTypes, RuleTypes, ScalarTypes, OptionalInts, AttributeOf, Always, IfSet, List
<1> HIDE DEF fits
<1>3. \A i \in DOMAIN s : fits(s[i])
  BY <1>2 DEF SegmentTargetSchema
<1> QED BY <1>1, <1>3, Zenon DEF IsSchema, fits

\* The properties of a segment's rule.
LEMMA SegmentRuleIsSchema == IsSchema("SegmentRule", SegmentRuleSchema)
<1> DEFINE s == SegmentRuleSchema
           fits(p) == Fits("SegmentRule", p)
<1>1. /\ Len(s) \in Nat /\ DOMAIN s = 1..Len(s)
      /\ \A i, j \in DOMAIN s : s[i].name = s[j].name => i = j
  BY DEF SegmentRuleSchema, Always, IfSet, List
<1>2. /\ fits(Always("id", "string")) /\ fits(List("clauses", "Clause"))
      /\ fits(IfSet("weight", "intUnlessNull")) /\ fits(IfSet("bucketBy", "attribute"))
      /\ fits(IfSet("rolloutContextKind", "string"))
  BY TypesByDepth DEF Fits, Below, TypesOfLeaves, TypesOfRollouts, TypesOfRules, LeafTypes,
     RolloutTypes, RuleTypes, ScalarTypes, OptionalInts, AttributeOf, Always, IfSet, List
<1> HIDE DEF fits
<1>3. \A i \in DOMAIN s : fits(s[i])
  BY <1>2 DEF SegmentRuleSchema
<1> QED BY <1>1, <1>3, Zenon DEF IsSchema, fits

\* So every type's schema has no name twice, and only properties that fit.
LEMMA SchemasFit == \A type \in ObjectTypes : IsSchema(type, Schema[type])
<1>1. /\ Schema["FeatureFlag"] = FeatureFlagSchema /\ Schema["Prerequisite"] = PrerequisiteSchema
      /\ Schema["Target"] = TargetSchema /\ Schema["FlagRule"] = FlagRuleSchema
      /\ Schema["VariationOrRollout"] = VariationOrRolloutSchema
      /\ Schema["Rollout"] = RolloutSchema
      /\ Schema["WeightedVariation"] = WeightedVariationSchema /\ Schema["Clause"] = ClauseSchema
      /\ Schema["ClientSideAvailability"] = ClientSideAvailabilitySchema
      /\ Schema["MigrationFlagParameters"] = MigrationFlagParametersSchema
      /\ Schema["Segment"] = SegmentSchema /\ Schema["SegmentTarget"] = SegmentTargetSchema
      /\ Schema["SegmentRule"] = SegmentRuleSchema
  BY DEF Schema
<1> QED
  BY <1>1, TypesByDepth, Zenon,
     FeatureFlagIsSchema, PrerequisiteIsSchema, TargetIsSchema, FlagRuleIsSchema,
     VariationOrRolloutIsSchema, RolloutIsSchema, WeightedVariationIsSchema, ClauseIsSchema,
     ClientSideAvailabilityIsSchema, MigrationFlagParametersIsSchema, SegmentIsSchema,
     SegmentTargetIsSchema, SegmentRuleIsSchema
     DEF LeafTypes, RolloutTypes, RuleTypes

\* A property has the name it is found with, and fits.
LEMMA PropertiesFit ==
  ASSUME NEW type \in ObjectTypes
  PROVE  /\ \A i, j \in DOMAIN Schema[type] : Schema[type][i].name = Schema[type][j].name => i = j
         /\ Names(type) = {Schema[type][i].name : i \in DOMAIN Schema[type]}
         /\ \A i \in DOMAIN Schema[type] : Properties[type][Schema[type][i].name] = Schema[type][i]
         /\ \A name \in Names(type) :
              Properties[type][name].name = name /\ Fits(type, Properties[type][name])
<1> DEFINE s == Schema[type]
<1>1. IsSchema(type, s)
  BY SchemasFit
<1>2. \A i \in DOMAIN s : (CHOOSE j \in DOMAIN s : s[j].name = s[i].name) = i
  BY <1>1 DEF IsSchema
<1>3. Properties[type] = [name \in {s[i].name : i \in DOMAIN s} |->
                            s[CHOOSE i \in DOMAIN s : s[i].name = name]]
  BY DEF Properties
<1> HIDE DEF s
<1>4. \A i \in DOMAIN s : Properties[type][s[i].name] = s[i]
  BY <1>2, <1>3
<1>5. Names(type) = {s[i].name : i \in DOMAIN s}
  BY <1>3 DEF Names
<1>6. \A i \in DOMAIN s : Fits(type, s[i])
  BY <1>1 DEF IsSchema
<1>7. \A name \in Names(type) :
        Properties[type][name].name = name /\ Fits(type, Properties[type][name])
  BY <1>4, <1>5, <1>6, Zenon
<1> QED BY <1>1, <1>4, <1>5, <1>7 DEF s, IsSchema

\* The zero value of a field, if an object has the given one.
ZeroField(p, nested) ==
  CASE p.list -> <<>>
    [] ~p.list /\ p.type \in ObjectTypes -> nested
    [] OTHER -> ZeroScalar(p.type)

\* A field is the value of a property, and not one of the hidden ones.
LEMMA HiddenIsNoField ==
  ASSUME NEW type \in ObjectTypes, NEW name \in Fields(type)
  PROVE  /\ name \notin Hidden(type) /\ name \in Names(type)
         /\ Fits(type, Properties[type][name])
<1>1. name \in Names(type)
  BY DEF Fields
<1>2. Properties[type][name].name = name /\ Fits(type, Properties[type][name])
  BY <1>1, PropertiesFit
<1>3. name \notin {"explicit", "present"}
  BY <1>2 DEF Fits
<1> QED BY <1>1, <1>2, <1>3 DEF Hidden

\* An object that has no objects has the same zero value, whatever theirs would be.
LEMMA ZerosWithoutObjects ==
  ASSUME NEW type \in {"Rollout", "ClientSideAvailability", "MigrationFlagParameters"}
  PROVE  ZeroOfRule(type) = Zero[type] /\ ZeroWithoutObjects(type) = Zero[type]
<1>1. type \in ObjectTypes
  BY TypesByDepth DEF LeafTypes, RolloutTypes
<1> DEFINE names == Hidden(type) \cup Fields(type)
           p(name) == Properties[type][name]
           zero(name, nested) ==
             CASE name \in Hidden(type) -> FALSE
               [] name \notin Hidden(type) /\ p(name).list -> <<>>
               [] name \notin Hidden(type) /\ ~p(name).list /\ p(name).type \in ObjectTypes ->
                    nested
               [] OTHER -> ZeroScalar(p(name).type)
<1>2. \A name \in Fields(type) : ~(~p(name).list /\ p(name).type \in ObjectTypes)
  <2> TAKE name \in Fields(type)
  <2>1. Fits(type, p(name))
    BY <1>1, HiddenIsNoField
  <2> QED BY <2>1, TypesByDepth
          DEF Fits, Below, TypesOfLeaves, TypesOfRollouts, TypesOfRules, LeafTypes, RolloutTypes,
              RuleTypes, ScalarTypes, OptionalInts
<1> HIDE DEF p
<1>3. \A name \in names : \A a, b : zero(name, a) = zero(name, b)
  BY <1>2
<1>4. Zero[type] = [name \in names |-> zero(name, ZeroOfRule(p(name).type))]
  BY <1>1 DEF Zero, ZeroObject, p
<1>5. ZeroOfRule(type) = [name \in names |-> zero(name, ZeroWithoutObjects(p(name).type))]
  BY DEF ZeroOfRule, ZeroObject, p
<1>6. ZeroWithoutObjects(type) = [name \in names |-> zero(name, ZeroScalar(p(name).type))]
  BY DEF ZeroWithoutObjects, ZeroObject, p
<1> HIDE DEF zero, names
<1> QED BY <1>3, <1>4, <1>5, <1>6

\* A variation or rollout has only a rollout, which has no objects.
LEMMA ZeroOfVariationOrRollout ==
  ZeroOfRule("VariationOrRollout") = Zero["VariationOrRollout"]
<1> DEFINE type == "VariationOrRollout"
           names == Hidden(type) \cup Fields(type)
           p(name) == Properties[type][name]
           zero(name, nested) ==
             CASE name \in Hidden(type) -> FALSE
               [] name \notin Hidden(type) /\ p(name).list -> <<>>
               [] name \notin Hidden(type) /\ ~p(name).list /\ p(name).type \in ObjectTypes ->
                    nested
               [] OTHER -> ZeroScalar(p(name).type)
<1>1. type \in ObjectTypes
  BY TypesByDepth DEF RuleTypes
<1>2. \A name \in Fields(type) : ~p(name).list /\ p(name).type \in ObjectTypes =>
        p(name).type = "Rollout"
  <2> TAKE name \in Fields(type)
  <2>1. Fits(type, p(name))
    BY <1>1, HiddenIsNoField
  <2> QED BY <2>1, TypesByDepth DEF Fits
<1>3. ZeroOfRule("Rollout") = ZeroWithoutObjects("Rollout")
  BY ZerosWithoutObjects
<1> HIDE DEF p
<1>4. ASSUME NEW name \in names
      PROVE  zero(name, ZeroOfRule(p(name).type)) = zero(name, ZeroWithoutObjects(p(name).type))
  BY <1>2, <1>3
<1>5. Zero[type] = [name \in names |-> zero(name, ZeroOfRule(p(name).type))]
  BY <1>1 DEF Zero, ZeroObject, p
<1>6. ZeroOfRule(type) = [name \in names |-> zero(name, ZeroWithoutObjects(p(name).type))]
  BY DEF ZeroOfRule, ZeroObject, p
<1> HIDE DEF zero, names
<1> QED BY <1>4, <1>5, <1>6

\* The zero value of an object has the zero values of its fields.
IsZeroOf(type, zero) ==
  /\ zero = [name \in Hidden(type) \cup Fields(type) |-> zero[name]]
  /\ \A name \in Hidden(type) : zero[name] = FALSE
  /\ \A name \in Fields(type) :
       zero[name] = ZeroField(Properties[type][name], Zero[Properties[type][name].type])

\* Three levels are enough for the zero value of every type.
LEMMA ZeroHasZeroFields ==
  ASSUME NEW type \in ObjectTypes
  PROVE  IsZeroOf(type, Zero[type])
<1> DEFINE names == Hidden(type) \cup Fields(type)
           p(name) == Properties[type][name]
           zero(name) ==
             CASE name \in Hidden(type) -> FALSE
               [] name \notin Hidden(type) /\ p(name).list -> <<>>
               [] name \notin Hidden(type) /\ ~p(name).list /\ p(name).type \in ObjectTypes ->
                    ZeroOfRule(p(name).type)
               [] OTHER -> ZeroScalar(p(name).type)
<1>1. Zero[type] = [name \in names |-> zero(name)]
  BY DEF Zero, ZeroObject
<1>2. ASSUME NEW name \in Fields(type)
      PROVE  zero(name) = ZeroField(p(name), Zero[p(name).type])
  <2>1. Fits(type, p(name)) /\ name \notin Hidden(type)
    BY HiddenIsNoField
  <2> DEFINE t == p(name).type
  <2>2. ~p(name).list /\ t \in ObjectTypes =>
          t \in {"Rollout", "ClientSideAvailability", "MigrationFlagParameters"}
            \/ t = "VariationOrRollout"
    BY <2>1 DEF Fits
  <2>3. ~p(name).list /\ t \in ObjectTypes => ZeroOfRule(t) = Zero[t]
    <3> HIDE DEF t, p
    <3> QED BY <2>2, ZerosWithoutObjects, ZeroOfVariationOrRollout
  <2> HIDE DEF p
  <2> QED BY <2>1, <2>3 DEF ZeroField
<1>3. \A name \in Hidden(type) : zero(name) = FALSE
  OBVIOUS
<1> HIDE DEF zero
<1> QED BY <1>1, <1>2, <1>3 DEF IsZeroOf

------------------------------------------------------------------------------
(***************************************************************************)
(* Attributes: what is written of one is read as one with the same path.   *)
(***************************************************************************)
\* The components of a text are found token by token: the definition has a solution.
LEMMA ComponentsInOrder ==
  ASSUME NEW text, Len(text) \in Nat
  PROVE  \A n \in 1..Len(text) :
           ComponentsUpTo(text)[n] =
             IF n = 1 THEN <<<<>>>>
             ELSE IF text[n] = "/" THEN Append(ComponentsUpTo(text)[n - 1], <<>>)
             ELSE [ComponentsUpTo(text)[n - 1] EXCEPT ![Len(ComponentsUpTo(text)[n - 1])] =
                     Append(@, Unescape(text[n]))]
<1> DEFINE up(n, before) ==
             IF n = 1 THEN <<<<>>>>
             ELSE IF text[n] = "/" THEN Append(before, <<>>)
             ELSE [before EXCEPT ![Len(before)] = Append(@, Unescape(text[n]))]
           Solves(f, size) == f = [n \in 1..size |-> up(n, f[n - 1])]
           X == {size \in Nat : \E f : Solves(f, size)}
<1>0. \A a, b : up(1, a) = up(1, b)
  OBVIOUS
<1> HIDE DEF up
<1>1. ASSUME NEW size \in Nat, 0..(size - 1) \subseteq X PROVE size \in X
  <2>1. CASE size = 0
    <3> DEFINE f == [n \in 1..0 |-> <<>>]
    <3>1. f = [n \in 1..0 |-> up(n, f[n - 1])]
      OBVIOUS
    <3>2. Solves(f, size)
      BY <2>1, <3>1
    <3> QED BY <3>2
  <2>2. CASE size # 0
    <3>1. PICK g : Solves(g, size - 1)
      <4>1. size - 1 \in X
        <5> HIDE DEF X
        <5>1. size - 1 \in 0..(size - 1)
          BY <2>2
        <5> QED BY <5>1, <1>1
      <4> QED BY <4>1
    <3> DEFINE next == up(size, g[size - 1])
               f == [n \in 1..size |-> IF n = size THEN next ELSE g[n]]
    <3>2. \A n \in 1..(size - 1) : g[n] = up(n, g[n - 1])
      BY <3>1
    <3>3. \A n \in 1..size : n # 1 => n - 1 \in 1..size /\ n - 1 # size
      OBVIOUS
    <3>4. \A n \in 1..size : n # 1 => f[n - 1] = g[n - 1]
      BY <3>3
    <3>5. \A n \in 1..size : n # size => n \in 1..(size - 1)
      OBVIOUS
    <3> HIDE DEF next
    <3>6. ASSUME NEW n \in 1..size PROVE f[n] = up(n, f[n - 1])
      <4>0. up(n, f[n - 1]) = up(n, g[n - 1])
        BY <1>0, <3>4
      <4>1. CASE n = size
        <5>1. f[n] = next
          BY <4>1
        <5> HIDE DEF f
        <5> QED BY <4>0, <4>1, <5>1 DEF next
      <4>2. CASE n # size
        <5>1. f[n] = g[n]
          BY <4>2
        <5> HIDE DEF f
        <5> QED BY <4>0, <4>2, <3>2, <3>5, <5>1
      <4> QED BY <4>1, <4>2
    <3>7. f = [n \in 1..size |-> f[n]]
      OBVIOUS
    <3> HIDE DEF f
    <3>8. Solves(f, size)
      BY <3>6, <3>7
    <3> QED BY <3>8
  <2> QED BY <2>1, <2>2
<1>2. Nat \subseteq X
  <2> HIDE DEF X
  <2> QED BY <1>1, NaturalsByInduction
<1>3. \E f : Solves(f, Len(text))
  BY <1>2
<1>4. Solves(ComponentsUpTo(text), Len(text))
  BY <1>3 DEF ComponentsUpTo, up
<1> DEFINE path == ComponentsUpTo(text)
<1> HIDE DEF path
<1>5. path = [n \in 1..Len(text) |-> up(n, path[n - 1])]
  BY <1>4 DEF path
<1>6. \A n \in 1..Len(text) : path[n] = up(n, path[n - 1])
  BY <1>5
<1> QED BY <1>6 DEF path, up

\* The components of a text are texts, and there is at least one.
LEMMA ComponentsAreTexts ==
  ASSUME NEW text \in Texts
  PROVE  /\ Components(text) \in Seq(Seq(Tokens)) /\ Len(Components(text)) > 0
<1> DEFINE path == ComponentsUpTo(text)
           Good(c) == c \in Seq(Seq(Tokens)) /\ Len(c) > 0
           X == {n \in Nat : 1 <= n /\ n <= Len(text) => Good(path[n])}
<1>1. text \in Seq(Tokens) /\ Len(text) \in Nat /\ Len(text) > 0
  BY DEF Texts
<1>2. \A n \in 1..Len(text) :
        path[n] = IF n = 1 THEN <<<<>>>>
                  ELSE IF text[n] = "/" THEN Append(path[n - 1], <<>>)
                  ELSE [path[n - 1] EXCEPT ![Len(path[n - 1])] = Append(@, Unescape(text[n]))]
  BY <1>1, ComponentsInOrder
<1> HIDE DEF path
<1>3. ASSUME NEW n \in Nat, 0..(n - 1) \subseteq X, 1 <= n, n <= Len(text)
      PROVE  Good(path[n])
  <2>1. CASE n = 1
    <3>1. path[n] = <<<<>>>>
      <4>1. n \in 1..Len(text)
        BY <1>1, <2>1
      <4> QED BY <4>1, <1>2, <2>1
    <3>2. <<>> \in Seq(Tokens)
      OBVIOUS
    <3> QED BY <3>1, <3>2
  <2>2. CASE n # 1
    <3>1. Good(path[n - 1]) /\ n \in 1..Len(text)
      <4>1. n - 1 \in 0..(n - 1) /\ 1 <= n - 1 /\ n - 1 <= Len(text) /\ n \in 1..Len(text)
        BY <1>1, <1>3, <2>2
      <4> QED BY <4>1, <1>3
    <3> DEFINE before == path[n - 1]
               last == Len(before)
    <3>2. before \in Seq(Seq(Tokens)) /\ last \in 1..Len(before)
      BY <3>1
    <3>3. text[n] \in Tokens
      BY <1>1, <3>1
    <3>4. CASE text[n] = "/"
      <4>1. path[n] = Append(before, <<>>)
        BY <1>2, <2>2, <3>1, <3>4
      <4> HIDE DEF before
      <4>2. <<>> \in Seq(Tokens)
        OBVIOUS
      <4> QED BY <3>2, <4>1, <4>2, AppendProperties
    <3>5. CASE text[n] # "/"
      <4>1. path[n] = [before EXCEPT ![last] = Append(before[last], Unescape(text[n]))]
        BY <1>2, <2>2, <3>1, <3>5
      <4> HIDE DEF before, last
      <4>2. before[last] \in Seq(Tokens) /\ Unescape(text[n]) \in Tokens
        BY <3>2, <3>3, TokensAssumption DEF Unescape
      <4>3. Append(before[last], Unescape(text[n])) \in Seq(Tokens)
        BY <4>2, AppendProperties
      <4> QED BY <3>2, <4>1, <4>3, ExceptSeq
    <3> QED BY <3>4, <3>5
  <2> QED BY <2>1, <2>2
<1>4. Nat \subseteq X
  <2> HIDE DEF X
  <2>1. \A n \in Nat : 0..(n - 1) \subseteq X => n \in X
    BY <1>3 DEF X
  <2> QED BY <2>1, NaturalsByInduction
<1>5. Good(path[Len(text)])
  BY <1>1, <1>4
<1> QED BY <1>5 DEF Components, path

\* An escaped name has one component, which is the name.
LEMMA EscapedNames ==
  ASSUME NEW name \in Texts, \A i \in DOMAIN name : name[i] # "~01"
  PROVE  Components(<<"/">> \o [i \in DOMAIN name |-> Escape(name[i])]) = <<name>>
<1> DEFINE escaped == [i \in DOMAIN name |-> Escape(name[i])]
           text == <<"/">> \o escaped
           first(n) == [i \in 1..n |-> name[i]]
           path == ComponentsUpTo(text)
           X == {n \in Nat : n <= Len(name) => path[n + 1] = <<first(n)>>}
<1>1. /\ name \in Seq(Tokens) /\ Len(name) \in Nat /\ Len(name) > 0 /\ DOMAIN name = 1..Len(name)
  BY DEF Texts
<1>2. escaped \in Seq({Escape(name[i]) : i \in DOMAIN name}) /\ Len(escaped) = Len(name)
      /\ \A i \in 1..Len(name) : escaped[i] = Escape(name[i])
  <2>1. escaped \in [1..Len(name) -> {Escape(name[i]) : i \in DOMAIN name}]
    BY <1>1
  <2> QED BY <1>1, <2>1
<1>3. Len(text) = Len(name) + 1 /\ \A i \in 1..Len(name) : text[i + 1] = Escape(name[i])
  <2> HIDE DEF escaped
  <2> DEFINE All == {Escape(name[i]) : i \in DOMAIN name} \cup {"/"}
  <2>1. escaped \in Seq(All) /\ <<"/">> \in Seq(All)
    <3>1. {Escape(name[i]) : i \in DOMAIN name} \subseteq All /\ "/" \in All
      OBVIOUS
    <3> HIDE DEF All
    <3>2. escaped \in Seq(All)
      BY <1>2, <3>1, SeqMonotonic
    <3> QED BY <3>1, <3>2
  <2> HIDE DEF All
  <2>2. Len(<<"/">>) = 1
    OBVIOUS
  <2>3. /\ Len(text) = 1 + Len(escaped)
        /\ \A i \in 1..Len(text) : text[i] = IF i <= 1 THEN <<"/">>[i] ELSE escaped[i - 1]
    BY <2>1, <2>2, ConcatProperties
  <2> HIDE DEF text
  <2>4. Len(text) = Len(name) + 1
    BY <1>1, <1>2, <2>3
  <2>5. ASSUME NEW i \in 1..Len(name) PROVE text[i + 1] = Escape(name[i])
    <3>1. i + 1 \in 1..Len(text) /\ ~(i + 1 <= 1) /\ (i + 1) - 1 = i
      BY <1>1, <2>4
    <3>2. text[i + 1] = escaped[i]
      BY <2>3, <3>1
    <3> QED BY <1>2, <3>2
  <2> QED BY <2>4, <2>5
<1> HIDE DEF text, escaped
<1>4. \A n \in 1..Len(text) :
        path[n] = IF n = 1 THEN <<<<>>>>
                  ELSE IF text[n] = "/" THEN Append(path[n - 1], <<>>)
                  ELSE [path[n - 1] EXCEPT ![Len(path[n - 1])] = Append(@, Unescape(text[n]))]
  <2>1. Len(text) \in Nat
    BY <1>1, <1>3
  <2> QED BY <2>1, ComponentsInOrder
<1> HIDE DEF path
<1>5. ASSUME NEW n \in Nat, 0..(n - 1) \subseteq X, n <= Len(name)
      PROVE  path[n + 1] = <<first(n)>>
  <2>1. CASE n = 0
    <3>1. first(n) = <<>>
      BY <2>1
    <3> HIDE DEF first
    <3>2. n + 1 = 1 /\ 1 \in 1..Len(text)
      BY <1>1, <1>3, <2>1
    <3> QED BY <1>4, <3>1, <3>2
  <2>2. CASE n # 0
    <3>1. path[n] = <<first(n - 1)>>
      <4>1. n - 1 \in X /\ n - 1 <= Len(name) /\ (n - 1) + 1 = n
        <5> HIDE DEF X
        <5>1. n - 1 \in 0..(n - 1) /\ n - 1 <= Len(name) /\ (n - 1) + 1 = n
          BY <1>1, <1>5, <2>2
        <5> QED BY <5>1, <1>5
      <4> HIDE DEF first
      <4> QED BY <4>1
    <3>2. n + 1 \in 1..Len(text) /\ n + 1 # 1 /\ (n + 1) - 1 = n /\ n \in 1..Len(name)
      BY <1>1, <1>3, <1>5, <2>2
    <3>3. name[n] \in Tokens /\ name[n] # "~01"
      BY <1>1, <3>2
    <3>4. text[n + 1] = Escape(name[n])
      BY <1>3, <3>2
    <3>5. text[n + 1] # "/" /\ Unescape(text[n + 1]) = name[n]
      BY <3>3, <3>4 DEF Escape, Unescape
    <3>6. path[n + 1] = [path[n] EXCEPT ![Len(path[n])] =
                           Append(path[n][Len(path[n])], Unescape(text[n + 1]))]
      BY <1>4, <3>2, <3>5
    <3> DEFINE before == first(n - 1)
    <3>7. Append(before, name[n]) = first(n)
      <4>1. before \in Seq(Tokens) /\ Len(before) = n - 1
        <5>1. before \in [1..(n - 1) -> Tokens]
          BY <1>1, <3>2
        <5> HIDE DEF before
        <5> QED BY <3>2, <5>1
      <4>2. first(n) \in Seq(Tokens) /\ Len(first(n)) = n
        <5>1. first(n) \in [1..n -> Tokens]
          BY <1>1, <3>2
        <5> HIDE DEF first
        <5> QED BY <3>2, <5>1
      <4>3. \A i \in 1..(n - 1) : before[i] = name[i]
        OBVIOUS
      <4>4. \A i \in 1..n : first(n)[i] = name[i]
        OBVIOUS
      <4> DEFINE both == Append(before, name[n])
      <4> HIDE DEF before, first
      <4>5. /\ both \in Seq(Tokens) /\ Len(both) = n /\ both[n] = name[n]
            /\ \A i \in 1..(n - 1) : both[i] = before[i]
        BY <3>2, <3>3, <4>1, AppendProperties
      <4> HIDE DEF both
      <4>6. \A i \in 1..n : both[i] = first(n)[i]
        BY <4>3, <4>4, <4>5
      <4>7. both = first(n)
        BY <4>2, <4>5, <4>6, SeqEqual
      <4> QED BY <4>7 DEF both
    <3> HIDE DEF before, first
    <3>8. path[n] = <<before>> /\ Len(path[n]) = 1 /\ path[n][1] = before
      BY <3>1 DEF before
    <3>9. path[n + 1] = [<<before>> EXCEPT ![1] = first(n)]
      BY <3>5, <3>6, <3>7, <3>8
    <3>10. [<<before>> EXCEPT ![1] = first(n)] = <<first(n)>>
      OBVIOUS
    <3> QED BY <3>9, <3>10
  <2> QED BY <2>1, <2>2
<1>6. Nat \subseteq X
  <2> HIDE DEF X
  <2>1. \A n \in Nat : 0..(n - 1) \subseteq X => n \in X
    BY <1>5 DEF X
  <2> QED BY <2>1, NaturalsByInduction
<1>7. path[Len(name) + 1] = <<first(Len(name))>>
  BY <1>1, <1>6
<1>8. first(Len(name)) = name
  BY <1>1
<1> HIDE DEF first
<1> QED BY <1>3, <1>7, <1>8 DEF Components, path, text, escaped

\* What the text of an attribute means, once the kind is known.
IsAttributeText(text) == text \in Seq(Tokens)

\* An attribute that is read is one, and can be escaped.
LEMMA TextsAreAttributes ==
  ASSUME NEW text, IsAttributeText(text), NEW kind
  PROVE  LET ref == SetAttrNameOrRef(text, kind)
         IN  IsScalar("attribute", ref) /\ CanBeEscaped(kind, ref)
<1> DEFINE ref == SetAttrNameOrRef(text, kind)
<1>1. \A v : IsScalar("attribute", v) <=> v = UndefinedAttr \/ IsPath(v) \/ IsName(v)
  BY TypesByDepth DEF IsScalar, OptionalInts, LeafTypes, RolloutTypes, RuleTypes
<1>2. CASE text = <<>>
  <2>1. ref = UndefinedAttr
    BY <1>2 DEF SetAttrNameOrRef
  <2> QED BY <1>1, <2>1 DEF CanBeEscaped
<1>3. CASE text # <<>> /\ kind = ""
  <2>1. ref = NewLiteralRef(text) /\ text \in Texts
    BY <1>3 DEF SetAttrNameOrRef, IsAttributeText, Texts
  <2>2. ref.path = <<text>>
    BY <2>1 DEF NewLiteralRef
  <2> HIDE DEF ref
  <2>3. IsName(ref)
    BY <2>1, <2>2 DEF IsName
  <2> QED BY <1>1, <1>3, <2>3 DEF CanBeEscaped, ref
<1>4. CASE text # <<>> /\ kind # ""
  <2>1. ref = NewRef(text) /\ text \in Texts
    BY <1>4 DEF SetAttrNameOrRef, IsAttributeText, Texts
  <2>2. ref.text = text
    BY <2>1 DEF NewRef
  <2> HIDE DEF ref
  <2>3. IsPath(ref)
    BY <2>1, <2>2 DEF IsPath
  <2> QED BY <1>1, <2>3 DEF CanBeEscaped, ref
<1> QED BY <1>2, <1>3, <1>4

\* The path of a reference is empty, if it is invalid, or a sequence of names.
LEMMA PathsAreNames ==
  ASSUME NEW ref, IsPath(ref)
  PROVE  /\ ref.text # <<>> /\ ref.path \in Seq(Texts)
         /\ ref.text[1] # "/" => ref.path = <<ref.text>>
<1> DEFINE text == ref.text
           components == Components(text)
<1>1. text \in Texts /\ ref = NewRef(text)
  BY DEF IsPath
<1> HIDE DEF components, text
<1>2. ref.path = IF text[1] # "/" THEN <<text>>
                 ELSE IF \E i \in DOMAIN components : components[i] = <<>> THEN <<>>
                 ELSE components
  BY <1>1 DEF NewRef, components
<1>3. components \in Seq(Seq(Tokens)) /\ Len(components) > 0
  BY <1>1, ComponentsAreTexts DEF components
<1>4. CASE text[1] # "/"
  <2>1. ref.path = <<text>> /\ <<text>> \in Seq(Texts)
    BY <1>1, <1>2, <1>4
  <2> QED BY <1>1, <1>4, <2>1 DEF Texts, text
<1>5. CASE text[1] = "/" /\ \E i \in DOMAIN components : components[i] = <<>>
  <2>1. ref.path = <<>> /\ <<>> \in Seq(Texts)
    BY <1>2, <1>5
  <2> QED BY <1>1, <1>5, <2>1 DEF Texts, text
<1>6. CASE text[1] = "/" /\ ~ \E i \in DOMAIN components : components[i] = <<>>
  <2>1. \A i \in 1..Len(components) : components[i] \in Texts
    BY <1>3, <1>6 DEF Texts
  <2>2. components \in Seq(Texts)
    BY <1>3, <2>1
  <2>3. ref.path = components
    BY <1>2, <1>6
  <2> QED BY <1>1, <1>6, <2>2, <2>3 DEF Texts, text
<1> QED BY <1>4, <1>5, <1>6

\* A literal name that can be escaped is the same path when it is read as a reference.
LEMMA EscapedNamesAreRead ==
  ASSUME NEW name \in Texts, name[1] = "/" => \A i \in DOMAIN name : name[i] # "~01"
  PROVE  NewRef(NewLiteralRef(name).text).path = <<name>>
<1>1. CASE name[1] # "/"
  BY <1>1 DEF NewLiteralRef, NewRef
<1>2. CASE name[1] = "/"
  <2> DEFINE text == <<"/">> \o [i \in DOMAIN name |-> Escape(name[i])]
  <2>1. NewLiteralRef(name).text = text
    BY <1>2 DEF NewLiteralRef
  <2>2. Components(text) = <<name>>
    BY <1>2, EscapedNames
  <2>3. text[1] = "/"
    <3> DEFINE escaped == [i \in DOMAIN name |-> Escape(name[i])]
               All == {Escape(name[i]) : i \in DOMAIN name} \cup {"/"}
    <3>1. escaped \in [1..Len(name) -> All] /\ Len(name) \in Nat
      BY DEF Texts
    <3> HIDE DEF escaped, All
    <3>2. escaped \in Seq(All)
      BY <3>1
    <3>3. <<"/">> \in Seq(All)
      BY DEF All
    <3>4. Len(<<"/">>) = 1 /\ Len(escaped) \in Nat
      BY <3>2
    <3>5. \A i \in 1..Len(text) : text[i] = IF i <= 1 THEN <<"/">>[i] ELSE escaped[i - 1]
      BY <3>2, <3>3, <3>4, ConcatProperties DEF escaped
    <3>6. Len(text) = 1 + Len(escaped)
      BY <3>2, <3>3, <3>4, ConcatProperties DEF escaped
    <3> HIDE DEF text
    <3> QED BY <3>4, <3>5, <3>6
  <2> HIDE DEF text
  <2>4. name # <<>>
    BY DEF Texts
  <2>5. ~ \E i \in DOMAIN <<name>> : <<name>>[i] = <<>>
    BY <2>4
  <2> QED BY <2>1, <2>2, <2>3, <2>5 DEF NewRef
<1> QED BY <1>1, <1>2

\* A name that is not empty has a text.
LEMMA NamesHaveTexts ==
  ASSUME NEW name \in Texts
  PROVE  name # <<>> /\ NewLiteralRef(name).text # <<>>
<1>1. name # <<>> /\ Len(name) \in Nat /\ Len(name) # 0 /\ DOMAIN name = 1..Len(name)
  BY DEF Texts
<1>2. CASE name[1] # "/"
  BY <1>1, <1>2 DEF NewLiteralRef
<1>3. CASE name[1] = "/"
  <2> DEFINE escaped == [i \in DOMAIN name |-> Escape(name[i])]
  <2>1. escaped \in [1..Len(name) -> {Escape(name[i]) : i \in DOMAIN name}]
    BY <1>1
  <2> HIDE DEF escaped
  <2>2. escaped \in Seq({Escape(name[i]) : i \in DOMAIN name} \cup {"/"})
    BY <1>1, <2>1
  <2>3. <<"/">> \o escaped # <<>>
    BY <2>2
  <2>4. NewLiteralRef(name).text = <<"/">> \o escaped
    BY <1>3 DEF NewLiteralRef, escaped
  <2> QED BY <1>1, <2>3, <2>4
<1> QED BY <1>2, <1>3

\* So an attribute is read back with its path, unless it is one of several names without a kind.
LEMMA AttributesSurvive ==
  ASSUME NEW ref, IsScalar("attribute", ref), NEW kind, CanBeEscaped(kind, ref),
         NeedsNoKind(<<kind, ref>>), NEW text,
         \/ text = WriteAttrRef(ref, kind)
         \/ text = <<>> /\ ref.text = <<>>
  PROVE  MeaningOfRef(SetAttrNameOrRef(text, kind)) = MeaningOfRef(ref)
<1>1. ref = UndefinedAttr \/ IsPath(ref) \/ IsName(ref)
  BY DEF IsScalar, OptionalInts
<1>2. kind # "" \/ ref = UndefinedAttr \/ Len(ref.path) = 1
  BY DEF NeedsNoKind
<1>3. CASE ref = UndefinedAttr
  <2>1. text = <<>>
    BY <1>3 DEF WriteAttrRef, UndefinedAttr
  <2> QED BY <1>3, <2>1 DEF SetAttrNameOrRef
<1>4. CASE IsName(ref) /\ ref # UndefinedAttr
  <2> DEFINE name == ref.path[1]
  <2>1. ref.path = <<name>> /\ name \in Texts /\ ref = NewLiteralRef(name)
    BY <1>4 DEF IsName
  <2> HIDE DEF name
  <2>2. name # <<>> /\ NewLiteralRef(name).text # <<>>
    BY <2>1, NamesHaveTexts
  <2>3. ref.text # <<>>
    BY <2>1, <2>2
  <2>4. MeaningOfRef(ref) = [defined |-> TRUE, path |-> <<name>>]
    BY <2>1, <2>3 DEF MeaningOfRef
  <2>5. CASE kind = ""
    <3>1. text = name
      <4>1. ref.path # <<>> /\ ref.path[1] = name /\ text = WriteAttrRef(ref, kind)
        BY <2>1, <2>3
      <4> QED BY <4>1, <2>5 DEF WriteAttrRef
    <3>2. SetAttrNameOrRef(text, kind) = ref
      BY <2>1, <2>2, <2>5, <3>1 DEF SetAttrNameOrRef
    <3> QED BY <3>2
  <2>6. CASE kind # ""
    <3>1. text = ref.text /\ text = NewLiteralRef(name).text
      BY <2>1, <2>3, <2>6 DEF WriteAttrRef
    <3>2. SetAttrNameOrRef(text, kind) = NewRef(text)
      BY <2>3, <2>6, <3>1 DEF SetAttrNameOrRef
    <3>3. NewRef(text).text = text
      BY DEF NewRef
    <3>4. CASE IsPath(ref)
      <4>1. ref = NewRef(text)
        BY <3>1, <3>4 DEF IsPath
      <4> QED BY <3>2, <4>1
    <3>5. CASE ~IsPath(ref)
      <4>1. \A i \in DOMAIN name : name[i] # "~01"
        BY <1>4, <2>6, <3>5 DEF CanBeEscaped, name
      <4>2. NewRef(text).path = <<name>>
        BY <2>1, <3>1, <4>1, EscapedNamesAreRead
      <4> QED BY <2>3, <2>4, <3>1, <3>2, <3>3, <4>2 DEF MeaningOfRef
    <3> QED BY <3>4, <3>5
  <2> QED BY <2>5, <2>6
<1>5. CASE IsPath(ref) /\ ref # UndefinedAttr
  <2>1. ref.text # <<>> /\ ref.path \in Seq(Texts) /\ ref = NewRef(ref.text)
    BY <1>5, PathsAreNames DEF IsPath
  <2>2. CASE kind # ""
    <3>1. text = ref.text
      BY <2>1, <2>2 DEF WriteAttrRef
    <3>2. SetAttrNameOrRef(text, kind) = ref
      BY <2>1, <2>2, <3>1 DEF SetAttrNameOrRef
    <3> QED BY <3>2
  <2>3. CASE kind = ""
    <3> DEFINE name == ref.path[1]
    <3>1. ref.path = <<name>> /\ name \in Texts
      <4>1. Len(ref.path) = 1
        BY <1>2, <1>5, <2>3
      <4> DEFINE path == ref.path
      <4>2. path \in Seq(Texts) /\ Len(path) = 1
        BY <2>1, <4>1
      <4> HIDE DEF path
      <4>3. path = <<path[1]>> /\ path[1] \in Texts
        BY <4>2
      <4> QED BY <4>3 DEF path
    <3> HIDE DEF name
    <3>2. text = name
      <4>1. ref.path # <<>> /\ ref.path[1] = name /\ text = WriteAttrRef(ref, kind)
        BY <2>1, <3>1
      <4> QED BY <4>1, <2>3 DEF WriteAttrRef
    <3>3. name # <<>>
      BY <3>1 DEF Texts
    <3>4. SetAttrNameOrRef(text, kind) = NewLiteralRef(name)
      BY <2>3, <3>2, <3>3 DEF SetAttrNameOrRef
    <3>5. NewLiteralRef(name).path = <<name>>
      BY DEF NewLiteralRef
    <3>6. NewLiteralRef(name).text # <<>>
      BY <3>1, NamesHaveTexts
    <3> QED BY <2>1, <3>1, <3>4, <3>5, <3>6 DEF MeaningOfRef
  <2> QED BY <2>2, <2>3
<1> QED BY <1>1, <1>3, <1>4, <1>5

------------------------------------------------------------------------------
(***************************************************************************)
(* The levels.  A value that is read over has all of its fields.           *)
(***************************************************************************)
AnyValue(type, v) == TRUE
\* What is not left out, as an element of a list or as a property that is set.
MayBeWritten(type, v) ==
  CASE type = "ClientSideAvailability"           -> v.explicit
    [] type = "MigrationFlagParameters"          -> v.present
    [] type \in {"intUnlessNull", "optionalInt"} -> v # <<>>
    [] OTHER                                     -> TRUE

LeafProofs == INSTANCE JSONLevelProofs WITH
  ReadNested <- ReadScalar, WriteNested <- WriteScalar, IsTaggedNested <- IsTaggedScalar,
  SameNested <- SameScalar, IsNested <- IsScalar, HasFieldsNested <- AnyValue,
  NestedTypes <- ScalarTypes, MeaningOfNested <- MeaningOfScalar,
  AttributesOfNested <- AttributesOfScalar, OmissionsOfNested <- OmissionsOfScalar,
  IsText <- IsAttributeText, IsClear <- NeedsNoKind
RolloutProofs == INSTANCE JSONLevelProofs WITH
  ReadNested <- Leaves!ReadValue, WriteNested <- Leaves!WriteValue,
  IsTaggedNested <- LeafProperties!IsTaggedValue, SameNested <- LeafOrder!SameValue,
  IsNested <- LeafProperties!IsValue, HasFieldsNested <- LeafProofs!HasFields,
  NestedTypes <- TypesOfLeaves, MeaningOfNested <- LeafMeaning!MeaningOf,
  AttributesOfNested <- LeafMeaning!AttributesOf, OmissionsOfNested <- LeafOmissions!Omissions,
  IsText <- IsAttributeText, IsClear <- NeedsNoKind
RuleProofs == INSTANCE JSONLevelProofs WITH
  ReadNested <- Rollouts!ReadValue, WriteNested <- Rollouts!WriteValue,
  IsTaggedNested <- RolloutProperties!IsTaggedValue, SameNested <- RolloutOrder!SameValue,
  IsNested <- RolloutProperties!IsValue, HasFieldsNested <- RolloutProofs!HasFields,
  NestedTypes <- TypesOfRollouts, MeaningOfNested <- RolloutMeaning!MeaningOf,
  AttributesOfNested <- RolloutMeaning!AttributesOf,
  OmissionsOfNested <- RolloutOmissions!Omissions, IsText <- IsAttributeText,
  IsClear <- NeedsNoKind
FlagProofs == INSTANCE JSONLevelProofs WITH
  ReadNested <- Rules!ReadValue, WriteNested <- Rules!WriteValue,
  IsTaggedNested <- RuleProperties!IsTaggedValue, SameNested <- RuleOrder!SameValue,
  IsNested <- RuleProperties!IsValue, HasFieldsNested <- RuleProofs!HasFields,
  NestedTypes <- TypesOfRules, MeaningOfNested <- RuleMeaning!MeaningOf,
  AttributesOfNested <- RuleMeaning!AttributesOf, OmissionsOfNested <- RuleOmissions!Omissions,
  IsText <- IsAttributeText, IsClear <- NeedsNoKind

\* What is proved of a level is about what the specification reads.
LEMMA ReadLeaves ==
  /\ \A type, old, properties :
       LeafProofs!ReadProperties(type, old, properties)
       = Leaves!ReadProperties(type, old, properties)
  /\ \A type, old, properties :
       LeafProofs!ReadObject(type, old, properties) = Leaves!ReadObject(type, old, properties)
  /\ \A type, old, json : LeafProofs!ReadValue(type, old, json) = Leaves!ReadValue(type, old, json)
<1>1. \A type, old, json : LeafProofs!ReadList(type, old, json) = Leaves!ReadList(type, old, json)
  BY Zenon DEF LeafProofs!ReadList, Leaves!ReadList
<1>2. \A p, old, json : LeafProofs!ReadField(p, old, json) = Leaves!ReadField(p, old, json)
  BY <1>1, Zenon DEF LeafProofs!ReadField, Leaves!ReadField
<1>3. \A r, name, v : LeafProofs!Assign(r, name, v) = Leaves!Assign(r, name, v)
  BY Zenon DEF LeafProofs!Assign, Leaves!Assign
<1>4. \A type, r, name, json :
        LeafProofs!ReadProperty(type, r, name, json) = Leaves!ReadProperty(type, r, name, json)
  BY <1>2, <1>3, Zenon DEF LeafProofs!ReadProperty, Leaves!ReadProperty
<1>5. \A type, soFar, property :
        LeafProofs!ReadNextProperty(type, soFar, property)
        = Leaves!ReadNextProperty(type, soFar, property)
  BY <1>4, Zenon DEF LeafProofs!ReadNextProperty, Leaves!ReadNextProperty
<1>6. \A type, old, properties :
        LeafProofs!ReadProperties(type, old, properties)
        = Leaves!ReadProperties(type, old, properties)
  BY <1>5, Zenon DEF LeafProofs!ReadProperties, Leaves!ReadProperties
<1>7. \A type, read : LeafProofs!Ended(type, read) = Leaves!Ended(type, read)
  BY Zenon DEF LeafProofs!Ended, Leaves!Ended
<1>8. \A type, old, properties :
        LeafProofs!ReadObject(type, old, properties) = Leaves!ReadObject(type, old, properties)
  BY <1>6, <1>7, Zenon DEF LeafProofs!ReadObject, Leaves!ReadObject
<1>9. \A type, old, json : LeafProofs!ReadValue(type, old, json) = Leaves!ReadValue(type, old, json)
  BY <1>8, Zenon DEF LeafProofs!ReadValue, Leaves!ReadValue
<1> QED BY <1>6, <1>8, <1>9

\* What is proved of a level is about documents that are the same up to order.
LEMMA SameLeaves ==
  \A type, a, b : LeafProofs!SameValue(type, a, b) <=> LeafOrder!SameValue(type, a, b)
<1>1. \A p, a, b : LeafProofs!SameField(p, a, b) <=> LeafOrder!SameField(p, a, b)
  BY Zenon DEF LeafProofs!SameField, LeafOrder!SameField
<1>2. /\ \A v : LeafProofs!IsList(v) <=> LeafOrder!IsList(v)
      /\ \A v : LeafProofs!NoneRepeated(v) <=> LeafOrder!NoneRepeated(v)
      /\ \A v : LeafProofs!NamesIn(v) = LeafOrder!NamesIn(v)
  BY Zenon DEF LeafProofs!IsList, LeafOrder!IsList, LeafProofs!NoneRepeated,
     LeafOrder!NoneRepeated, LeafProofs!NamesIn, LeafOrder!NamesIn
<1>3. \A type, a, b : LeafProofs!SameObject(type, a, b) <=> LeafOrder!SameObject(type, a, b)
  BY <1>1, <1>2, SMT DEF LeafProofs!SameObject, LeafOrder!SameObject
<1> QED BY <1>3, Zenon DEF LeafProofs!SameValue, LeafOrder!SameValue

\* What is proved of a level is about what the specification reads.
LEMMA ReadRollouts ==
  /\ \A type, old, properties :
       RolloutProofs!ReadProperties(type, old, properties)
       = Rollouts!ReadProperties(type, old, properties)
  /\ \A type, old, properties :
       RolloutProofs!ReadObject(type, old, properties) = Rollouts!ReadObject(type, old, properties)
  /\ \A type, old, json :
       RolloutProofs!ReadValue(type, old, json) =
         Rollouts!ReadValue(type, old, json)
<1>1. \A type, old, json :
        RolloutProofs!ReadList(type, old, json) =
          Rollouts!ReadList(type, old, json)
  BY Zenon DEF RolloutProofs!ReadList, Rollouts!ReadList
<1>2. \A p, old, json : RolloutProofs!ReadField(p, old, json) = Rollouts!ReadField(p, old, json)
  BY <1>1, Zenon DEF RolloutProofs!ReadField, Rollouts!ReadField
<1>3. \A r, name, v : RolloutProofs!Assign(r, name, v) = Rollouts!Assign(r, name, v)
  BY Zenon DEF RolloutProofs!Assign, Rollouts!Assign
<1>4. \A type, r, name, json :
        RolloutProofs!ReadProperty(type, r, name, json) = Rollouts!ReadProperty(type, r, name, json)
  BY <1>2, <1>3, Zenon DEF RolloutProofs!ReadProperty, Rollouts!ReadProperty
<1>5. \A type, soFar, property :
        RolloutProofs!ReadNextProperty(type, soFar, property)
        = Rollouts!ReadNextProperty(type, soFar, property)
  BY <1>4, Zenon DEF RolloutProofs!ReadNextProperty, Rollouts!ReadNextProperty
<1>6. \A type, old, properties :
        RolloutProofs!ReadProperties(type, old, properties)
        = Rollouts!ReadProperties(type, old, properties)
  BY <1>5, Zenon DEF RolloutProofs!ReadProperties, Rollouts!ReadProperties
<1>7. \A type, read : RolloutProofs!Ended(type, read) = Rollouts!Ended(type, read)
  BY Zenon DEF RolloutProofs!Ended, Rollouts!Ended
<1>8. \A type, old, properties :
        RolloutProofs!ReadObject(type, old, properties) = Rollouts!ReadObject(type, old, properties)
  BY <1>6, <1>7, Zenon DEF RolloutProofs!ReadObject, Rollouts!ReadObject
<1>9. \A type, old, json :
        RolloutProofs!ReadValue(type, old, json) =
          Rollouts!ReadValue(type, old, json)
  BY <1>8, Zenon DEF RolloutProofs!ReadValue, Rollouts!ReadValue
<1> QED BY <1>6, <1>8, <1>9

\* What is proved of a level is about documents that are the same up to order.
LEMMA SameRollouts ==
  \A type, a, b : RolloutProofs!SameValue(type, a, b) <=> RolloutOrder!SameValue(type, a, b)
<1>1. \A p, a, b : RolloutProofs!SameField(p, a, b) <=> RolloutOrder!SameField(p, a, b)
  BY Zenon DEF RolloutProofs!SameField, RolloutOrder!SameField
<1>2. /\ \A v : RolloutProofs!IsList(v) <=> RolloutOrder!IsList(v)
      /\ \A v : RolloutProofs!NoneRepeated(v) <=> RolloutOrder!NoneRepeated(v)
      /\ \A v : RolloutProofs!NamesIn(v) = RolloutOrder!NamesIn(v)
  BY Zenon DEF RolloutProofs!IsList, RolloutOrder!IsList, RolloutProofs!NoneRepeated,
     RolloutOrder!NoneRepeated, RolloutProofs!NamesIn, RolloutOrder!NamesIn
<1>3. \A type, a, b :
        RolloutProofs!SameObject(type, a, b) <=> RolloutOrder!SameObject(type, a, b)
  BY <1>1, <1>2, SMT DEF RolloutProofs!SameObject, RolloutOrder!SameObject
<1> QED BY <1>3, Zenon DEF RolloutProofs!SameValue, RolloutOrder!SameValue

\* What is proved of a level is about what the specification reads.
LEMMA ReadRules ==
  /\ \A type, old, properties :
       RuleProofs!ReadProperties(type, old, properties)
       = Rules!ReadProperties(type, old, properties)
  /\ \A type, old, properties :
       RuleProofs!ReadObject(type, old, properties) = Rules!ReadObject(type, old, properties)
  /\ \A type, old, json : RuleProofs!ReadValue(type, old, json) = Rules!ReadValue(type, old, json)
<1>1. \A type, old, json : RuleProofs!ReadList(type, old, json) = Rules!ReadList(type, old, json)
  BY Zenon DEF RuleProofs!ReadList, Rules!ReadList
<1>2. \A p, old, json : RuleProofs!ReadField(p, old, json) = Rules!ReadField(p, old, json)
  BY <1>1, Zenon DEF RuleProofs!ReadField, Rules!ReadField
<1>3. \A r, name, v : RuleProofs!Assign(r, name, v) = Rules!Assign(r, name, v)
  BY Zenon DEF RuleProofs!Assign, Rules!Assign
<1>4. \A type, r, name, json :
        RuleProofs!ReadProperty(type, r, name, json) = Rules!ReadProperty(type, r, name, json)
  BY <1>2, <1>3, Zenon DEF RuleProofs!ReadProperty, Rules!ReadProperty
<1>5. \A type, soFar, property :
        RuleProofs!ReadNextProperty(type, soFar, property)
        = Rules!ReadNextProperty(type, soFar, property)
  BY <1>4, Zenon DEF RuleProofs!ReadNextProperty, Rules!ReadNextProperty
<1>6. \A type, old, properties :
        RuleProofs!ReadProperties(type, old, properties)
        = Rules!ReadProperties(type, old, properties)
  BY <1>5, Zenon DEF RuleProofs!ReadProperties, Rules!ReadProperties
<1>7. \A type, read : RuleProofs!Ended(type, read) = Rules!Ended(type, read)
  BY Zenon DEF RuleProofs!Ended, Rules!Ended
<1>8. \A type, old, properties :
        RuleProofs!ReadObject(type, old, properties) = Rules!ReadObject(type, old, properties)
  BY <1>6, <1>7, Zenon DEF RuleProofs!ReadObject, Rules!ReadObject
<1>9. \A type, old, json : RuleProofs!ReadValue(type, old, json) = Rules!ReadValue(type, old, json)
  BY <1>8, Zenon DEF RuleProofs!ReadValue, Rules!ReadValue
<1> QED BY <1>6, <1>8, <1>9

\* What is proved of a level is about documents that are the same up to order.
LEMMA SameRules ==
  \A type, a, b : RuleProofs!SameValue(type, a, b) <=> RuleOrder!SameValue(type, a, b)
<1>1. \A p, a, b : RuleProofs!SameField(p, a, b) <=> RuleOrder!SameField(p, a, b)
  BY Zenon DEF RuleProofs!SameField, RuleOrder!SameField
<1>2. /\ \A v : RuleProofs!IsList(v) <=> RuleOrder!IsList(v)
      /\ \A v : RuleProofs!NoneRepeated(v) <=> RuleOrder!NoneRepeated(v)
      /\ \A v : RuleProofs!NamesIn(v) = RuleOrder!NamesIn(v)
  BY Zenon DEF RuleProofs!IsList, RuleOrder!IsList, RuleProofs!NoneRepeated,
     RuleOrder!NoneRepeated, RuleProofs!NamesIn, RuleOrder!NamesIn
<1>3. \A type, a, b : RuleProofs!SameObject(type, a, b) <=> RuleOrder!SameObject(type, a, b)
  BY <1>1, <1>2, SMT DEF RuleProofs!SameObject, RuleOrder!SameObject
<1> QED BY <1>3, Zenon DEF RuleProofs!SameValue, RuleOrder!SameValue

\* What is proved of a level is about what the specification reads.
LEMMA ReadFlags ==
  /\ \A type, old, properties :
       FlagProofs!ReadProperties(type, old, properties)
       = Flags!ReadProperties(type, old, properties)
  /\ \A type, old, properties :
       FlagProofs!ReadObject(type, old, properties) = Flags!ReadObject(type, old, properties)
  /\ \A type, old, json : FlagProofs!ReadValue(type, old, json) = Flags!ReadValue(type, old, json)
<1>1. \A type, old, json : FlagProofs!ReadList(type, old, json) = Flags!ReadList(type, old, json)
  BY Zenon DEF FlagProofs!ReadList, Flags!ReadList
<1>2. \A p, old, json : FlagProofs!ReadField(p, old, json) = Flags!ReadField(p, old, json)
  BY <1>1, Zenon DEF FlagProofs!ReadField, Flags!ReadField
<1>3. \A r, name, v : FlagProofs!Assign(r, name, v) = Flags!Assign(r, name, v)
  BY Zenon DEF FlagProofs!Assign, Flags!Assign
<1>4. \A type, r, name, json :
        FlagProofs!ReadProperty(type, r, name, json) = Flags!ReadProperty(type, r, name, json)
  BY <1>2, <1>3, Zenon DEF FlagProofs!ReadProperty, Flags!ReadProperty
<1>5. \A type, soFar, property :
        FlagProofs!ReadNextProperty(type, soFar, property)
        = Flags!ReadNextProperty(type, soFar, property)
  BY <1>4, Zenon DEF FlagProofs!ReadNextProperty, Flags!ReadNextProperty
<1>6. \A type, old, properties :
        FlagProofs!ReadProperties(type, old, properties)
        = Flags!ReadProperties(type, old, properties)
  BY <1>5, Zenon DEF FlagProofs!ReadProperties, Flags!ReadProperties
<1>7. \A type, read : FlagProofs!Ended(type, read) = Flags!Ended(type, read)
  BY Zenon DEF FlagProofs!Ended, Flags!Ended
<1>8. \A type, old, properties :
        FlagProofs!ReadObject(type, old, properties) = Flags!ReadObject(type, old, properties)
  BY <1>6, <1>7, Zenon DEF FlagProofs!ReadObject, Flags!ReadObject
<1>9. \A type, old, json : FlagProofs!ReadValue(type, old, json) = Flags!ReadValue(type, old, json)
  BY <1>8, Zenon DEF FlagProofs!ReadValue, Flags!ReadValue
<1> QED BY <1>6, <1>8, <1>9

\* What is proved of a level is about documents that are the same up to order.
LEMMA SameFlags ==
  \A type, a, b : FlagProofs!SameValue(type, a, b) <=> FlagOrder!SameValue(type, a, b)
<1>1. \A p, a, b : FlagProofs!SameField(p, a, b) <=> FlagOrder!SameField(p, a, b)
  BY Zenon DEF FlagProofs!SameField, FlagOrder!SameField
<1>2. /\ \A v : FlagProofs!IsList(v) <=> FlagOrder!IsList(v)
      /\ \A v : FlagProofs!NoneRepeated(v) <=> FlagOrder!NoneRepeated(v)
      /\ \A v : FlagProofs!NamesIn(v) = FlagOrder!NamesIn(v)
  BY Zenon DEF FlagProofs!IsList, FlagOrder!IsList, FlagProofs!NoneRepeated,
     FlagOrder!NoneRepeated, FlagProofs!NamesIn, FlagOrder!NamesIn
<1>3. \A type, a, b : FlagProofs!SameObject(type, a, b) <=> FlagOrder!SameObject(type, a, b)
  BY <1>1, <1>2, SMT DEF FlagProofs!SameObject, FlagOrder!SameObject
<1> QED BY <1>3, Zenon DEF FlagProofs!SameValue, FlagOrder!SameValue

\* An object begins with the zero values of its fields, and so do the objects in it.
LEMMA BegunObjects ==
  ASSUME NEW type \in ObjectTypes
  PROVE  LET begun == BeginObject(type, Zero[type])
         IN  /\ begun = [name \in DOMAIN begun |-> begun[name]]
             /\ DOMAIN begun = Hidden(type) \cup Names(type)
             /\ \A name \in Names(type) :
                  LET p == Properties[type][name]
                  IN  ~p.list /\ p.type \in ObjectTypes => begun[name] = Zero[p.type]
             /\ \A name \in Fields(type) \ AttributeOf(type) :
                  begun[name] = Zero[type][name]
<1> DEFINE begun == BeginObject(type, Zero[type])
<1>1. IsZeroOf(type, Zero[type])
  BY ZeroHasZeroFields
<1>2. \A name \in Names(type) :
        LET p == Properties[type][name]
        IN  /\ p.name = name
            /\ name = "clientSide" => type = "FeatureFlag"
            /\ ~p.list /\ p.type \in ObjectTypes =>
                 name \notin AttributeOf(type) /\ name # "clientSide"
  <2> TAKE name \in Names(type)
  <2> DEFINE p == Properties[type][name]
  <2>1. p.name = name /\ Fits(type, p)
    BY PropertiesFit
  <2>2. "attribute" \notin ObjectTypes /\ "bool" \notin ObjectTypes
    BY TypesByDepth DEF LeafTypes, RolloutTypes, RuleTypes
  <2> HIDE DEF p
  <2>3. /\ name \in AttributeOf(type) => p.type = "attribute"
        /\ name = "clientSide" => type = "FeatureFlag" /\ p.type = "bool"
    BY <2>1 DEF Fits
  <2> QED BY <2>1, <2>2, <2>3 DEF p
<1>3. \A name \in Names(type) :
        LET p == Properties[type][name]
        IN  ~p.list /\ p.type \in ObjectTypes =>
              name \in Fields(type) \ AttributeOf(type) /\ Zero[type][name] = Zero[p.type]
  BY <1>1, <1>2 DEF IsZeroOf, ZeroField, Fields
<1>4. DOMAIN Zero[type] = Hidden(type) \cup Fields(type)
      /\ \A name \in Fields(type) : name \notin Hidden(type)
  BY <1>1, HiddenIsNoField DEF IsZeroOf
<1>5. /\ begun = [name \in DOMAIN begun |-> begun[name]]
      /\ DOMAIN begun = Hidden(type) \cup Names(type)
      /\ \A name \in Fields(type) \ AttributeOf(type) : begun[name] = Zero[type][name]
  <2>1. type # "FeatureFlag" => Fields(type) = Names(type)
    BY <1>2 DEF Fields
  <2>2. Zero[type] = [name \in Hidden(type) \cup Fields(type) |-> Zero[type][name]]
    BY <1>1 DEF IsZeroOf
  <2>3. CASE AttributeOf(type) # {}
    <3>2. type \notin {"FeatureFlag", "ClientSideAvailability", "MigrationFlagParameters"}
      BY <2>3 DEF AttributeOf
    <3>1. begun = [name \in DOMAIN Zero[type] |->
                     IF name \in AttributeOf(type) THEN <<>> ELSE Zero[type][name]]
      BY <2>3, <3>2 DEF BeginObject
    <3> HIDE DEF begun
    <3> QED BY <3>1, <3>2, <2>1, <1>4
  <2>4. CASE type = "FeatureFlag"
    <3>1. Hidden(type) = {} /\ AttributeOf(type) = {}
      BY <2>4 DEF Hidden, AttributeOf
    <3>2. begun = [name \in Names(type) |-> IF name = "clientSide" THEN FALSE ELSE Zero[type][name]]
      BY <2>4, <3>1 DEF BeginObject
    <3> HIDE DEF begun
    <3> QED BY <3>1, <3>2 DEF Fields
  <2>5. CASE type = "ClientSideAvailability"
    <3>1. begun = [Zero[type] EXCEPT !.explicit = TRUE]
      BY <2>5 DEF BeginObject, AttributeOf
    <3>2. "explicit" \in Hidden(type) /\ type # "FeatureFlag"
      BY <2>5 DEF Hidden
    <3> HIDE DEF begun
    <3> QED BY <3>1, <3>2, <2>1, <1>4
  <2>6. CASE type = "MigrationFlagParameters"
    <3>1. begun = [Zero[type] EXCEPT !.present = TRUE]
      BY <2>6 DEF BeginObject, AttributeOf
    <3>2. "present" \in Hidden(type) /\ type # "FeatureFlag"
      BY <2>6 DEF Hidden
    <3> HIDE DEF begun
    <3> QED BY <3>1, <3>2, <2>1, <1>4
  <2>7. CASE AttributeOf(type) = {}
             /\ type \notin {"FeatureFlag", "ClientSideAvailability", "MigrationFlagParameters"}
    <3>1. begun = Zero[type]
      BY <2>7 DEF BeginObject
    <3> HIDE DEF begun
    <3> QED BY <3>1, <2>1, <2>2, <2>7, <1>4
  <2> QED BY <2>3, <2>4, <2>5, <2>6, <2>7
<1> HIDE DEF begun
<1>6. \A name \in Names(type) :
         LET p == Properties[type][name]
         IN  ~p.list /\ p.type \in ObjectTypes => begun[name] = Zero[p.type]
  BY <1>3, <1>5
<1> QED BY <1>5, <1>6 DEF begun

\* So the values that are read over have all of their fields, at every level.
LEMMA NewValuesHaveFields ==
  /\ \A type : LeafProofs!HasFields(type, NewValue(type))
  /\ \A type : RolloutProofs!HasFields(type, NewValue(type))
  /\ \A type : RuleProofs!HasFields(type, NewValue(type))
  /\ \A type : FlagProofs!HasFields(type, NewValue(type))
<1>1. ASSUME NEW type \in ObjectTypes
      PROVE  LET begun == BeginObject(type, NewValue(type))
             IN  /\ begun = [name \in DOMAIN begun |-> begun[name]]
                 /\ Names(type) \subseteq DOMAIN begun
                 /\ \A name \in Names(type) :
                      LET p == Properties[type][name]
                      IN  ~p.list /\ p.type \in ObjectTypes => begun[name] = NewValue(p.type)
  BY BegunObjects DEF NewValue
<1>2. \A type : LeafProofs!HasFields(type, NewValue(type))
  BY <1>1 DEF LeafProofs!HasFields, LeafProofs!IsFunction, AnyValue
<1>3. \A type : RolloutProofs!HasFields(type, NewValue(type))
  <2>1. \A type, v : type \notin ObjectTypes => LeafProofs!HasFields(type, v)
    BY DEF LeafProofs!HasFields
  <2> QED BY <1>1, <1>2, <2>1 DEF RolloutProofs!HasFields, RolloutProofs!IsFunction
<1>4. \A type : RuleProofs!HasFields(type, NewValue(type))
  <2>1. \A type, v : type \notin ObjectTypes => RolloutProofs!HasFields(type, v)
    BY DEF RolloutProofs!HasFields
  <2> QED BY <1>1, <1>3, <2>1 DEF RuleProofs!HasFields, RuleProofs!IsFunction
<1>5. \A type : FlagProofs!HasFields(type, NewValue(type))
  <2>1. \A type, v : type \notin ObjectTypes => RuleProofs!HasFields(type, v)
    BY DEF RuleProofs!HasFields
  <2> QED BY <1>1, <1>4, <2>1 DEF FlagProofs!HasFields, FlagProofs!IsFunction
<1> QED BY <1>2, <1>3, <1>4, <1>5

\* Documents that are the same up to order are read as the same item.
LEMMA OrderInADocument ==
  ASSUME NEW type \in ObjectTypes, NEW a, NEW b, SameUpToOrder(type, a, b)
  PROVE  ReadValue(type, Zero[type], a) = ReadValue(type, Zero[type], b)
<1>1. LeafProofs!OrderDoesNotMatterNested /\ LeafProofs!NewValuesHaveFieldsNested
  BY DEF LeafProofs!OrderDoesNotMatterNested, LeafProofs!NewValuesHaveFieldsNested, SameScalar,
     AnyValue
<1>2. RolloutProofs!OrderDoesNotMatterNested /\ RolloutProofs!NewValuesHaveFieldsNested
  <2>1. ASSUME NEW t, NEW old, NEW x, NEW y, LeafProofs!HasFields(t, old),
               LeafOrder!SameValue(t, x, y)
        PROVE  Leaves!ReadValue(t, old, x) = Leaves!ReadValue(t, old, y)
    <3>1. LeafProofs!ReadValue(t, old, x) = LeafProofs!ReadValue(t, old, y)
      BY <1>1, <2>1, SameLeaves, LeafProofs!OrderInAValue
    <3> QED BY <3>1, ReadLeaves
  <2> QED BY <2>1, NewValuesHaveFields
          DEF RolloutProofs!OrderDoesNotMatterNested, RolloutProofs!NewValuesHaveFieldsNested
<1>3. RuleProofs!OrderDoesNotMatterNested /\ RuleProofs!NewValuesHaveFieldsNested
  <2>1. ASSUME NEW t, NEW old, NEW x, NEW y, RolloutProofs!HasFields(t, old),
               RolloutOrder!SameValue(t, x, y)
        PROVE  Rollouts!ReadValue(t, old, x) = Rollouts!ReadValue(t, old, y)
    <3>1. RolloutProofs!ReadValue(t, old, x) = RolloutProofs!ReadValue(t, old, y)
      BY <1>2, <2>1, SameRollouts, RolloutProofs!OrderInAValue
    <3> QED BY <3>1, ReadRollouts
  <2> QED BY <2>1, NewValuesHaveFields
          DEF RuleProofs!OrderDoesNotMatterNested, RuleProofs!NewValuesHaveFieldsNested
<1>4. FlagProofs!OrderDoesNotMatterNested /\ FlagProofs!NewValuesHaveFieldsNested
  <2>1. ASSUME NEW t, NEW old, NEW x, NEW y, RuleProofs!HasFields(t, old),
               RuleOrder!SameValue(t, x, y)
        PROVE  Rules!ReadValue(t, old, x) = Rules!ReadValue(t, old, y)
    <3>1. RuleProofs!ReadValue(t, old, x) = RuleProofs!ReadValue(t, old, y)
      BY <1>3, <2>1, SameRules, RuleProofs!OrderInAValue
    <3> QED BY <3>1, ReadRules
  <2> QED BY <2>1, NewValuesHaveFields
          DEF FlagProofs!OrderDoesNotMatterNested, FlagProofs!NewValuesHaveFieldsNested
<1>5. FlagProofs!HasFields(type, Zero[type])
  BY NewValuesHaveFields DEF NewValue
<1>6. FlagProofs!SameValue(type, a, b)
  BY SameFlags DEF SameUpToOrder
<1>7. FlagProofs!ReadValue(type, Zero[type], a) = FlagProofs!ReadValue(type, Zero[type], b)
  BY <1>4, <1>5, <1>6, FlagProofs!OrderInAValue
<1> QED BY <1>7, ReadFlags DEF ReadValue

------------------------------------------------------------------------------
(***************************************************************************)
(* All types but flags are regular.                                        *)
(***************************************************************************)
RegularTypes == ObjectTypes \ {"FeatureFlag"}

\* A property that the schema lists is found by its name.
LEMMA ListedProperties ==
  ASSUME NEW type \in ObjectTypes, NEW i \in DOMAIN Schema[type],
         NEW name, Schema[type][i].name = name
  PROVE  name \in Names(type) /\ Properties[type][name] = Schema[type][i]
<1> DEFINE s == Schema[type]
<1>1. /\ Names(type) = {s[j].name : j \in DOMAIN s}
      /\ \A j \in DOMAIN s : Properties[type][s[j].name] = s[j]
  BY PropertiesFit
<1> HIDE DEF s
<1> QED BY <1>1 DEF s

\* The attributes, the context kinds that tell what they are, and the variations of a rollout.
LEMMA PropertiesOfAttributes ==
  /\ "attribute" \in Names("Clause") /\ "contextKind" \in Names("Clause")
  /\ Properties["Clause"]["contextKind"] = IfSet("contextKind", "string")
  /\ "bucketBy" \in Names("Rollout") /\ "contextKind" \in Names("Rollout")
  /\ Properties["Rollout"]["contextKind"] = IfSet("contextKind", "string")
  /\ "variations" \in Names("Rollout")
  /\ Properties["Rollout"]["variations"] = List("variations", "WeightedVariation")
  /\ "bucketBy" \in Names("SegmentRule") /\ "rolloutContextKind" \in Names("SegmentRule")
  /\ Properties["SegmentRule"]["rolloutContextKind"] = IfSet("rolloutContextKind", "string")
<1> DEFINE listed(type, i, p) ==
             i \in DOMAIN Schema[type] /\ Schema[type][i] = p
<1>1. /\ listed("Clause", 1, IfSet("contextKind", "string"))
      /\ listed("Clause", 2, Always("attribute", "attribute"))
  <2>1. Schema["Clause"] = ClauseSchema
    BY DEF Schema
  <2> QED BY <2>1 DEF ClauseSchema
<1>2. /\ listed("Rollout", 2, IfSet("contextKind", "string"))
      /\ listed("Rollout", 3, List("variations", "WeightedVariation"))
      /\ listed("Rollout", 5, IfSet("bucketBy", "attribute"))
  <2>1. Schema["Rollout"] = RolloutSchema
    BY DEF Schema
  <2> QED BY <2>1 DEF RolloutSchema
<1>3. /\ listed("SegmentRule", 4, IfSet("bucketBy", "attribute"))
      /\ listed("SegmentRule", 5, IfSet("rolloutContextKind", "string"))
  <2>1. Schema["SegmentRule"] = SegmentRuleSchema
    BY DEF Schema
  <2> QED BY <2>1 DEF SegmentRuleSchema
<1>4. ASSUME NEW type \in ObjectTypes, NEW i, NEW p, listed(type, i, p), NEW name, p.name = name
      PROVE  name \in Names(type) /\ Properties[type][name] = p
  BY <1>4, ListedProperties
<1>5. /\ "Clause" \in ObjectTypes /\ "Rollout" \in ObjectTypes /\ "SegmentRule" \in ObjectTypes
  BY TypesByDepth DEF LeafTypes, RolloutTypes
<1>6. \A name, type : /\ Always(name, type).name = name /\ IfSet(name, type).name = name
                      /\ List(name, type).name = name
  BY DEF Always, IfSet, List
<1> HIDE DEF listed
<1>7. /\ "contextKind" \in Names("Clause")
      /\ Properties["Clause"]["contextKind"] = IfSet("contextKind", "string")
  BY ONLY <1>1, <1>4, <1>5, <1>6
<1>8. "attribute" \in Names("Clause")
  BY ONLY <1>1, <1>4, <1>5, <1>6
<1>9. /\ "contextKind" \in Names("Rollout")
      /\ Properties["Rollout"]["contextKind"] = IfSet("contextKind", "string")
  BY ONLY <1>2, <1>4, <1>5, <1>6
<1>10. /\ "variations" \in Names("Rollout")
       /\ Properties["Rollout"]["variations"] = List("variations", "WeightedVariation")
  BY ONLY <1>2, <1>4, <1>5, <1>6
<1>11. "bucketBy" \in Names("Rollout")
  BY ONLY <1>2, <1>4, <1>5, <1>6
<1>12. "bucketBy" \in Names("SegmentRule")
  BY ONLY <1>3, <1>4, <1>5, <1>6
<1>13. /\ "rolloutContextKind" \in Names("SegmentRule")
       /\ Properties["SegmentRule"]["rolloutContextKind"] = IfSet("rolloutContextKind", "string")
  BY ONLY <1>3, <1>4, <1>5, <1>6
<1> QED BY <1>7, <1>8, <1>9, <1>10, <1>11, <1>12, <1>13

\* The fields of a regular object are its properties, and it may have hidden ones.
LEMMA RegularFields ==
  ASSUME NEW type \in RegularTypes
  PROVE  /\ type \in ObjectTypes /\ NewValue(type) = Zero[type]
         /\ Names(type) = Fields(type) /\ AttributeOf(type) \subseteq Names(type)
         /\ NewValue(type) = [name \in DOMAIN NewValue(type) |-> NewValue(type)[name]]
         /\ DOMAIN NewValue(type) = Hidden(type) \cup Names(type)
         /\ \A name \in Hidden(type) : name \notin Names(type) /\ NewValue(type)[name] = FALSE
         /\ \A name \in Names(type) :
              NewValue(type)[name] =
                ZeroField(Properties[type][name], Zero[Properties[type][name].type])
<1>1. type \in ObjectTypes /\ NewValue(type) = Zero[type]
  BY DEF RegularTypes, NewValue
<1>2. Names(type) = Fields(type)
  <2>1. \A name \in Names(type) : name # "clientSide"
    <3> TAKE name \in Names(type)
    <3>1. Properties[type][name].name = name /\ Fits(type, Properties[type][name])
      BY <1>1, PropertiesFit
    <3> QED BY <3>1 DEF Fits, RegularTypes
  <2> QED BY <2>1 DEF Fields
<1>3. AttributeOf(type) \subseteq Names(type)
  BY PropertiesOfAttributes DEF AttributeOf
<1>4. IsZeroOf(type, Zero[type])
  BY <1>1, ZeroHasZeroFields
<1>5. \A name \in Hidden(type) : name \notin Names(type)
  BY <1>1, <1>2, HiddenIsNoField
<1> DEFINE zero == NewValue(type)
<1>6. IsZeroOf(type, zero)
  BY <1>1, <1>4
<1> HIDE DEF zero
<1>7. zero = [name \in DOMAIN zero |-> zero[name]] /\ DOMAIN zero = Hidden(type) \cup Names(type)
  BY <1>2, <1>6 DEF IsZeroOf
<1> QED BY <1>1, <1>2, <1>3, <1>5, <1>6, <1>7 DEF IsZeroOf, zero

\* What is set may be written, of any type;
LEMMA SetMayBeWritten ==
  ASSUME NEW type, NEW p, Fits(type, p), ~p.list, NEW x, p.always \/ IsSet(p, x)
  PROVE  MayBeWritten(p.type, x)
<1>1. CASE p.always
  BY <1>1 DEF Fits, MayBeWritten
<1>2. CASE ~p.always
  <2>1. IsSet(p, x)
    BY <1>2
  <2>2. CASE p.type \in OptionalInts
    <3>1. x # <<>>
      BY <2>1, <2>2 DEF IsSet, OptionalInts
    <3> QED BY <2>2, <3>1 DEF MayBeWritten, OptionalInts
  <2>3. CASE p.type = "ClientSideAvailability"
    BY <2>1, <2>3 DEF IsSet, MayBeWritten, OptionalInts
  <2>4. CASE p.type = "MigrationFlagParameters"
    BY <2>1, <2>4 DEF IsSet, MayBeWritten, OptionalInts
  <2>5. CASE p.type \notin OptionalInts \cup {"ClientSideAvailability", "MigrationFlagParameters"}
    BY <2>5 DEF MayBeWritten, OptionalInts
  <2> QED BY <2>2, <2>3, <2>4, <2>5
<1> QED BY <1>1, <1>2

\* and a scalar that is not set is zero.
LEMMA UnsetIsZero ==
  ASSUME NEW type, NEW p, Fits(type, p), ~p.list, ~p.always,
         p.type \in ScalarTypes \ {"attribute"}, NEW x, IsScalar(p.type, x), ~IsSet(p, x)
  PROVE  x = ZeroScalar(p.type)
<1>1. p.type \in {"string", "bool"} \cup OptionalInts
  BY DEF Fits, ScalarTypes
<1>2. CASE p.type = "string"
  BY <1>2 DEF IsSet, ZeroScalar, OptionalInts
<1>3. CASE p.type = "bool"
  <2>1. x \in BOOLEAN
    BY <1>3 DEF IsScalar, OptionalInts
  <2>2. ~x
    BY <1>3 DEF IsSet, OptionalInts
  <2>3. ZeroScalar(p.type) = FALSE
    BY <1>3 DEF ZeroScalar, OptionalInts
  <2> QED BY <2>1, <2>2, <2>3
<1>4. CASE p.type \in OptionalInts
  BY <1>4 DEF IsSet, ZeroScalar, OptionalInts
<1> QED BY <1>1, <1>2, <1>3, <1>4

\* Each of its properties is what every level expects.
LEMMA RegularProperties ==
  ASSUME NEW type \in RegularTypes, NEW name \in Names(type)
  PROVE  Properties[type][name].name = name /\ LeafProofs!IsRegularProperty(type, name)
<1> DEFINE p == Properties[type][name]
           zero == NewValue(type)
<1>1. p.name = name /\ Fits(type, p)
  BY RegularFields, PropertiesFit
<1>2. name \in DOMAIN zero /\ zero[name] = ZeroField(p, Zero[p.type])
  BY RegularFields
<1> HIDE DEF p, zero
<1>3. p.type \in ScalarTypes \cup ObjectTypes /\ p.list \in BOOLEAN /\ p.always \in BOOLEAN
  BY <1>1, RegularFields, TypesByDepth
     DEF Fits, Below, TypesOfLeaves, TypesOfRollouts, TypesOfRules
<1>4. ScalarTypes \cap ObjectTypes = {}
  BY TypesByDepth DEF ScalarTypes, OptionalInts, LeafTypes, RolloutTypes, RuleTypes
<1>5. name \in AttributeOf(type) <=> p.type = "attribute"
  BY <1>1 DEF Fits
<1>6. p.list => p.always /\ zero[name] = <<>> /\ \A x : MayBeWritten(p.type, x)
  BY <1>1, <1>2 DEF Fits, ZeroField, MayBeWritten
<1>7. ~p.list /\ p.type \in ObjectTypes =>
        p.type = "Rollout" /\ ~p.always /\ zero[name] = NewValue(p.type)
  <2>1. ~p.list /\ p.type \in ObjectTypes => p.type = "Rollout" /\ ~p.always
    BY <1>1 DEF Fits, RegularTypes
  <2> QED BY <2>1, <1>2 DEF ZeroField, NewValue
<1>8. p.type # "attribute" => \A v : Source(type, v, name) = v[name]
  BY <1>5 DEF Source, RegularTypes
<1>9. \A x : ~p.list /\ (p.always \/ IsSet(p, x)) => MayBeWritten(p.type, x)
  BY <1>1, <1>3, SetMayBeWritten
<1>10. ASSUME p.type \notin ObjectTypes \cup {"attribute"}, NEW x, ~p.always, ~IsSet(p, x),
              IsScalar(p.type, x)
       PROVE  x = zero[name]
  <2>1. ~p.list /\ zero[name] = ZeroScalar(p.type)
    BY <1>2, <1>6, <1>10 DEF ZeroField
  <2> QED BY <1>1, <1>3, <1>10, <2>1, UnsetIsZero
<1>11. LeafProofs!IsRegularProperty(type, name)
  BY <1>2, <1>5, <1>6, <1>7, <1>8, <1>9, <1>10 DEF LeafProofs!IsRegularProperty, p, zero
<1> QED BY <1>1, <1>11 DEF p

\* It begins with what it is read over or with zero values.
LEMMA RegularBegins ==
  ASSUME NEW type \in RegularTypes
  PROVE  LeafProofs!Begins(type)
<1> DEFINE zero == NewValue(type)
<1>1. /\ Zero[type] = zero /\ zero = [name \in DOMAIN zero |-> zero[name]]
      /\ AttributeOf(type) \subseteq Names(type) /\ Names(type) \subseteq DOMAIN zero
      /\ \A name \in Hidden(type) : name \notin Names(type)
  BY RegularFields
<1> HIDE DEF zero
<1>2. ASSUME NEW old, old = [name \in DOMAIN zero |-> old[name]]
      PROVE  LET begun == BeginObject(type, old)
             IN  /\ begun = [name \in DOMAIN zero |-> begun[name]]
                 /\ \A name \in Names(type) : IF name \in AttributeOf(type) THEN begun[name] = <<>>
                                              ELSE begun[name] \in {old[name], zero[name]}
  <2> DEFINE begun == BeginObject(type, old)
  <2>0. DOMAIN old = DOMAIN zero
    BY <1>2
  <2>1. CASE AttributeOf(type) # {}
    <3>1. type \notin {"FeatureFlag", "ClientSideAvailability", "MigrationFlagParameters"}
      BY <2>1 DEF AttributeOf
    <3>2. begun = [name \in DOMAIN zero |-> IF name \in AttributeOf(type) THEN <<>> ELSE old[name]]
      BY <2>0, <2>1, <3>1 DEF BeginObject
    <3> HIDE DEF begun
    <3>3. begun = [name \in DOMAIN zero |-> begun[name]]
      BY <3>2
    <3>4. \A name \in Names(type) : IF name \in AttributeOf(type) THEN begun[name] = <<>>
                                    ELSE begun[name] \in {old[name], zero[name]}
      BY <3>2, <1>1
    <3> QED BY <3>3, <3>4 DEF begun
  <2>2. CASE type = "ClientSideAvailability"
    <3>1. begun = [old EXCEPT !.explicit = TRUE] /\ AttributeOf(type) = {}
      BY <2>2 DEF BeginObject, AttributeOf
    <3>2. "explicit" \notin Names(type)
      BY <1>1, <2>2 DEF Hidden
    <3> HIDE DEF begun
    <3>3. begun = [name \in DOMAIN zero |-> begun[name]]
      BY <3>1, <2>0
    <3>4. \A name \in Names(type) : begun[name] = old[name]
      BY <3>1, <3>2, <2>0, <1>1
    <3> QED BY <3>1, <3>3, <3>4 DEF begun
  <2>3. CASE type = "MigrationFlagParameters"
    <3>1. begun = [zero EXCEPT !.present = TRUE] /\ AttributeOf(type) = {}
      BY <1>1, <2>3 DEF BeginObject, AttributeOf
    <3>2. "present" \notin Names(type)
      BY <1>1, <2>3 DEF Hidden
    <3> HIDE DEF begun
    <3>3. begun = [name \in DOMAIN zero |-> begun[name]]
      BY <3>1
    <3>4. \A name \in Names(type) : begun[name] = zero[name]
      BY <3>1, <3>2, <1>1
    <3> QED BY <3>1, <3>3, <3>4 DEF begun
  <2>4. CASE /\ AttributeOf(type) = {}
             /\ type \notin {"ClientSideAvailability", "MigrationFlagParameters"}
    <3>1. begun = old
      BY <2>4 DEF BeginObject, RegularTypes
    <3> HIDE DEF begun
    <3> QED BY <1>2, <2>4, <3>1 DEF begun
  <2> QED BY <2>1, <2>2, <2>3, <2>4
<1> QED BY <1>2 DEF LeafProofs!Begins, zero

\* So is what a null stands for.
LEMMA RegularNulls ==
  ASSUME NEW type \in RegularTypes
  PROVE  LeafProofs!NullsAreTyped(type)
<1> DEFINE zero == NewValue(type)
<1>1. /\ Zero[type] = zero /\ zero = [name \in DOMAIN zero |-> zero[name]]
      /\ AttributeOf(type) \subseteq Names(type) /\ Names(type) \subseteq DOMAIN zero
      /\ DOMAIN zero = Hidden(type) \cup Names(type)
      /\ \A name \in Hidden(type) : name \notin Names(type)
      /\ \A name \in Names(type) :
           zero[name] = ZeroField(Properties[type][name], Zero[Properties[type][name].type])
  BY RegularFields
<1>2. \A name \in AttributeOf(type) : zero[name] = UndefinedAttr
  <2> HIDE DEF zero
  <2> TAKE name \in AttributeOf(type)
  <2>1. name \in Names(type) /\ type \in ObjectTypes
    BY <1>1 DEF RegularTypes
  <2>2. Properties[type][name].name = name /\ Fits(type, Properties[type][name])
    BY <2>1, PropertiesFit
  <2>3. Properties[type][name].type = "attribute" /\ ~Properties[type][name].list
    BY <2>2 DEF Fits
  <2>4. "attribute" \notin ObjectTypes
    BY TypesByDepth DEF LeafTypes, RolloutTypes, RuleTypes
  <2>5. ZeroScalar("attribute") = UndefinedAttr
    BY DEF ZeroScalar, OptionalInts
  <2> QED BY <1>1, <2>1, <2>3, <2>4, <2>5 DEF ZeroField
<1> HIDE DEF zero
<1>3. ASSUME NEW old, old = [name \in DOMAIN zero |-> old[name]],
             NEW u, ReadNullObject(type, old) = <<u>>
      PROVE  /\ u = [name \in DOMAIN zero |-> u[name]]
             /\ \A name \in Names(type) : u[name] \in {old[name], zero[name]}
             /\ IsConsistent(type, u)
  <2>0. DOMAIN old = DOMAIN zero
    BY <1>3
  <2>1. CASE type = "Rollout"
    <3>1. u = zero
      BY <1>1, <1>3, <2>1 DEF ReadNullObject
    <3>2. IsConsistent(type, u)
      BY <1>2, <2>1, <3>1 DEF IsConsistent, CanBeEscaped
    <3> QED BY <1>1, <3>1, <3>2
  <2>2. CASE type = "ClientSideAvailability"
    <3>1. u = [old EXCEPT !.explicit = FALSE]
      BY <1>3, <2>2 DEF ReadNullObject
    <3>2. "explicit" \notin Names(type) /\ "explicit" \in DOMAIN zero
      BY <1>1, <2>2 DEF Hidden
    <3>3. u = [name \in DOMAIN zero |-> u[name]] /\ u.explicit = FALSE
      BY <3>1, <3>2, <2>0
    <3>4. \A name \in Names(type) : u[name] = old[name]
      BY <3>1, <3>2, <2>0, <1>1
    <3>5. IsConsistent(type, u)
      BY <2>2, <3>3 DEF IsConsistent, AttributeOf
    <3> QED BY <3>3, <3>4, <3>5
  <2>3. CASE type = "MigrationFlagParameters"
    <3>1. u = [zero EXCEPT !.present = TRUE]
      BY <1>1, <1>3, <2>3 DEF ReadNullObject
    <3>2. "present" \notin Names(type) /\ "present" \in DOMAIN zero
      BY <1>1, <2>3 DEF Hidden
    <3>3. u = [name \in DOMAIN zero |-> u[name]] /\ u.present = TRUE
      BY <3>1, <3>2
    <3>4. \A name \in Names(type) : u[name] = zero[name]
      BY <3>1, <3>2, <1>1
    <3>5. IsConsistent(type, u)
      BY <2>3, <3>3 DEF IsConsistent, AttributeOf
    <3> QED BY <3>3, <3>4, <3>5
  <2>4. CASE type \notin {"Rollout", "ClientSideAvailability", "MigrationFlagParameters"}
    <3>1. ReadNullObject(type, old) = <<>> /\ <<u>> # <<>>
      BY <2>4 DEF ReadNullObject
    <3> QED BY <1>3, <3>1
  <2> QED BY <2>1, <2>2, <2>3, <2>4
<1> QED BY <1>3 DEF LeafProofs!NullsAreTyped, zero

\* Its kind is a string of its own.
LEMMA RegularKinds ==
  ASSUME NEW type \in RegularTypes
  PROVE  /\ LeafProofs!KindIsAField(type)
         /\ AttributeOf(type) # {} =>
              \E kind \in Names(type) \ AttributeOf(type) : \A r : KindOf(type, r) = r[kind]
<1>1. IfSet("contextKind", "string").type = "string" /\ ~IfSet("contextKind", "string").list
      /\ IfSet("rolloutContextKind", "string").type = "string"
      /\ ~IfSet("rolloutContextKind", "string").list
  BY DEF IfSet
<1>2. CASE type \in {"Clause", "Rollout"}
  <2>1. \A r : KindOf(type, r) = r["contextKind"]
    BY <1>2 DEF KindOf
  <2>2. "contextKind" \in Names(type) \ AttributeOf(type)
        /\ Properties[type]["contextKind"] = IfSet("contextKind", "string")
    BY <1>2, PropertiesOfAttributes DEF AttributeOf
  <2> QED BY <1>1, <2>1, <2>2 DEF LeafProofs!KindIsAField
<1>3. CASE type = "SegmentRule"
  <2>1. \A r : KindOf(type, r) = r["rolloutContextKind"]
    BY <1>3 DEF KindOf
  <2>2. "rolloutContextKind" \in Names(type) \ AttributeOf(type)
        /\ Properties[type]["rolloutContextKind"] = IfSet("rolloutContextKind", "string")
    BY <1>3, PropertiesOfAttributes DEF AttributeOf
  <2> QED BY <1>1, <2>1, <2>2 DEF LeafProofs!KindIsAField
<1>4. CASE type \notin {"Clause", "Rollout", "SegmentRule"}
  <2>1. AttributeOf(type) = {}
    BY <1>4 DEF AttributeOf
  <2> QED BY <2>1 DEF LeafProofs!KindIsAField
<1> QED BY <1>2, <1>3, <1>4

\* At the end, its attributes are interpreted; and then it is consistent.
LEMMA RegularEnds ==
  ASSUME NEW type \in RegularTypes
  PROVE  LeafProofs!Ends(type) /\ LeafProofs!EndsTyped(type)
<1> DEFINE zero == NewValue(type)
           record(q) == q = [name \in DOMAIN zero |-> q[name]]
<1>1. /\ Zero[type] = zero /\ AttributeOf(type) \subseteq Names(type)
      /\ DOMAIN zero = Hidden(type) \cup Names(type)
      /\ \A name \in Hidden(type) : name \notin Names(type)
  BY RegularFields
<1> HIDE DEF zero
<1>2. ASSUME NEW q, record(q)
      PROVE  EndObject(type, q) = [name \in DOMAIN zero |->
                                     IF name \in AttributeOf(type)
                                     THEN SetAttrNameOrRef(q[name], KindOf(type, q)) ELSE q[name]]
  <2>0. DOMAIN q = DOMAIN zero
    BY <1>2
  <2>1. CASE AttributeOf(type) # {}
    <3>1. EndObject(type, q) = [name \in DOMAIN q |->
             IF name \in AttributeOf(type) THEN SetAttrNameOrRef(q[name], KindOf(type, q))
             ELSE q[name]]
      BY <2>1 DEF EndObject, RegularTypes
    <3> QED BY <2>0, <3>1
  <2>2. CASE AttributeOf(type) = {}
    <3>1. EndObject(type, q) = q
      BY <2>2 DEF EndObject, RegularTypes
    <3> QED BY <1>2, <2>2, <3>1
  <2> QED BY <2>1, <2>2
<1>3. ASSUME NEW old, record(old), NEW q, record(q),
             \A name \in AttributeOf(type) : IsAttributeText(q[name]),
             \A name \in DOMAIN q \ Names(type) : q[name] = BeginObject(type, old)[name]
      PROVE  /\ \A name \in AttributeOf(type) : IsScalar("attribute", EndObject(type, q)[name])
             /\ IsConsistent(type, EndObject(type, q))
  <2> DEFINE ended == EndObject(type, q)
             kind == KindOf(type, q)
  <2>0. DOMAIN q = DOMAIN zero
    BY <1>3
  <2>1. ended = [name \in DOMAIN zero |-> IF name \in AttributeOf(type)
                                          THEN SetAttrNameOrRef(q[name], kind) ELSE q[name]]
    BY <1>2, <1>3
  <2>2. AttributeOf(type) # {} => KindOf(type, ended) = kind
    <3> SUFFICES ASSUME AttributeOf(type) # {} PROVE KindOf(type, ended) = kind
      OBVIOUS
    <3>1. PICK k \in Names(type) \ AttributeOf(type) : \A r : KindOf(type, r) = r[k]
      BY RegularKinds
    <3>2. k \in DOMAIN zero
      BY <1>1
    <3> HIDE DEF ended
    <3>3. ended[k] = q[k]
      BY <2>1, <3>1, <3>2
    <3> QED BY <3>1, <3>3
  <2>3. ASSUME NEW name \in AttributeOf(type)
        PROVE  /\ IsScalar("attribute", ended[name])
               /\ CanBeEscaped(KindOf(type, ended), ended[name])
    <3> HIDE DEF ended
    <3>1. ended[name] = SetAttrNameOrRef(q[name], kind)
      BY <1>1, <2>1
    <3>2. KindOf(type, ended) = kind
      BY <2>2
    <3>3. IsAttributeText(q[name])
      BY <1>3
    <3> HIDE DEF kind
    <3> QED BY <3>1, <3>2, <3>3, TextsAreAttributes
  <2>4. ASSUME NEW name \in Hidden(type) PROVE ended[name] = BeginObject(type, old)[name]
    <3> HIDE DEF ended
    <3>1. name \in DOMAIN zero /\ name \notin Names(type) /\ name \notin AttributeOf(type)
      BY <1>1
    <3>2. ended[name] = q[name]
      BY <2>1, <3>1
    <3> QED BY <1>3, <2>0, <3>1, <3>2
  <2> HIDE DEF ended
  <2>5. type = "ClientSideAvailability" => ended.explicit \in BOOLEAN
    <3> SUFFICES ASSUME type = "ClientSideAvailability" PROVE ended.explicit \in BOOLEAN
      OBVIOUS
    <3>1. "explicit" \in Hidden(type) /\ "explicit" \in DOMAIN zero
      BY <1>1 DEF Hidden
    <3>2. BeginObject(type, old) = [old EXCEPT !.explicit = TRUE]
      BY DEF BeginObject, AttributeOf
    <3>3. BeginObject(type, old).explicit = TRUE
      BY <1>3, <3>1, <3>2
    <3> QED BY <2>4, <3>1, <3>3
  <2>6. type = "MigrationFlagParameters" => ended.present = TRUE
    <3> SUFFICES ASSUME type = "MigrationFlagParameters" PROVE ended.present = TRUE
      OBVIOUS
    <3>1. "present" \in Hidden(type) /\ "present" \in DOMAIN zero
      BY <1>1 DEF Hidden
    <3>2. BeginObject(type, old) = [zero EXCEPT !.present = TRUE]
      BY <1>1 DEF BeginObject, AttributeOf
    <3>3. BeginObject(type, old).present = TRUE
      BY <3>1, <3>2
    <3> QED BY <2>4, <3>1, <3>3
  <2>7. IsConsistent(type, ended)
    BY <2>3, <2>5, <2>6 DEF IsConsistent, RegularTypes
  <2> QED BY <2>3, <2>7 DEF ended
<1>4. LeafProofs!Ends(type)
  BY <1>2 DEF LeafProofs!Ends, zero
<1>5. LeafProofs!EndsTyped(type)
  BY <1>3 DEF LeafProofs!EndsTyped, zero
<1> QED BY <1>4, <1>5

\* An attribute survives, if it needs no kind or has one.
LEMMA RegularAttributes ==
  ASSUME NEW type \in RegularTypes
  PROVE  LeafProofs!AttributesAreReadBack(type)
<1>1. ASSUME NEW name \in AttributeOf(type), NEW v, NEW q,
             IsScalar("attribute", v[name]), IsConsistent(type, v),
             NeedsNoKind(<<KindOf(type, v), v[name]>>), KindOf(type, q) = KindOf(type, v),
             \/ q[name] = Source(type, v, name)
             \/ q[name] = <<>> /\ ~IsSet(Properties[type][name], v[name])
      PROVE  MeaningOfScalar("attribute", SetAttrNameOrRef(q[name], KindOf(type, q)))
             = MeaningOfScalar("attribute", v[name])
  <2> DEFINE kind == KindOf(type, v)
             ref == v[name]
             text == q[name]
  <2>1. CanBeEscaped(kind, ref)
    BY <1>1 DEF IsConsistent
  <2>2. Source(type, v, name) = WriteAttrRef(ref, kind)
    BY <1>1 DEF Source, RegularTypes
  <2>3. ~IsSet(Properties[type][name], ref) => ref.text = <<>>
    <3>1. type \in ObjectTypes /\ name \in Names(type)
      BY RegularFields
    <3>2. Properties[type][name].name = name /\ Fits(type, Properties[type][name])
      BY <3>1, PropertiesFit
    <3>3. Properties[type][name].type = "attribute" /\ ~Properties[type][name].list
      BY <3>2 DEF Fits
    <3> HIDE DEF ref
    <3> QED BY <3>3 DEF IsSet, OptionalInts
  <2>4. \/ text = WriteAttrRef(ref, kind)
        \/ text = <<>> /\ ref.text = <<>>
    BY <1>1, <2>2, <2>3
  <2>5. IsScalar("attribute", ref) /\ NeedsNoKind(<<kind, ref>>)
    BY <1>1
  <2>6. KindOf(type, q) = kind
    BY <1>1
  <2> HIDE DEF kind, ref, text
  <2>7. MeaningOfRef(SetAttrNameOrRef(text, kind)) = MeaningOfRef(ref)
    BY <2>1, <2>4, <2>5, AttributesSurvive
  <2> QED BY <2>6, <2>7 DEF MeaningOfScalar, text, ref
<1> QED BY <1>1, Zenon DEF LeafProofs!AttributesAreReadBack

\* What is hidden is known from the property's being there.
LEMMA RegularHidden ==
  ASSUME NEW type \in RegularTypes
  PROVE  LeafProofs!HiddenAreReadBack(type)
<1> DEFINE zero == NewValue(type)
<1>1. /\ Zero[type] = zero /\ zero = [name \in DOMAIN zero |-> zero[name]]
      /\ DOMAIN zero = Hidden(type) \cup Names(type)
  BY RegularFields
<1> HIDE DEF zero
<1>2. ASSUME NEW v, IsConsistent(type, v), MayBeWritten(type, v),
             NEW name \in DOMAIN zero \ Names(type)
      PROVE  BeginObject(type, zero)[name] = v[name]
  <2>0. name \in Hidden(type)
    BY <1>1
  <2>1. CASE type = "ClientSideAvailability"
    <3>1. name = "explicit"
      BY <2>0, <2>1 DEF Hidden
    <3>2. BeginObject(type, zero) = [zero EXCEPT !.explicit = TRUE]
      BY <2>1 DEF BeginObject, AttributeOf
    <3>3. BeginObject(type, zero)["explicit"] = TRUE
      BY <1>1, <3>1, <3>2
    <3>4. v.explicit \in BOOLEAN /\ v.explicit
      BY <1>2, <2>1 DEF IsConsistent, MayBeWritten
    <3> QED BY <3>1, <3>3, <3>4
  <2>2. CASE type = "MigrationFlagParameters"
    <3>1. name = "present"
      BY <2>0, <2>2 DEF Hidden
    <3>2. BeginObject(type, zero) = [zero EXCEPT !.present = TRUE]
      BY <1>1, <2>2 DEF BeginObject, AttributeOf
    <3>3. BeginObject(type, zero)["present"] = TRUE
      BY <1>1, <3>1, <3>2
    <3>4. v.present \in BOOLEAN /\ v.present
      BY <1>2, <2>2 DEF IsConsistent, MayBeWritten
    <3> QED BY <3>1, <3>3, <3>4
  <2> QED BY <2>0, <2>1, <2>2 DEF Hidden
<1> QED BY <1>2 DEF LeafProofs!HiddenAreReadBack, zero

\* So it is regular; which does not depend on the level.
LEMMA TypesAreRegular ==
  ASSUME NEW type \in RegularTypes
  PROVE  LeafProofs!IsRegular(type) /\ RolloutProofs!IsRegular(type) /\ RuleProofs!IsRegular(type)
         /\ FlagProofs!IsRegular(type)
<1>1. LeafProofs!IsRegular(type)
  <2>1. type = "Rollout" => "variations" \in Names(type) /\ Properties[type]["variations"].list
    BY PropertiesOfAttributes DEF List
  <2> QED BY <2>1, RegularFields, RegularProperties, RegularBegins, RegularNulls, RegularKinds,
             RegularEnds, RegularAttributes, RegularHidden DEF LeafProofs!IsRegular
<1>2. RolloutProofs!IsRegular(type)
  BY <1>1, Zenon DEF LeafProofs!IsRegular, LeafProofs!IsRegularProperty, LeafProofs!Begins,
     LeafProofs!NullsAreTyped, LeafProofs!Ends, LeafProofs!EndsTyped,
     LeafProofs!AttributesAreReadBack, LeafProofs!KindIsAField, LeafProofs!HiddenAreReadBack,
     RolloutProofs!IsRegular, RolloutProofs!IsRegularProperty, RolloutProofs!Begins,
     RolloutProofs!NullsAreTyped, RolloutProofs!Ends, RolloutProofs!EndsTyped,
     RolloutProofs!AttributesAreReadBack, RolloutProofs!KindIsAField,
     RolloutProofs!HiddenAreReadBack
<1>3. RuleProofs!IsRegular(type)
  BY <1>1, Zenon DEF LeafProofs!IsRegular, LeafProofs!IsRegularProperty, LeafProofs!Begins,
     LeafProofs!NullsAreTyped, LeafProofs!Ends, LeafProofs!EndsTyped,
     LeafProofs!AttributesAreReadBack, LeafProofs!KindIsAField, LeafProofs!HiddenAreReadBack,
     RuleProofs!IsRegular, RuleProofs!IsRegularProperty, RuleProofs!Begins,
     RuleProofs!NullsAreTyped, RuleProofs!Ends, RuleProofs!EndsTyped,
     RuleProofs!AttributesAreReadBack, RuleProofs!KindIsAField, RuleProofs!HiddenAreReadBack
<1>4. FlagProofs!IsRegular(type)
  BY <1>1, Zenon DEF LeafProofs!IsRegular, LeafProofs!IsRegularProperty, LeafProofs!Begins,
     LeafProofs!NullsAreTyped, LeafProofs!Ends, LeafProofs!EndsTyped,
     LeafProofs!AttributesAreReadBack, LeafProofs!KindIsAField, LeafProofs!HiddenAreReadBack,
     FlagProofs!IsRegular, FlagProofs!IsRegularProperty, FlagProofs!Begins,
     FlagProofs!NullsAreTyped, FlagProofs!Ends, FlagProofs!EndsTyped,
     FlagProofs!AttributesAreReadBack, FlagProofs!KindIsAField, FlagProofs!HiddenAreReadBack
<1> QED BY <1>1, <1>2, <1>3, <1>4

\* The schema of each type is sound, and fits what the levels below handle.
LEMMA SchemasAreSound ==
  ASSUME NEW type \in ObjectTypes
  PROVE  LeafProofs!SchemaIsSound(type) /\ RolloutProofs!SchemaIsSound(type)
         /\ RuleProofs!SchemaIsSound(type) /\ FlagProofs!SchemaIsSound(type)
BY SchemasFit, PropertiesFit, SMT DEF LeafProofs!SchemaIsSound, RolloutProofs!SchemaIsSound,
   RuleProofs!SchemaIsSound, FlagProofs!SchemaIsSound, IsSchema

\* and its properties are of types that the level handles, or one below.
LEMMA TypesFitTheLevels ==
  ASSUME NEW type \in ObjectTypes, NEW name \in Names(type)
  PROVE  /\ type \in LeafTypes => LeafProofs!FitsTheLevel(Properties[type][name])
         /\ type \in LeafTypes \cup RolloutTypes =>
              RolloutProofs!FitsTheLevel(Properties[type][name])
         /\ type \in LeafTypes \cup RolloutTypes \cup RuleTypes =>
              RuleProofs!FitsTheLevel(Properties[type][name])
         /\ FlagProofs!FitsTheLevel(Properties[type][name])
<1> DEFINE p == Properties[type][name]
<1>1. Fits(type, p)
  BY PropertiesFit
<1>2. /\ type \notin RolloutTypes \/ type \notin LeafTypes
      /\ type \in RuleTypes => type \notin LeafTypes \cup RolloutTypes
      /\ type = "FeatureFlag" => type \notin LeafTypes \cup RolloutTypes \cup RuleTypes
  BY DEF LeafTypes, RolloutTypes, RuleTypes
<1> HIDE DEF p
<1>3. p.list \in BOOLEAN /\ (p.list => p.type # "attribute") /\ p.type \in Below(type)
  BY <1>1 DEF Fits
<1>4. /\ type \in LeafTypes => p.type \in ScalarTypes
      /\ type \in RolloutTypes => p.type \in TypesOfLeaves
      /\ type \in RuleTypes => p.type \in TypesOfRollouts
      /\ type = "FeatureFlag" => p.type \in TypesOfRules
  BY <1>2, <1>3 DEF Below
<1>5. type \in LeafTypes \cup RolloutTypes \cup RuleTypes \cup {"FeatureFlag"}
  BY TypesByDepth
<1> QED BY <1>3, <1>4, <1>5, SMT
    DEF LeafProofs!FitsTheLevel, RolloutProofs!FitsTheLevel, RuleProofs!FitsTheLevel,
        FlagProofs!FitsTheLevel, TypesOfLeaves, TypesOfRollouts, TypesOfRules, p

------------------------------------------------------------------------------
(***************************************************************************)
(* Scalars: one is read or none, with its type, and as it was written.     *)
(***************************************************************************)
\* The scalar types by name, and none is the type of an object.
LEMMA ScalarTypesByName ==
  /\ ScalarTypes \cap ObjectTypes = {}
  /\ \A type \in ScalarTypes :
       \/ type \in {"any", "string", "int", "date", "bool", "attribute"}
       \/ type \in {"intOrNull", "intUnlessNull", "optionalInt"}
BY TypesByDepth DEF ScalarTypes, OptionalInts, LeafTypes, RolloutTypes, RuleTypes

\* One is read or none, also where there is a null.
LEMMA ScalarsYieldOneOrNone ==
  /\ LeafProofs!YieldsOneOrNoneNested
  /\ LeafProofs!NullsYieldOneOrNone /\ RolloutProofs!NullsYieldOneOrNone
  /\ RuleProofs!NullsYieldOneOrNone /\ FlagProofs!NullsYieldOneOrNone
<1>1. ASSUME NEW type, NEW old, NEW json
      PROVE  LeafProofs!OneOrNone(ReadScalar(type, old, json))
  BY DEF ReadScalar, OptionalInts, LeafProofs!OneOrNone
<1>2. ASSUME NEW type, NEW old
      PROVE  LeafProofs!OneOrNone(ReadNullObject(type, old))
  BY DEF ReadNullObject, LeafProofs!OneOrNone
<1> QED BY <1>1, <1>2, Zenon
        DEF LeafProofs!YieldsOneOrNoneNested, LeafProofs!NullsYieldOneOrNone,
            RolloutProofs!NullsYieldOneOrNone, RuleProofs!NullsYieldOneOrNone,
            FlagProofs!NullsYieldOneOrNone, LeafProofs!OneOrNone, RolloutProofs!OneOrNone,
            RuleProofs!OneOrNone, FlagProofs!OneOrNone

\* What is read has the type.
LEMMA ScalarsAreTyped == LeafProofs!ReadsTypedNested
<1>1. ASSUME NEW type \in ScalarTypes \ {"attribute"}, NEW old, NEW json, NEW u,
             old = NewValue(type) \/ IsScalar(type, old),
             IsTaggedScalar(type, json), ReadScalar(type, old, json) = <<u>>
      PROVE  IsScalar(type, u)
  <2>0. type \notin ObjectTypes /\ NewValue(type) = <<>> /\ <<u>> # <<>>
    BY ScalarTypesByName DEF NewValue
  <2>1. CASE type = "bool"
    <3>1. json[1] = "bool" /\ u = json[2]
      BY <1>1, <2>0, <2>1 DEF ReadScalar, OptionalInts
    <3>2. u \in BOOLEAN
      BY <1>1, <3>1 DEF IsTaggedScalar
    <3> QED BY <2>0, <2>1, <3>2 DEF IsScalar, OptionalInts
  <2>2. CASE type \in OptionalInts
    <3>1. \/ u = <<json[2]>>
          \/ u = <<>>
          \/ u = old
      BY <1>1, <2>0, <2>2 DEF ReadScalar, OptionalInts
    <3>2. old = <<>> \/ old = <<old[1]>>
      BY <1>1, <2>0, <2>2 DEF IsScalar, OptionalInts
    <3>3. u = <<>> \/ u = <<u[1]>>
      BY <3>1, <3>2
    <3> QED BY <2>0, <2>2, <3>3 DEF IsScalar, OptionalInts
  <2>3. CASE type \in {"string", "int", "date", "any"}
    BY <2>0, <2>3 DEF IsScalar, OptionalInts
  <2> QED BY <2>1, <2>2, <2>3, ScalarTypesByName DEF OptionalInts
<1>2. ASSUME NEW old, NEW json, NEW u,
             IsTaggedScalar("attribute", json), ReadScalar("attribute", old, json) = <<u>>
      PROVE  IsAttributeText(u)
  <2>1. <<u>> # <<>>
    OBVIOUS
  <2>2. \/ json[1] = "text" /\ u = json[2]
        \/ u = <<>>
    BY <1>2, <2>1 DEF ReadScalar, OptionalInts
  <2>3. <<>> \in Seq(Tokens)
    BY EmptySeq
  <2> QED BY <1>2, <2>2, <2>3 DEF IsTaggedScalar, IsAttributeText
<1> QED BY <1>1, <1>2 DEF LeafProofs!ReadsTypedNested

\* What was written is read back, if it was not to be left out.
LEMMA ScalarsAreReadBack ==
  /\ \A type \in ScalarTypes \ {"attribute"} : \A old, v :
       IsScalar(type, v) /\ MayBeWritten(type, v) =>
         ReadScalar(type, old, WriteScalar(type, v)) = <<v>>
  /\ \A old, text : ReadScalar("attribute", old, WriteScalar("attribute", text)) = <<text>>
  /\ LeafProofs!ReadsBackNested /\ LeafProofs!ReadsTextsBackNested
<1>1. ASSUME NEW type \in ScalarTypes \ {"attribute"}, NEW old, NEW v,
             IsScalar(type, v), MayBeWritten(type, v)
      PROVE  ReadScalar(type, old, WriteScalar(type, v)) = <<v>>
  <2> DEFINE json == WriteScalar(type, v)
  <2>0. type \notin ObjectTypes
    BY ScalarTypesByName
  <2>1. CASE type \in {"string", "bool"}
    <3>1. json = <<type, v>>
      BY <2>1 DEF WriteScalar, OptionalInts
    <3>2. json[1] = type /\ json[2] = v
      BY <3>1
    <3> HIDE DEF json
    <3> QED BY <2>1, <3>2 DEF ReadScalar, OptionalInts, json
  <2>2. CASE type \in {"int", "date"} /\ ~(type = "date" /\ v = 0)
    <3>1. json = <<"number", v>>
      BY <2>2 DEF WriteScalar, OptionalInts
    <3>2. json[1] = "number" /\ json[2] = v
      BY <3>1
    <3> HIDE DEF json
    <3> QED BY <2>2, <3>2 DEF ReadScalar, OptionalInts, json
  <2>3. CASE type = "date" /\ v = 0
    <3>1. json = <<"null">>
      BY <2>3 DEF WriteScalar, OptionalInts
    <3>2. json[1] = "null"
      BY <3>1
    <3> HIDE DEF json
    <3> QED BY <2>3, <3>2 DEF ReadScalar, OptionalInts, json
  <2>4. CASE type = "any"
    BY <2>4 DEF ReadScalar, WriteScalar, OptionalInts
  <2>5. CASE type \in OptionalInts
    <3>1. v = <<>> \/ v = <<v[1]>>
      BY <1>1, <2>0, <2>5 DEF IsScalar, OptionalInts
    <3>2. CASE v = <<>>
      <4>1. type = "intOrNull"
        BY <1>1, <2>5, <3>2 DEF MayBeWritten, OptionalInts
      <4>2. json = <<"null">>
        BY <2>5, <3>2 DEF WriteScalar, OptionalInts
      <4>3. json[1] = "null"
        BY <4>2
      <4> HIDE DEF json
      <4> QED BY <3>2, <4>1, <4>3 DEF ReadScalar, OptionalInts, json
    <3>3. CASE v = <<v[1]>>
      <4>0. v # <<>>
        BY <3>3
      <4>1. json = <<"number", v[1]>>
        BY <2>5, <4>0 DEF WriteScalar, OptionalInts
      <4>2. json[1] = "number" /\ <<json[2]>> = v
        BY <3>3, <4>1
      <4> HIDE DEF json
      <4> QED BY <2>5, <4>2 DEF ReadScalar, OptionalInts, json
    <3> QED BY <3>1, <3>2, <3>3
  <2> QED BY <2>1, <2>2, <2>3, <2>4, <2>5, ScalarTypesByName DEF OptionalInts
<1>2. ASSUME NEW old, NEW text
      PROVE  ReadScalar("attribute", old, WriteScalar("attribute", text)) = <<text>>
  <2> DEFINE json == WriteScalar("attribute", text)
  <2>1. json = <<"text", text>>
    BY DEF WriteScalar, OptionalInts
  <2>2. json[1] = "text" /\ json[2] = text
    BY <2>1
  <2> HIDE DEF json
  <2> QED BY <2>2 DEF ReadScalar, OptionalInts, json
<1>3. LeafProofs!ReadsBackNested
  BY <1>1 DEF LeafProofs!ReadsBackNested
<1>4. LeafProofs!ReadsTextsBackNested
  BY <1>2 DEF LeafProofs!ReadsTextsBackNested
<1> QED BY <1>1, <1>2, <1>3, <1>4

------------------------------------------------------------------------------
(***************************************************************************)
(* Level by level: values have their types, and are read back.             *)
(***************************************************************************)
\* What is proved of this level is about what the specification writes, its types and meanings.
LEMMA LeavesAgree ==
  /\ \A type, r : LeafProofs!WriteObject(type, r) = Leaves!WriteObject(type, r)
  /\ \A type, v : LeafProofs!WriteValue(type, v) = Leaves!WriteValue(type, v)
  /\ \A type, json : LeafProofs!IsTaggedValue(type, json) = LeafProperties!IsTaggedValue(type, json)
  /\ \A type, v : LeafProofs!IsValue(type, v) = LeafProperties!IsValue(type, v)
  /\ \A type, v : LeafProofs!MeaningOf(type, v) = LeafMeaning!MeaningOf(type, v)
  /\ \A type, v : LeafProofs!AttributesOf(type, v) = LeafMeaning!AttributesOf(type, v)
<1>1. \A type, r : LeafProofs!WriteProperties(type, r) = Leaves!WriteProperties(type, r)
  BY Zenon DEF LeafProofs!WriteProperties, Leaves!WriteProperties, LeafProofs!IsWritten,
     Leaves!IsWritten, LeafProofs!WriteProperty, Leaves!WriteProperty
<1>2. \A type, r : LeafProofs!WriteObject(type, r) = Leaves!WriteObject(type, r)
  BY <1>1, Zenon DEF LeafProofs!WriteObject, Leaves!WriteObject
<1>3. \A type, v : LeafProofs!WriteValue(type, v) = Leaves!WriteValue(type, v)
  BY <1>2, SMT DEF LeafProofs!WriteValue, Leaves!WriteValue
<1>4. \A v : LeafProofs!IsList(v) = LeafProperties!IsList(v)
  BY Zenon DEF LeafProofs!IsList, LeafProperties!IsList
<1>5. \A p, json : LeafProofs!IsTaggedField(p, json) = LeafProperties!IsTaggedField(p, json)
  BY <1>4, Zenon DEF LeafProofs!IsTaggedField, LeafProperties!IsTaggedField
<1>6. \A type, properties :
        LeafProofs!IsTaggedObject(type, properties)
        = LeafProperties!IsTaggedObject(type, properties)
  BY <1>4, <1>5, Zenon DEF LeafProofs!IsTaggedObject, LeafProperties!IsTaggedObject
<1>7. \A type, json : LeafProofs!IsTaggedValue(type, json)
          = LeafProperties!IsTaggedValue(type, json)
  BY <1>6, Zenon DEF LeafProofs!IsTaggedValue, LeafProperties!IsTaggedValue
<1>8. \A p, v : LeafProofs!IsField(p, v) = LeafProperties!IsField(p, v)
  BY <1>4, Zenon DEF LeafProofs!IsField, LeafProperties!IsField
<1>9. \A type, r : LeafProofs!IsObject(type, r) = LeafProperties!IsObject(type, r)
  BY <1>8, Zenon DEF LeafProofs!IsObject, LeafProperties!IsObject
<1>10. \A type, v : LeafProofs!IsValue(type, v) = LeafProperties!IsValue(type, v)
  BY <1>9, Zenon DEF LeafProofs!IsValue, LeafProperties!IsValue
<1>11. \A p, v : LeafProofs!MeaningOfField(p, v) = LeafMeaning!MeaningOfField(p, v)
  BY Zenon DEF LeafProofs!MeaningOfField, LeafMeaning!MeaningOfField
<1>12. \A type, r : LeafProofs!MeaningOfObject(type, r) = LeafMeaning!MeaningOfObject(type, r)
  BY <1>11, SMT DEF LeafProofs!MeaningOfObject, LeafMeaning!MeaningOfObject
<1>13. \A type, v : LeafProofs!MeaningOf(type, v) = LeafMeaning!MeaningOf(type, v)
  BY <1>12, SMT DEF LeafProofs!MeaningOf, LeafMeaning!MeaningOf
<1>14. \A p, v : LeafProofs!AttributesOfField(p, v) = LeafMeaning!AttributesOfField(p, v)
  BY Zenon DEF LeafProofs!AttributesOfField, LeafMeaning!AttributesOfField
<1>15. \A type, v : LeafProofs!AttributesOf(type, v) = LeafMeaning!AttributesOf(type, v)
  BY <1>14, SMT DEF LeafProofs!AttributesOf, LeafMeaning!AttributesOf
<1> QED BY <1>2, <1>3, <1>7, <1>10, <1>13, <1>15

\* What is proved of this level is about what the specification writes, its types and meanings.
LEMMA RolloutsAgree ==
  /\ \A type, r : RolloutProofs!WriteObject(type, r) = Rollouts!WriteObject(type, r)
  /\ \A type, v : RolloutProofs!WriteValue(type, v) = Rollouts!WriteValue(type, v)
  /\ \A type, json : RolloutProofs!IsTaggedValue(type, json)
         = RolloutProperties!IsTaggedValue(type, json)
  /\ \A type, v : RolloutProofs!IsValue(type, v) = RolloutProperties!IsValue(type, v)
  /\ \A type, v : RolloutProofs!MeaningOf(type, v) = RolloutMeaning!MeaningOf(type, v)
  /\ \A type, v : RolloutProofs!AttributesOf(type, v) = RolloutMeaning!AttributesOf(type, v)
<1>1. \A type, r : RolloutProofs!WriteProperties(type, r) = Rollouts!WriteProperties(type, r)
  BY Zenon DEF RolloutProofs!WriteProperties, Rollouts!WriteProperties, RolloutProofs!IsWritten,
     Rollouts!IsWritten, RolloutProofs!WriteProperty, Rollouts!WriteProperty
<1>2. \A type, r : RolloutProofs!WriteObject(type, r) = Rollouts!WriteObject(type, r)
  BY <1>1, Zenon DEF RolloutProofs!WriteObject, Rollouts!WriteObject
<1>3. \A type, v : RolloutProofs!WriteValue(type, v) = Rollouts!WriteValue(type, v)
  BY <1>2, SMT DEF RolloutProofs!WriteValue, Rollouts!WriteValue
<1>4. \A v : RolloutProofs!IsList(v) = RolloutProperties!IsList(v)
  BY Zenon DEF RolloutProofs!IsList, RolloutProperties!IsList
<1>5. \A p, json : RolloutProofs!IsTaggedField(p, json) = RolloutProperties!IsTaggedField(p, json)
  BY <1>4, Zenon DEF RolloutProofs!IsTaggedField, RolloutProperties!IsTaggedField
<1>6. \A type, properties :
        RolloutProofs!IsTaggedObject(type, properties)
        = RolloutProperties!IsTaggedObject(type, properties)
  BY <1>4, <1>5, Zenon DEF RolloutProofs!IsTaggedObject, RolloutProperties!IsTaggedObject
<1>7. \A type, json : RolloutProofs!IsTaggedValue(type, json)
          = RolloutProperties!IsTaggedValue(type, json)
  BY <1>6, Zenon DEF RolloutProofs!IsTaggedValue, RolloutProperties!IsTaggedValue
<1>8. \A p, v : RolloutProofs!IsField(p, v) = RolloutProperties!IsField(p, v)
  BY <1>4, Zenon DEF RolloutProofs!IsField, RolloutProperties!IsField
<1>9. \A type, r : RolloutProofs!IsObject(type, r) = RolloutProperties!IsObject(type, r)
  BY <1>8, Zenon DEF RolloutProofs!IsObject, RolloutProperties!IsObject
<1>10. \A type, v : RolloutProofs!IsValue(type, v) = RolloutProperties!IsValue(type, v)
  BY <1>9, Zenon DEF RolloutProofs!IsValue, RolloutProperties!IsValue
<1>11. \A p, v : RolloutProofs!MeaningOfField(p, v) = RolloutMeaning!MeaningOfField(p, v)
  BY Zenon DEF RolloutProofs!MeaningOfField, RolloutMeaning!MeaningOfField
<1>12. \A type, r : RolloutProofs!MeaningOfObject(type, r) = RolloutMeaning!MeaningOfObject(type, r)
  BY <1>11, SMT DEF RolloutProofs!MeaningOfObject, RolloutMeaning!MeaningOfObject
<1>13. \A type, v : RolloutProofs!MeaningOf(type, v) = RolloutMeaning!MeaningOf(type, v)
  BY <1>12, SMT DEF RolloutProofs!MeaningOf, RolloutMeaning!MeaningOf
<1>14. \A p, v : RolloutProofs!AttributesOfField(p, v) = RolloutMeaning!AttributesOfField(p, v)
  BY Zenon DEF RolloutProofs!AttributesOfField, RolloutMeaning!AttributesOfField
<1>15. \A type, v : RolloutProofs!AttributesOf(type, v) = RolloutMeaning!AttributesOf(type, v)
  BY <1>14, SMT DEF RolloutProofs!AttributesOf, RolloutMeaning!AttributesOf
<1> QED BY <1>2, <1>3, <1>7, <1>10, <1>13, <1>15

\* What is proved of this level is about what the specification writes, its types and meanings.
LEMMA RulesAgree ==
  /\ \A type, r : RuleProofs!WriteObject(type, r) = Rules!WriteObject(type, r)
  /\ \A type, v : RuleProofs!WriteValue(type, v) = Rules!WriteValue(type, v)
  /\ \A type, json : RuleProofs!IsTaggedValue(type, json) = RuleProperties!IsTaggedValue(type, json)
  /\ \A type, v : RuleProofs!IsValue(type, v) = RuleProperties!IsValue(type, v)
  /\ \A type, v : RuleProofs!MeaningOf(type, v) = RuleMeaning!MeaningOf(type, v)
  /\ \A type, v : RuleProofs!AttributesOf(type, v) = RuleMeaning!AttributesOf(type, v)
<1>1. \A type, r : RuleProofs!WriteProperties(type, r) = Rules!WriteProperties(type, r)
  BY Zenon DEF RuleProofs!WriteProperties, Rules!WriteProperties, RuleProofs!IsWritten,
     Rules!IsWritten, RuleProofs!WriteProperty, Rules!WriteProperty
<1>2. \A type, r : RuleProofs!WriteObject(type, r) = Rules!WriteObject(type, r)
  BY <1>1, Zenon DEF RuleProofs!WriteObject, Rules!WriteObject
<1>3. \A type, v : RuleProofs!WriteValue(type, v) = Rules!WriteValue(type, v)
  BY <1>2, SMT DEF RuleProofs!WriteValue, Rules!WriteValue
<1>4. \A v : RuleProofs!IsList(v) = RuleProperties!IsList(v)
  BY Zenon DEF RuleProofs!IsList, RuleProperties!IsList
<1>5. \A p, json : RuleProofs!IsTaggedField(p, json) = RuleProperties!IsTaggedField(p, json)
  BY <1>4, Zenon DEF RuleProofs!IsTaggedField, RuleProperties!IsTaggedField
<1>6. \A type, properties :
        RuleProofs!IsTaggedObject(type, properties)
        = RuleProperties!IsTaggedObject(type, properties)
  BY <1>4, <1>5, Zenon DEF RuleProofs!IsTaggedObject, RuleProperties!IsTaggedObject
<1>7. \A type, json : RuleProofs!IsTaggedValue(type, json)
          = RuleProperties!IsTaggedValue(type, json)
  BY <1>6, Zenon DEF RuleProofs!IsTaggedValue, RuleProperties!IsTaggedValue
<1>8. \A p, v : RuleProofs!IsField(p, v) = RuleProperties!IsField(p, v)
  BY <1>4, Zenon DEF RuleProofs!IsField, RuleProperties!IsField
<1>9. \A type, r : RuleProofs!IsObject(type, r) = RuleProperties!IsObject(type, r)
  BY <1>8, Zenon DEF RuleProofs!IsObject, RuleProperties!IsObject
<1>10. \A type, v : RuleProofs!IsValue(type, v) = RuleProperties!IsValue(type, v)
  BY <1>9, Zenon DEF RuleProofs!IsValue, RuleProperties!IsValue
<1>11. \A p, v : RuleProofs!MeaningOfField(p, v) = RuleMeaning!MeaningOfField(p, v)
  BY Zenon DEF RuleProofs!MeaningOfField, RuleMeaning!MeaningOfField
<1>12. \A type, r : RuleProofs!MeaningOfObject(type, r) = RuleMeaning!MeaningOfObject(type, r)
  BY <1>11, SMT DEF RuleProofs!MeaningOfObject, RuleMeaning!MeaningOfObject
<1>13. \A type, v : RuleProofs!MeaningOf(type, v) = RuleMeaning!MeaningOf(type, v)
  BY <1>12, SMT DEF RuleProofs!MeaningOf, RuleMeaning!MeaningOf
<1>14. \A p, v : RuleProofs!AttributesOfField(p, v) = RuleMeaning!AttributesOfField(p, v)
  BY Zenon DEF RuleProofs!AttributesOfField, RuleMeaning!AttributesOfField
<1>15. \A type, v : RuleProofs!AttributesOf(type, v) = RuleMeaning!AttributesOf(type, v)
  BY <1>14, SMT DEF RuleProofs!AttributesOf, RuleMeaning!AttributesOf
<1> QED BY <1>2, <1>3, <1>7, <1>10, <1>13, <1>15

\* What is proved of this level is about what the specification writes, its types and meanings.
LEMMA FlagsAgree ==
  /\ \A type, r : FlagProofs!WriteObject(type, r) = Flags!WriteObject(type, r)
  /\ \A type, v : FlagProofs!WriteValue(type, v) = Flags!WriteValue(type, v)
  /\ \A type, json : FlagProofs!IsTaggedValue(type, json) = FlagProperties!IsTaggedValue(type, json)
  /\ \A type, v : FlagProofs!IsValue(type, v) = FlagProperties!IsValue(type, v)
  /\ \A type, v : FlagProofs!MeaningOf(type, v) = FlagMeaning!MeaningOf(type, v)
  /\ \A type, v : FlagProofs!AttributesOf(type, v) = FlagMeaning!AttributesOf(type, v)
<1>1. \A type, r : FlagProofs!WriteProperties(type, r) = Flags!WriteProperties(type, r)
  BY Zenon DEF FlagProofs!WriteProperties, Flags!WriteProperties, FlagProofs!IsWritten,
     Flags!IsWritten, FlagProofs!WriteProperty, Flags!WriteProperty
<1>2. \A type, r : FlagProofs!WriteObject(type, r) = Flags!WriteObject(type, r)
  BY <1>1, Zenon DEF FlagProofs!WriteObject, Flags!WriteObject
<1>3. \A type, v : FlagProofs!WriteValue(type, v) = Flags!WriteValue(type, v)
  BY <1>2, SMT DEF FlagProofs!WriteValue, Flags!WriteValue
<1>4. \A v : FlagProofs!IsList(v) = FlagProperties!IsList(v)
  BY Zenon DEF FlagProofs!IsList, FlagProperties!IsList
<1>5. \A p, json : FlagProofs!IsTaggedField(p, json) = FlagProperties!IsTaggedField(p, json)
  BY <1>4, Zenon DEF FlagProofs!IsTaggedField, FlagProperties!IsTaggedField
<1>6. \A type, properties :
        FlagProofs!IsTaggedObject(type, properties)
        = FlagProperties!IsTaggedObject(type, properties)
  BY <1>4, <1>5, Zenon DEF FlagProofs!IsTaggedObject, FlagProperties!IsTaggedObject
<1>7. \A type, json : FlagProofs!IsTaggedValue(type, json)
          = FlagProperties!IsTaggedValue(type, json)
  BY <1>6, Zenon DEF FlagProofs!IsTaggedValue, FlagProperties!IsTaggedValue
<1>8. \A p, v : FlagProofs!IsField(p, v) = FlagProperties!IsField(p, v)
  BY <1>4, Zenon DEF FlagProofs!IsField, FlagProperties!IsField
<1>9. \A type, r : FlagProofs!IsObject(type, r) = FlagProperties!IsObject(type, r)
  BY <1>8, Zenon DEF FlagProofs!IsObject, FlagProperties!IsObject
<1>10. \A type, v : FlagProofs!IsValue(type, v) = FlagProperties!IsValue(type, v)
  BY <1>9, Zenon DEF FlagProofs!IsValue, FlagProperties!IsValue
<1>11. \A p, v : FlagProofs!MeaningOfField(p, v) = FlagMeaning!MeaningOfField(p, v)
  BY Zenon DEF FlagProofs!MeaningOfField, FlagMeaning!MeaningOfField
<1>12. \A type, r : FlagProofs!MeaningOfObject(type, r) = FlagMeaning!MeaningOfObject(type, r)
  BY <1>11, SMT DEF FlagProofs!MeaningOfObject, FlagMeaning!MeaningOfObject
<1>13. \A type, v : FlagProofs!MeaningOf(type, v) = FlagMeaning!MeaningOf(type, v)
  BY <1>12, SMT DEF FlagProofs!MeaningOf, FlagMeaning!MeaningOf
<1>14. \A p, v : FlagProofs!AttributesOfField(p, v) = FlagMeaning!AttributesOfField(p, v)
  BY Zenon DEF FlagProofs!AttributesOfField, FlagMeaning!AttributesOfField
<1>15. \A type, v : FlagProofs!AttributesOf(type, v) = FlagMeaning!AttributesOf(type, v)
  BY <1>14, SMT DEF FlagProofs!AttributesOf, FlagMeaning!AttributesOf
<1> QED BY <1>2, <1>3, <1>7, <1>10, <1>13, <1>15

\* The scalars are read as every level expects.
LEMMA ScalarsAreAsExpected ==
  /\ LeafProofs!ScalarsAreRead(ScalarTypes) /\ RolloutProofs!ScalarsAreRead(ScalarTypes)
  /\ RuleProofs!ScalarsAreRead(ScalarTypes) /\ FlagProofs!ScalarsAreRead(ScalarTypes)
<1>1. \A type, old, json : LeafProofs!OneOrNone(ReadScalar(type, old, json))
  BY ScalarsYieldOneOrNone DEF LeafProofs!YieldsOneOrNoneNested
<1>2. \A type \in ScalarTypes \ {"attribute"} : \A old, json, u :
        /\ old = NewValue(type) \/ IsScalar(type, old)
        /\ IsTaggedScalar(type, json) /\ ReadScalar(type, old, json) = <<u>>
        => IsScalar(type, u)
  BY ScalarsAreTyped DEF LeafProofs!ReadsTypedNested
<1>3. \A old, json, u :
        IsTaggedScalar("attribute", json) /\ ReadScalar("attribute", old, json) = <<u>> =>
          IsAttributeText(u)
  BY ScalarsAreTyped DEF LeafProofs!ReadsTypedNested
<1>4. \A type \in ScalarTypes \ {"attribute"} : \A old, v :
        IsScalar(type, v) /\ MayBeWritten(type, v) =>
          ReadScalar(type, old, WriteScalar(type, v)) = <<v>>
  BY ScalarsAreReadBack
<1>5. \A old, text : ReadScalar("attribute", old, WriteScalar("attribute", text)) = <<text>>
  BY ScalarsAreReadBack
<1>6. /\ IsAttributeText(<<>>) /\ {"attribute", "string"} \cap ObjectTypes = {}
      /\ ScalarTypes \cap ObjectTypes = {}
  BY ScalarTypesByName, EmptySeq DEF IsAttributeText, ScalarTypes
<1>7. \A type, v : type \notin ObjectTypes \cup {"attribute"} => MeaningOfScalar(type, v) = v
  BY DEF MeaningOfScalar
<1>8. LeafProofs!ScalarsAreRead(ScalarTypes)
  BY <1>1, <1>2, <1>3, <1>4, <1>5, <1>6, <1>7, Zenon DEF LeafProofs!ScalarsAreRead
<1>9. RolloutProofs!ScalarsAreRead(ScalarTypes)
  BY <1>8, Zenon DEF LeafProofs!ScalarsAreRead, RolloutProofs!ScalarsAreRead, LeafProofs!OneOrNone,
     RolloutProofs!OneOrNone
<1>10. RuleProofs!ScalarsAreRead(ScalarTypes)
  BY <1>8, Zenon DEF LeafProofs!ScalarsAreRead, RuleProofs!ScalarsAreRead, LeafProofs!OneOrNone,
     RuleProofs!OneOrNone
<1>11. FlagProofs!ScalarsAreRead(ScalarTypes)
  BY <1>8, Zenon DEF LeafProofs!ScalarsAreRead, FlagProofs!ScalarsAreRead, LeafProofs!OneOrNone,
     FlagProofs!OneOrNone
<1> QED BY <1>8, <1>9, <1>10, <1>11

\* The zero value of a scalar has its type.
LEMMA ZerosOfScalars ==
  ASSUME NEW t, t \notin ObjectTypes
  PROVE  IsScalar(t, ZeroScalar(t))
<1>1. CASE t = "bool"
  BY <1>1 DEF IsScalar, ZeroScalar, OptionalInts
<1>2. CASE t \in OptionalInts
  BY <1>2 DEF IsScalar, ZeroScalar, OptionalInts
<1>3. CASE t = "attribute"
  BY <1>3 DEF IsScalar, ZeroScalar, OptionalInts
<1>4. CASE t \notin OptionalInts \cup {"bool", "attribute"}
  BY <1>4 DEF IsScalar
<1> QED BY <1>1, <1>2, <1>3, <1>4

\* Zero values of regular types are consistent, and their scalars have their types.
LEMMA RegularZeros ==
  ASSUME NEW type \in RegularTypes
  PROVE  /\ IsConsistent(type, NewValue(type))
         /\ \A name \in Names(type) :
              LET p == Properties[type][name]
              IN  ~p.list /\ p.type \notin ObjectTypes => IsScalar(p.type, NewValue(type)[name])
<1> DEFINE zero == NewValue(type)
<1>1. /\ type \in ObjectTypes /\ AttributeOf(type) \subseteq Names(type) /\ zero = Zero[type]
      /\ \A name \in Hidden(type) : zero[name] = FALSE
      /\ \A name \in Names(type) :
           zero[name] = ZeroField(Properties[type][name], Zero[Properties[type][name].type])
  BY RegularFields
<1> HIDE DEF zero
<1>2. \A t : t \notin ObjectTypes => IsScalar(t, ZeroScalar(t))
  BY ZerosOfScalars
<1>3. ASSUME NEW name \in Names(type), ~Properties[type][name].list,
             Properties[type][name].type \notin ObjectTypes
      PROVE  zero[name] = ZeroScalar(Properties[type][name].type)
  BY <1>1, <1>3 DEF ZeroField
<1>4. \A name \in AttributeOf(type) : zero[name] = UndefinedAttr
  <2> TAKE name \in AttributeOf(type)
  <2>1. Properties[type][name].name = name /\ Fits(type, Properties[type][name])
    BY <1>1, PropertiesFit
  <2>2. Properties[type][name].type = "attribute" /\ ~Properties[type][name].list
    BY <2>1 DEF Fits
  <2>3. "attribute" \notin ObjectTypes
    BY TypesByDepth DEF LeafTypes, RolloutTypes, RuleTypes
  <2>4. ZeroScalar("attribute") = UndefinedAttr
    BY DEF ZeroScalar, OptionalInts
  <2> QED BY <1>1, <1>3, <2>2, <2>3, <2>4
<1>5. IsConsistent(type, zero)
  <2>1. type = "ClientSideAvailability" => zero.explicit = FALSE
    BY <1>1 DEF Hidden
  <2>2. type = "MigrationFlagParameters" => zero.present = FALSE
    BY <1>1 DEF Hidden
  <2> QED BY <1>1, <1>4, <2>1, <2>2 DEF IsConsistent, CanBeEscaped, RegularTypes
<1> QED BY <1>2, <1>3, <1>5 DEF zero

\* So the objects of the levels are what they expect.
LEMMA RegularTypesAreSound ==
  /\ \A type \in LeafTypes : LeafProofs!IsSound(type)
  /\ \A type \in LeafTypes \cup RolloutTypes : RolloutProofs!IsSound(type)
  /\ \A type \in LeafTypes \cup RolloutTypes \cup RuleTypes : RuleProofs!IsSound(type)
  /\ \A type \in RegularTypes : FlagProofs!IsSound(type)
<1>1. LeafTypes \cup RolloutTypes \cup RuleTypes \subseteq RegularTypes
  BY TypesByDepth DEF RegularTypes, LeafTypes, RolloutTypes, RuleTypes
<1>2. ASSUME NEW type \in RegularTypes
      PROVE  /\ type \in ObjectTypes /\ IsConsistent(type, NewValue(type))
             /\ \A name \in Names(type) :
                  LET p == Properties[type][name]
                  IN  ~p.list /\ p.type \notin ObjectTypes => IsScalar(p.type, NewValue(type)[name])
  BY RegularZeros DEF RegularTypes
<1>3. \A type \in LeafTypes : LeafProofs!IsSound(type)
  BY <1>1, <1>2, TypesAreRegular, SchemasAreSound, TypesFitTheLevels DEF LeafProofs!IsSound
<1>4. \A type \in LeafTypes \cup RolloutTypes : RolloutProofs!IsSound(type)
  BY <1>1, <1>2, TypesAreRegular, SchemasAreSound, TypesFitTheLevels DEF RolloutProofs!IsSound
<1>5. \A type \in LeafTypes \cup RolloutTypes \cup RuleTypes : RuleProofs!IsSound(type)
  BY <1>1, <1>2, TypesAreRegular, SchemasAreSound, TypesFitTheLevels DEF RuleProofs!IsSound
<1>6. \A type \in RegularTypes : FlagProofs!IsSound(type)
  BY <1>2, TypesAreRegular, SchemasAreSound, TypesFitTheLevels DEF FlagProofs!IsSound
<1> QED BY <1>3, <1>4, <1>5, <1>6

\* The zero value of a rollout is not set, and an empty rollout means nothing.
LEMMA EmptyRollouts ==
  /\ \A p : p.type = "Rollout" /\ ~p.list => ~IsSet(p, NewValue("Rollout"))
  /\ \A p, r : p.type = "Rollout" /\ ~p.list /\ ~IsSet(p, r) =>
       /\ LeafMeaning!MeaningOf("Rollout", r) = <<>>
       /\ RolloutMeaning!MeaningOf("Rollout", r) = <<>>
       /\ RuleMeaning!MeaningOf("Rollout", r) = <<>>
<1>1. "Rollout" \in RegularTypes /\ "Rollout" \in ObjectTypes
  BY TypesByDepth DEF RegularTypes, RolloutTypes
<1>2. NewValue("Rollout")["variations"] = <<>>
  <2>1. "variations" \in Names("Rollout") /\ Properties["Rollout"]["variations"].list
    BY PropertiesOfAttributes DEF List
  <2> QED BY <1>1, <2>1, RegularFields DEF ZeroField
<1>3. \A p, r : p.type = "Rollout" /\ ~p.list => (IsSet(p, r) <=> r["variations"] # <<>>)
  BY DEF IsSet, OptionalInts
<1>4. ASSUME NEW r, r["variations"] = <<>>
      PROVE  /\ LeafMeaning!MeaningOf("Rollout", r) = <<>>
             /\ RolloutMeaning!MeaningOf("Rollout", r) = <<>>
             /\ RuleMeaning!MeaningOf("Rollout", r) = <<>>
  <2>1. DOMAIN r["variations"] = {}
    BY <1>4
  <2> QED BY <1>1, <2>1
          DEF LeafMeaning!MeaningOf, LeafMeaning!MeaningOfObject, RolloutMeaning!MeaningOf,
              RolloutMeaning!MeaningOfObject, RuleMeaning!MeaningOf, RuleMeaning!MeaningOfObject
<1> QED BY <1>2, <1>3, <1>4

\* The scalars are the level below objects without objects,
LEMMA LeavesAreSound ==
  /\ LeafProofs!YieldsOneOrNone /\ LeafProofs!ReadsTyped(TypesOfLeaves)
  /\ LeafProofs!ReadsBack(TypesOfLeaves) /\ LeafProofs!ScalarsAreValues
  /\ \A type \in LeafTypes : LeafProofs!IsValue(type, NewValue(type))
<1>1. LeafProofs!ScalarsAreNested
  BY DEF LeafProofs!ScalarsAreNested
<1>2. "Rollout" \notin ScalarTypes
  BY DEF ScalarTypes, OptionalInts
<1>3. LeafProofs!EmptyRolloutsMeanNothing
  BY <1>2 DEF LeafProofs!EmptyRolloutsMeanNothing
<1>4. LeafProofs!NestedIsSound
  BY <1>1, <1>2, <1>3, ScalarsYieldOneOrNone, ScalarsAreTyped, ScalarsAreReadBack, EmptyRollouts
     DEF LeafProofs!NestedIsSound
<1>5. LeafProofs!ScalarsAreRead(ScalarTypes)
  BY ScalarsAreAsExpected
<1>6. \A type \in LeafTypes : LeafProofs!IsSound(type)
  BY RegularTypesAreSound
<1> QED BY <1>4, <1>5, <1>6, ScalarsYieldOneOrNone, LeafProofs!LevelsNest DEF TypesOfLeaves

\* which are the level below objects of such objects,
LEMMA RolloutsAreSound ==
  /\ RolloutProofs!NestedIsSound
  /\ RolloutProofs!YieldsOneOrNone /\ RolloutProofs!ReadsTyped(TypesOfRollouts)
  /\ RolloutProofs!ReadsBack(TypesOfRollouts) /\ RolloutProofs!ScalarsAreValues
  /\ \A type \in LeafTypes \cup RolloutTypes : RolloutProofs!IsValue(type, NewValue(type))
<1>1. RolloutProofs!YieldsOneOrNoneNested
  BY LeavesAreSound, ReadLeaves, Zenon
     DEF LeafProofs!YieldsOneOrNone, RolloutProofs!YieldsOneOrNoneNested,
     LeafProofs!OneOrNone, RolloutProofs!OneOrNone
<1>2. RolloutProofs!ReadsTypedNested
  BY LeavesAreSound, ReadLeaves, LeavesAgree, Zenon
     DEF LeafProofs!ReadsTyped, RolloutProofs!ReadsTypedNested
<1>3. RolloutProofs!ReadsBackNested
  <2>1. ASSUME NEW type \in TypesOfLeaves \ {"attribute"}, NEW old, NEW v,
               type \in ObjectTypes => old = NewValue(type),
               LeafProperties!IsValue(type, v), MayBeWritten(type, v),
               \A a \in LeafMeaning!AttributesOf(type, v) : NeedsNoKind(a)
        PROVE  \E u : /\ Leaves!ReadValue(type, old, Leaves!WriteValue(type, v)) = <<u>>
                      /\ LeafMeaning!MeaningOf(type, u) = LeafMeaning!MeaningOf(type, v)
    <3>1. /\ LeafProofs!IsValue(type, v)
          /\ \A a \in LeafProofs!AttributesOf(type, v) : NeedsNoKind(a)
      BY <2>1, LeavesAgree, Zenon
    <3>2. PICK u : /\ LeafProofs!ReadValue(type, old, LeafProofs!WriteValue(type, v)) = <<u>>
                   /\ LeafProofs!MeaningOf(type, u) = LeafProofs!MeaningOf(type, v)
      BY <2>1, <3>1, LeavesAreSound DEF LeafProofs!ReadsBack
    <3> QED BY <3>2, ReadLeaves, LeavesAgree, Zenon
  <2> QED BY <2>1 DEF RolloutProofs!ReadsBackNested
<1>4. RolloutProofs!ReadsTextsBackNested
  BY LeavesAreSound, ReadLeaves, LeavesAgree, Zenon
     DEF LeafProofs!ReadsBack, RolloutProofs!ReadsTextsBackNested
<1>5. RolloutProofs!ScalarsAreNested
  BY LeavesAreSound, LeavesAgree, Zenon
     DEF LeafProofs!ScalarsAreValues, RolloutProofs!ScalarsAreNested
<1>6. RolloutProofs!EmptyRolloutsMeanNothing
  BY EmptyRollouts, Zenon DEF RolloutProofs!EmptyRolloutsMeanNothing
<1>7. "Rollout" \in TypesOfLeaves => LeafProperties!IsValue("Rollout", NewValue("Rollout"))
  BY DEF TypesOfLeaves, ScalarTypes, OptionalInts, LeafTypes
<1>8. RolloutProofs!NestedIsSound
  BY <1>1, <1>2, <1>3, <1>4, <1>5, <1>6, <1>7, EmptyRollouts DEF RolloutProofs!NestedIsSound
<1>9. RolloutProofs!ScalarsAreRead(ScalarTypes)
  BY ScalarsAreAsExpected
<1>10. \A type \in LeafTypes \cup RolloutTypes : RolloutProofs!IsSound(type)
  BY RegularTypesAreSound
<1>11. TypesOfRollouts = ScalarTypes \cup (LeafTypes \cup RolloutTypes)
  BY DEF TypesOfRollouts, TypesOfLeaves
<1>12. /\ RolloutProofs!YieldsOneOrNone /\ RolloutProofs!ScalarsAreValues
       /\ RolloutProofs!ReadsTyped(ScalarTypes \cup (LeafTypes \cup RolloutTypes))
       /\ RolloutProofs!ReadsBack(ScalarTypes \cup (LeafTypes \cup RolloutTypes))
       /\ \A type \in LeafTypes \cup RolloutTypes : RolloutProofs!IsValue(type, NewValue(type))
  BY <1>8, <1>9, <1>10, ScalarsYieldOneOrNone, RolloutProofs!LevelsNest
<1> QED BY <1>8, <1>11, <1>12

\* which are the level below the rules of flags, and segments,
LEMMA RulesAreSound ==
  /\ RuleProofs!NestedIsSound
  /\ RuleProofs!YieldsOneOrNone /\ RuleProofs!ReadsTyped(TypesOfRules)
  /\ RuleProofs!ReadsBack(TypesOfRules) /\ RuleProofs!ScalarsAreValues
  /\ \A type \in LeafTypes \cup RolloutTypes \cup RuleTypes :
       RuleProofs!IsValue(type, NewValue(type))
<1>1. RuleProofs!YieldsOneOrNoneNested
  BY RolloutsAreSound, ReadRollouts, Zenon
     DEF RolloutProofs!YieldsOneOrNone, RuleProofs!YieldsOneOrNoneNested,
     RolloutProofs!OneOrNone, RuleProofs!OneOrNone
<1>2. RuleProofs!ReadsTypedNested
  BY RolloutsAreSound, ReadRollouts, RolloutsAgree, Zenon
     DEF RolloutProofs!ReadsTyped, RuleProofs!ReadsTypedNested
<1>3. RuleProofs!ReadsBackNested
  <2>1. ASSUME NEW type \in TypesOfRollouts \ {"attribute"}, NEW old, NEW v,
               type \in ObjectTypes => old = NewValue(type),
               RolloutProperties!IsValue(type, v), MayBeWritten(type, v),
               \A a \in RolloutMeaning!AttributesOf(type, v) : NeedsNoKind(a)
        PROVE  \E u : /\ Rollouts!ReadValue(type, old, Rollouts!WriteValue(type, v)) = <<u>>
                      /\ RolloutMeaning!MeaningOf(type, u) = RolloutMeaning!MeaningOf(type, v)
    <3>1. /\ RolloutProofs!IsValue(type, v)
          /\ \A a \in RolloutProofs!AttributesOf(type, v) : NeedsNoKind(a)
      BY <2>1, RolloutsAgree, Zenon
    <3>2. PICK u : /\ RolloutProofs!ReadValue(type, old, RolloutProofs!WriteValue(type, v)) = <<u>>
                   /\ RolloutProofs!MeaningOf(type, u) = RolloutProofs!MeaningOf(type, v)
      BY <2>1, <3>1, RolloutsAreSound DEF RolloutProofs!ReadsBack
    <3> QED BY <3>2, ReadRollouts, RolloutsAgree, Zenon
  <2> QED BY <2>1 DEF RuleProofs!ReadsBackNested
<1>4. RuleProofs!ReadsTextsBackNested
  BY RolloutsAreSound, ReadRollouts, RolloutsAgree, Zenon
     DEF RolloutProofs!ReadsBack, RuleProofs!ReadsTextsBackNested
<1>5. RuleProofs!ScalarsAreNested
  BY RolloutsAreSound, RolloutsAgree, Zenon
     DEF RolloutProofs!ScalarsAreValues, RuleProofs!ScalarsAreNested
<1>6. RuleProofs!EmptyRolloutsMeanNothing
  BY EmptyRollouts, Zenon DEF RuleProofs!EmptyRolloutsMeanNothing
<1>7. "Rollout" \in TypesOfRollouts => RolloutProperties!IsValue("Rollout", NewValue("Rollout"))
  BY RolloutsAreSound, RolloutsAgree DEF RolloutTypes
<1>8. RuleProofs!NestedIsSound
  BY <1>1, <1>2, <1>3, <1>4, <1>5, <1>6, <1>7, EmptyRollouts DEF RuleProofs!NestedIsSound
<1>9. RuleProofs!ScalarsAreRead(ScalarTypes)
  BY ScalarsAreAsExpected
<1>10. \A type \in LeafTypes \cup RolloutTypes \cup RuleTypes : RuleProofs!IsSound(type)
  BY RegularTypesAreSound
<1>11. TypesOfRules = ScalarTypes \cup (LeafTypes \cup RolloutTypes \cup RuleTypes)
  BY DEF TypesOfRules, TypesOfRollouts, TypesOfLeaves
<1>12. /\ RuleProofs!YieldsOneOrNone /\ RuleProofs!ScalarsAreValues
       /\ RuleProofs!ReadsTyped(ScalarTypes \cup (LeafTypes \cup RolloutTypes \cup RuleTypes))
       /\ RuleProofs!ReadsBack(ScalarTypes \cup (LeafTypes \cup RolloutTypes \cup RuleTypes))
       /\ \A type \in LeafTypes \cup RolloutTypes \cup RuleTypes :
            RuleProofs!IsValue(type, NewValue(type))
  BY <1>8, <1>9, <1>10, ScalarsYieldOneOrNone, RuleProofs!LevelsNest
<1> QED BY <1>8, <1>11, <1>12

\* which are the level below flags; and segments are regular there, too.
LEMMA FlagsAreSound ==
  /\ FlagProofs!NestedIsSound
  /\ FlagProofs!YieldsOneOrNone /\ FlagProofs!ReadsTyped(ScalarTypes \cup RegularTypes)
  /\ FlagProofs!ReadsBack(ScalarTypes \cup RegularTypes) /\ FlagProofs!ScalarsAreValues
  /\ \A type \in RegularTypes : FlagProofs!IsValue(type, NewValue(type))
<1>1. FlagProofs!YieldsOneOrNoneNested
  BY RulesAreSound, ReadRules, Zenon
     DEF RuleProofs!YieldsOneOrNone, FlagProofs!YieldsOneOrNoneNested,
     RuleProofs!OneOrNone, FlagProofs!OneOrNone
<1>2. FlagProofs!ReadsTypedNested
  BY RulesAreSound, ReadRules, RulesAgree, Zenon
     DEF RuleProofs!ReadsTyped, FlagProofs!ReadsTypedNested
<1>3. FlagProofs!ReadsBackNested
  <2>1. ASSUME NEW type \in TypesOfRules \ {"attribute"}, NEW old, NEW v,
               type \in ObjectTypes => old = NewValue(type),
               RuleProperties!IsValue(type, v), MayBeWritten(type, v),
               \A a \in RuleMeaning!AttributesOf(type, v) : NeedsNoKind(a)
        PROVE  \E u : /\ Rules!ReadValue(type, old, Rules!WriteValue(type, v)) = <<u>>
                      /\ RuleMeaning!MeaningOf(type, u) = RuleMeaning!MeaningOf(type, v)
    <3>1. /\ RuleProofs!IsValue(type, v)
          /\ \A a \in RuleProofs!AttributesOf(type, v) : NeedsNoKind(a)
      BY <2>1, RulesAgree, Zenon
    <3>2. PICK u : /\ RuleProofs!ReadValue(type, old, RuleProofs!WriteValue(type, v)) = <<u>>
                   /\ RuleProofs!MeaningOf(type, u) = RuleProofs!MeaningOf(type, v)
      BY <2>1, <3>1, RulesAreSound DEF RuleProofs!ReadsBack
    <3> QED BY <3>2, ReadRules, RulesAgree, Zenon
  <2> QED BY <2>1 DEF FlagProofs!ReadsBackNested
<1>4. FlagProofs!ReadsTextsBackNested
  BY RulesAreSound, ReadRules, RulesAgree, Zenon
     DEF RuleProofs!ReadsBack, FlagProofs!ReadsTextsBackNested
<1>5. FlagProofs!ScalarsAreNested
  BY RulesAreSound, RulesAgree, Zenon DEF RuleProofs!ScalarsAreValues, FlagProofs!ScalarsAreNested
<1>6. FlagProofs!EmptyRolloutsMeanNothing
  BY EmptyRollouts, Zenon DEF FlagProofs!EmptyRolloutsMeanNothing
<1>7. "Rollout" \in TypesOfRules => RuleProperties!IsValue("Rollout", NewValue("Rollout"))
  BY RulesAreSound, RulesAgree DEF RolloutTypes
<1>8. FlagProofs!NestedIsSound
  BY <1>1, <1>2, <1>3, <1>4, <1>5, <1>6, <1>7, EmptyRollouts DEF FlagProofs!NestedIsSound
<1>9. FlagProofs!ScalarsAreRead(ScalarTypes)
  BY ScalarsAreAsExpected
<1>10. \A type \in RegularTypes : FlagProofs!IsSound(type)
  BY RegularTypesAreSound
<1> QED BY <1>8, <1>9, <1>10, ScalarsYieldOneOrNone, FlagProofs!LevelsNest

------------------------------------------------------------------------------
(***************************************************************************)
(* Flags: whether they are for clients is read from two properties.        *)
(***************************************************************************)
\* Flags and segments have no attribute of their own and nothing hidden, and a null is neither.
LEMMA ItemsArePlain ==
  ASSUME NEW type \in ItemTypes
  PROVE  /\ type \in ObjectTypes /\ AttributeOf(type) = {} /\ Hidden(type) = {}
         /\ \A old : ReadNullObject(type, old) = <<>>
         /\ type = "Segment" => Names(type) = Fields(type)
<1>1. type \in ObjectTypes /\ AttributeOf(type) = {} /\ Hidden(type) = {}
  BY TypesByDepth DEF ItemTypes, RuleTypes, AttributeOf, Hidden
<1>2. \A old : ReadNullObject(type, old) = <<>>
  BY DEF ItemTypes, ReadNullObject
<1>3. \A name \in Names(type) : name = "clientSide" => type = "FeatureFlag"
  <2> TAKE name \in Names(type)
  <2>1. Properties[type][name].name = name /\ Fits(type, Properties[type][name])
    BY <1>1, PropertiesFit
  <2> QED BY <2>1 DEF Fits
<1> QED BY <1>1, <1>2, <1>3 DEF Fields

\* The properties of a flag that are special, and those of the object for clients.
LEMMA PropertiesForClients ==
  /\ "clientSideAvailability" \in Fields("FeatureFlag") /\ "clientSide" \in Names("FeatureFlag")
  /\ Properties["FeatureFlag"]["clientSideAvailability"]
       = IfSet("clientSideAvailability", "ClientSideAvailability")
  /\ Properties["FeatureFlag"]["clientSide"] = Always("clientSide", "bool")
  /\ \A name \in Names("FeatureFlag") :
       Properties["FeatureFlag"][name].type = "ClientSideAvailability" =>
         name = "clientSideAvailability"
  /\ Fields("ClientSideAvailability") = {"usingMobileKey", "usingEnvironmentId"}
  /\ Names("ClientSideAvailability") = {"usingMobileKey", "usingEnvironmentId"}
  /\ \A name \in Names("ClientSideAvailability") :
       Properties["ClientSideAvailability"][name] = Always(name, "bool")
<1>1. "FeatureFlag" \in ObjectTypes /\ "ClientSideAvailability" \in ObjectTypes
  BY TypesByDepth DEF LeafTypes
<1>2. "clientSideAvailability" \in Names("FeatureFlag")
      /\ Properties["FeatureFlag"]["clientSideAvailability"]
           = IfSet("clientSideAvailability", "ClientSideAvailability")
  <2>1. Schema["FeatureFlag"] = FeatureFlagSchema
    BY DEF Schema
  <2>2. 10 \in DOMAIN Schema["FeatureFlag"]
        /\ Schema["FeatureFlag"][10] = IfSet("clientSideAvailability", "ClientSideAvailability")
    BY <2>1 DEF FeatureFlagSchema
  <2>3. IfSet("clientSideAvailability", "ClientSideAvailability").name = "clientSideAvailability"
    BY DEF IfSet
  <2> QED BY ONLY <1>1, <2>2, <2>3, ListedProperties
<1>3. "clientSide" \in Names("FeatureFlag")
      /\ Properties["FeatureFlag"]["clientSide"] = Always("clientSide", "bool")
  <2>1. Schema["FeatureFlag"] = FeatureFlagSchema
    BY DEF Schema
  <2>2. 11 \in DOMAIN Schema["FeatureFlag"]
        /\ Schema["FeatureFlag"][11] = Always("clientSide", "bool")
    BY <2>1 DEF FeatureFlagSchema
  <2>3. Always("clientSide", "bool").name = "clientSide"
    BY DEF Always
  <2> QED BY ONLY <1>1, <2>2, <2>3, ListedProperties
<1>4. /\ Names("ClientSideAvailability") = {"usingMobileKey", "usingEnvironmentId"}
      /\ \A name \in Names("ClientSideAvailability") :
           Properties["ClientSideAvailability"][name] = Always(name, "bool")
  <2> DEFINE s == Schema["ClientSideAvailability"]
  <2>1. s = ClientSideAvailabilitySchema
    BY DEF Schema
  <2>2. /\ DOMAIN s = 1..2 /\ s[1] = Always("usingMobileKey", "bool")
        /\ s[2] = Always("usingEnvironmentId", "bool")
    BY <2>1 DEF ClientSideAvailabilitySchema
  <2>3. \A name : Always(name, "bool").name = name
    BY DEF Always
  <2>4. Names("ClientSideAvailability") = {s[i].name : i \in DOMAIN s}
        /\ \A i \in DOMAIN s : Properties["ClientSideAvailability"][s[i].name] = s[i]
    BY <1>1, PropertiesFit
  <2> HIDE DEF s
  <2> QED BY <2>2, <2>3, <2>4
<1>5. \A name \in Names("FeatureFlag") :
        Properties["FeatureFlag"][name].type = "ClientSideAvailability" =>
          name = "clientSideAvailability"
  <2> DEFINE s == Schema["FeatureFlag"]
             other(p) == p.type # "ClientSideAvailability"
  <2>1. s = FeatureFlagSchema
    BY DEF Schema
  <2>2. \A i \in DOMAIN s : other(s[i]) \/ s[i].name = "clientSideAvailability"
    <3>1. \A name, t : t # "ClientSideAvailability" =>
                         other(Always(name, t)) /\ other(IfSet(name, t)) /\ other(List(name, t))
      BY DEF Always, IfSet, List
    <3>2. IfSet("clientSideAvailability", "ClientSideAvailability").name = "clientSideAvailability"
      BY DEF IfSet
    <3> HIDE DEF other
    <3> QED BY <2>1, <3>1, <3>2 DEF FeatureFlagSchema
  <2>3. Names("FeatureFlag") = {s[i].name : i \in DOMAIN s}
        /\ \A i \in DOMAIN s : Properties["FeatureFlag"][s[i].name] = s[i]
    BY <1>1, PropertiesFit
  <2> HIDE DEF s
  <2> QED BY <2>2, <2>3
<1> QED BY <1>2, <1>3, <1>4, <1>5 DEF Fields

\* What an object for clients is, in a flag, and what it means.
LEMMA ObjectsForClients ==
  /\ \A v : RuleProperties!IsValue("ClientSideAvailability", v) <=>
              v \in [usingMobileKey : BOOLEAN, usingEnvironmentId : BOOLEAN, explicit : BOOLEAN]
  /\ \A v, w : RuleMeaning!MeaningOf("ClientSideAvailability", v)
                 = RuleMeaning!MeaningOf("ClientSideAvailability", w)
               /\ "explicit" \in DOMAIN w => v.explicit = w.explicit
  /\ Zero["ClientSideAvailability"].explicit = FALSE
<1> DEFINE type == "ClientSideAvailability"
<1>1. type \in ObjectTypes /\ type \in RegularTypes
  BY TypesByDepth DEF LeafTypes, RegularTypes
<1>2. DOMAIN NewValue(type) = {"usingMobileKey", "usingEnvironmentId", "explicit"}
  BY <1>1, RegularFields, PropertiesForClients DEF Hidden
<1>3. Fields(type) = {"usingMobileKey", "usingEnvironmentId"}
      /\ \A name \in Fields(type) : Properties[type][name].type = "bool"
                                    /\ ~Properties[type][name].list
  <2>1. \A name : Always(name, "bool").type = "bool" /\ ~Always(name, "bool").list
    BY DEF Always
  <2> HIDE DEF type
  <2>2. Fields(type) = {"usingMobileKey", "usingEnvironmentId"}
        /\ \A name \in Fields(type) : Properties[type][name] = Always(name, "bool")
    BY PropertiesForClients DEF type
  <2> QED BY <2>1, <2>2
<1>4. ASSUME NEW v PROVE RolloutProperties!IsValue("bool", v) <=> v \in BOOLEAN
  <2>1. "bool" \notin ObjectTypes
    BY TypesByDepth DEF LeafTypes, RolloutTypes, RuleTypes
  <2>2. IsScalar("bool", v) <=> v \in BOOLEAN
    BY <2>1 DEF IsScalar, OptionalInts
  <2> QED BY <2>1, <2>2 DEF RolloutProperties!IsValue
<1>5. ASSUME NEW v
      PROVE  RuleProperties!IsValue(type, v) <=>
               v \in [usingMobileKey : BOOLEAN, usingEnvironmentId : BOOLEAN, explicit : BOOLEAN]
  <2>1. RuleProperties!IsValue(type, v) <=> RuleProperties!IsObject(type, v)
    BY <1>1 DEF RuleProperties!IsValue
  <2>2. (\A name \in Fields(type) : RuleProperties!IsField(Properties[type][name], v[name]))
        <=> v.usingMobileKey \in BOOLEAN /\ v.usingEnvironmentId \in BOOLEAN
    BY <1>3, <1>4 DEF RuleProperties!IsField
  <2>3. IsConsistent(type, v) <=> v.explicit \in BOOLEAN
    BY DEF IsConsistent, AttributeOf
  <2>4. v = [name \in DOMAIN NewValue(type) |-> v[name]] <=>
        v = [usingMobileKey |-> v.usingMobileKey, usingEnvironmentId |-> v.usingEnvironmentId,
             explicit |-> v.explicit]
    BY <1>2
  <2> QED BY <2>1, <2>2, <2>3, <2>4 DEF RuleProperties!IsObject
<1>6. ASSUME NEW v, NEW w, "explicit" \in DOMAIN w,
             RuleMeaning!MeaningOf(type, v) = RuleMeaning!MeaningOf(type, w)
      PROVE  v.explicit = w.explicit
  <2>1. RuleMeaning!MeaningOfObject(type, v) = RuleMeaning!MeaningOfObject(type, w)
    BY <1>1, <1>6 DEF RuleMeaning!MeaningOf
  <2> DEFINE m(r) == [name \in DOMAIN r |->
                        IF name \in Fields(type)
                        THEN RuleMeaning!MeaningOfField(Properties[type][name], r[name])
                        ELSE r[name]]
  <2>2. m(v) = m(w)
    BY <2>1 DEF RuleMeaning!MeaningOfObject
  <2>3. "explicit" \notin Fields(type)
    BY <1>3
  <2>4. DOMAIN m(v) = DOMAIN v /\ DOMAIN m(w) = DOMAIN w
    OBVIOUS
  <2>5. "explicit" \in DOMAIN v
    <3> HIDE DEF m
    <3> QED BY <1>6, <2>2, <2>4
  <2>6. m(v)["explicit"] = v["explicit"] /\ m(w)["explicit"] = w["explicit"]
    BY <1>6, <2>3, <2>5
  <2> HIDE DEF m
  <2> QED BY <2>2, <2>6
<1>7. Zero[type].explicit = FALSE
  <2>1. Zero[type] = NewValue(type) /\ \A name \in Hidden(type) : NewValue(type)[name] = FALSE
    BY <1>1, RegularFields
  <2>2. "explicit" \in Hidden(type)
    BY DEF Hidden
  <2> QED BY <2>1, <2>2
<1> QED BY <1>5, <1>6, <1>7

\* Whom a flag is for.
LEMMA FlagsForClients ==
  ASSUME NEW v, FlagProofs!IsObject("FeatureFlag", v)
  PROVE  v.clientSideAvailability \in
           [usingMobileKey : BOOLEAN, usingEnvironmentId : BOOLEAN, explicit : BOOLEAN]
<1> DEFINE p == Properties["FeatureFlag"]["clientSideAvailability"]
<1>1. FlagProofs!IsField(p, v["clientSideAvailability"])
  BY PropertiesForClients DEF FlagProofs!IsObject
<1>2. p.type = "ClientSideAvailability" /\ ~p.list
  BY PropertiesForClients DEF IfSet
<1> HIDE DEF p
<1> QED BY <1>1, <1>2, ObjectsForClients DEF FlagProofs!IsField

\* A flag begins with zero values; they have the types of the properties, and can be read over.
LEMMA BegunFlags ==
  LET type == "FeatureFlag"
      begun == BeginObject(type, Zero[type])
  IN  /\ type \in ObjectTypes /\ AttributeOf(type) = {} /\ NewValue(type) = Zero[type]
      /\ DOMAIN Zero[type] = Fields(type)
      /\ Zero[type] = [name \in DOMAIN Zero[type] |-> Zero[type][name]]
      /\ FlagProofs!IsFunction(begun) /\ DOMAIN begun = Names(type)
      /\ \A name \in Names(type) :
           LET p == Properties[type][name]
           IN  /\ p.name = name /\ Fits(type, p) /\ p.type # "attribute"
               /\ FlagProofs!FitsTheLevel(p)
               /\ begun[name] = ZeroField(p, Zero[p.type])
               /\ FlagProofs!IsField(p, begun[name])
               /\ FlagProofs!CanBeReadOver(p, begun[name])
<1> DEFINE type == "FeatureFlag"
           begun == BeginObject(type, Zero[type])
<1>1. type \in ItemTypes /\ type \in ObjectTypes /\ AttributeOf(type) = {} /\ Hidden(type) = {}
  BY ItemsArePlain DEF ItemTypes
<1>2. NewValue(type) = Zero[type]
  BY <1>1 DEF NewValue
<1>3. /\ Zero[type] = [name \in Fields(type) |-> Zero[type][name]]
      /\ \A name \in Fields(type) :
           Zero[type][name] = ZeroField(Properties[type][name], Zero[Properties[type][name].type])
  BY <1>1, ZeroHasZeroFields DEF IsZeroOf
<1>4. /\ begun = [name \in DOMAIN begun |-> begun[name]] /\ DOMAIN begun = Names(type)
      /\ \A name \in Fields(type) : begun[name] = Zero[type][name]
  BY <1>1, BegunObjects
<1>5. begun["clientSide"] = FALSE
  <2>1. begun = [name \in Names(type) |-> IF name = "clientSide" THEN FALSE ELSE Zero[type][name]]
    BY <1>1 DEF BeginObject
  <2> HIDE DEF begun
  <2> QED BY <2>1, PropertiesForClients
<1> HIDE DEF begun
<1>6. ASSUME NEW name \in Names(type)
      PROVE  LET p == Properties[type][name]
             IN  /\ p.name = name /\ Fits(type, p) /\ p.type # "attribute"
                 /\ FlagProofs!FitsTheLevel(p)
                 /\ begun[name] = ZeroField(p, Zero[p.type])
                 /\ FlagProofs!IsField(p, begun[name])
                 /\ FlagProofs!CanBeReadOver(p, begun[name])
  <2> DEFINE p == Properties[type][name]
  <2>1. p.name = name /\ Fits(type, p) /\ FlagProofs!FitsTheLevel(p)
    BY <1>1, PropertiesFit, TypesFitTheLevels
  <2>2. p.type # "attribute" /\ p.list \in BOOLEAN
    BY <1>1, <2>1 DEF Fits
  <2>3. begun[name] = ZeroField(p, Zero[p.type])
    <3>1. CASE name = "clientSide"
      <4>1. p = Always("clientSide", "bool")
        BY <3>1, PropertiesForClients
      <4>2. p.type = "bool" /\ ~p.list
        BY <4>1 DEF Always
      <4>3. "bool" \notin ObjectTypes
        BY TypesByDepth DEF LeafTypes, RolloutTypes, RuleTypes
      <4>4. ZeroScalar("bool") = FALSE
        BY DEF ZeroScalar, OptionalInts
      <4> HIDE DEF p
      <4> QED BY <1>5, <3>1, <4>2, <4>3, <4>4 DEF ZeroField
    <3>2. CASE name # "clientSide"
      <4>1. name \in Fields(type)
        BY <3>2 DEF Fields
      <4> QED BY <4>1, <1>3, <1>4
    <3> QED BY <3>1, <3>2
  <2> HIDE DEF p
  <2>4. CASE p.list
    <3>1. begun[name] = <<>>
      BY <2>3, <2>4 DEF ZeroField
    <3>2. FlagProofs!IsList(<<>>) /\ \A i \in DOMAIN <<>> : FALSE
      BY DEF FlagProofs!IsList
    <3>3. FlagProofs!IsField(p, begun[name])
      BY <2>4, <3>1, <3>2 DEF FlagProofs!IsField
    <3>4. FlagProofs!CanBeReadOver(p, begun[name])
      BY <2>4, <3>1 DEF FlagProofs!CanBeReadOver
    <3> QED BY <2>1, <2>2, <2>3, <3>3, <3>4 DEF p
  <2>5. CASE ~p.list /\ p.type \in ObjectTypes
    <3>1. begun[name] = NewValue(p.type)
      BY <2>3, <2>5 DEF ZeroField, NewValue
    <3>2. p.type \in LeafTypes \cup RolloutTypes \cup RuleTypes
      BY <2>1, <2>5 DEF Fits, LeafTypes, RolloutTypes, RuleTypes
    <3>3. RuleProperties!IsValue(p.type, NewValue(p.type))
      BY <3>2, RulesAreSound, RulesAgree
    <3>4. FlagProofs!IsField(p, begun[name])
      BY <2>5, <3>1, <3>3 DEF FlagProofs!IsField
    <3>5. FlagProofs!CanBeReadOver(p, begun[name])
      BY <2>5, <3>1 DEF FlagProofs!CanBeReadOver
    <3> QED BY <2>1, <2>2, <2>3, <3>4, <3>5 DEF p
  <2>6. CASE ~p.list /\ p.type \notin ObjectTypes
    <3>1. begun[name] = ZeroScalar(p.type)
      BY <2>3, <2>6 DEF ZeroField
    <3>2. IsScalar(p.type, ZeroScalar(p.type))
      BY <2>6, ZerosOfScalars
    <3>3. RuleProperties!IsValue(p.type, begun[name])
      BY <2>6, <3>1, <3>2 DEF RuleProperties!IsValue
    <3>4. FlagProofs!IsField(p, begun[name])
      BY <2>6, <3>3 DEF FlagProofs!IsField
    <3>5. FlagProofs!CanBeReadOver(p, begun[name])
      BY <2>6 DEF FlagProofs!CanBeReadOver
    <3> QED BY <2>1, <2>2, <2>3, <3>4, <3>5 DEF p
  <2> QED BY <2>4, <2>5, <2>6
<1> QED BY <1>1, <1>2, <1>3, <1>4, <1>6 DEF begun, FlagProofs!IsFunction

\* A document is read as a flag.
LEMMA FlagsAreTyped ==
  ASSUME NEW json, IsDocument("FeatureFlag", json),
         NEW u, ReadValue("FeatureFlag", Zero["FeatureFlag"], json) = <<u>>
  PROVE  IsItem("FeatureFlag", u)
<1> DEFINE type == "FeatureFlag"
           begun == BeginObject(type, Zero[type])
           properties == json[2]
           p(name) == Properties[type][name]
<1>1. /\ type \in ObjectTypes /\ AttributeOf(type) = {} /\ NewValue(type) = Zero[type]
      /\ DOMAIN Zero[type] = Fields(type)
      /\ FlagProofs!IsFunction(begun) /\ DOMAIN begun = Names(type)
      /\ \A name \in Names(type) : /\ p(name).name = name /\ p(name).type # "attribute"
                                   /\ FlagProofs!FitsTheLevel(p(name))
                                   /\ FlagProofs!IsField(p(name), begun[name])
  BY BegunFlags
<1>2. FlagProofs!IsTaggedValue(type, json)
  BY FlagsAgree DEF IsDocument
<1>3. FlagProofs!ReadValue(type, Zero[type], json) = <<u>>
  BY ReadFlags DEF ReadValue
<1>4. json[1] = "object"
  <2>1. ReadNullObject(type, Zero[type]) = <<>> /\ <<u>> # <<>>
    BY ItemsArePlain DEF ItemTypes
  <2> QED BY <1>1, <1>3, <2>1 DEF FlagProofs!ReadValue
<1>5. FlagProofs!IsTaggedObject(type, properties)
  BY <1>1, <1>2, <1>4 DEF FlagProofs!IsTaggedValue
<1> DEFINE read == FlagProofs!ReadProperties(type, Zero[type], properties)[Len(properties)]
<1>6. FlagProofs!Ended(type, read) = <<u>>
  BY <1>1, <1>3, <1>4 DEF FlagProofs!ReadValue, FlagProofs!ReadObject
<1> HIDE DEF properties, begun
<1>7. FlagProofs!OneOrNone(read)
  <2>1. Len(properties) \in Nat /\ Len(properties) \in 0..Len(properties)
    BY <1>5 DEF FlagProofs!IsTaggedObject, FlagProofs!IsList
  <2> QED BY <2>1, FlagProofs!PropertiesYieldOneOrNone
<1> HIDE DEF read
<1>8. PICK r : read = <<r>> /\ u = EndObject(type, r)
  <2>1. read # <<>> /\ u = EndObject(type, read[1])
    BY <1>6 DEF FlagProofs!Ended
  <2>2. PICK r : read = <<r>>
    BY <1>7, <2>1 DEF FlagProofs!OneOrNone
  <2>3. read[1] = r
    BY <2>2
  <2> QED BY <2>1, <2>2, <2>3
<1>9. /\ FlagProofs!IsFunction(r) /\ DOMAIN r = Names(type)
      /\ \A name \in Names(type) : FlagProofs!IsField(p(name), r[name])
  <2>1. FlagProofs!YieldsOneOrNoneNested /\ FlagProofs!ReadsTypedNested
    BY FlagsAreSound DEF FlagProofs!NestedIsSound
  <2>2. \A name \in Names(type) : FlagProofs!IsReadField(p(name), begun[name])
    BY <1>1 DEF FlagProofs!IsReadField
  <2>3. FlagProofs!ReadProperties(type, Zero[type], properties)[Len(properties)] = <<r>>
    BY <1>8 DEF read
  <2>4. /\ FlagProofs!IsFunction(r) /\ DOMAIN r = DOMAIN begun
        /\ \A name \in Names(type) : FlagProofs!IsReadField(p(name), r[name])
    BY <1>1, <1>5, <2>1, <2>2, <2>3, FlagProofs!PropertiesAreTyped DEF begun
  <2> QED BY <1>1, <2>4 DEF FlagProofs!IsReadField
<1> HIDE DEF p
<1>10. u = [name \in Fields(type) |->
              IF name = "clientSideAvailability" THEN ClientSideAvailabilityOf(r) ELSE r[name]]
  BY <1>1, <1>8 DEF EndObject
<1> DEFINE forClients == ClientSideAvailabilityOf(r)
<1>11. /\ forClients \in
            [usingMobileKey : BOOLEAN, usingEnvironmentId : BOOLEAN, explicit : BOOLEAN]
       /\ ~forClients.explicit => forClients.usingMobileKey
  <2>1. r.clientSideAvailability \in
          [usingMobileKey : BOOLEAN, usingEnvironmentId : BOOLEAN, explicit : BOOLEAN]
    <3>1. FlagProofs!IsField(p("clientSideAvailability"), r["clientSideAvailability"])
      BY <1>9, PropertiesForClients DEF Fields
    <3>2. p("clientSideAvailability").type = "ClientSideAvailability"
          /\ ~p("clientSideAvailability").list
      BY PropertiesForClients DEF IfSet, p
    <3> QED BY <3>1, <3>2, ObjectsForClients DEF FlagProofs!IsField
  <2>2. r.clientSide \in BOOLEAN
    <3>1. FlagProofs!IsField(p("clientSide"), r["clientSide"])
      BY <1>9, PropertiesForClients
    <3>2. p("clientSide").type = "bool" /\ ~p("clientSide").list
      BY PropertiesForClients DEF Always, p
    <3>3. "bool" \notin ObjectTypes
      BY TypesByDepth DEF LeafTypes, RolloutTypes, RuleTypes
    <3> QED BY <3>1, <3>2, <3>3
            DEF FlagProofs!IsField, RuleProperties!IsValue, IsScalar, OptionalInts
  <2>3. CASE r.clientSideAvailability.explicit
    <3>1. forClients = r.clientSideAvailability
      BY <2>3 DEF ClientSideAvailabilityOf
    <3> QED BY <2>1, <2>3, <3>1
  <2>4. CASE ~r.clientSideAvailability.explicit
    <3>1. forClients = [usingMobileKey |-> TRUE, usingEnvironmentId |-> r.clientSide,
                        explicit |-> FALSE]
      BY <2>4 DEF ClientSideAvailabilityOf
    <3> HIDE DEF forClients
    <3> QED BY <2>2, <3>1
  <2> QED BY <2>3, <2>4
<1> HIDE DEF forClients
<1>12. u = [name \in Fields(type) |->
              IF name = "clientSideAvailability" THEN forClients ELSE r[name]]
  BY <1>10 DEF forClients
<1>13. ASSUME NEW name \in Fields(type)
       PROVE  FlagProofs!IsField(p(name), u[name])
  <2>1. CASE name = "clientSideAvailability"
    <3>1. u[name] = forClients
      BY <1>12, <2>1
    <3>2. p(name).type = "ClientSideAvailability" /\ ~p(name).list
      BY <2>1, PropertiesForClients DEF IfSet, p
    <3> QED BY <1>11, <3>1, <3>2, ObjectsForClients DEF FlagProofs!IsField
  <2>2. CASE name # "clientSideAvailability"
    <3>1. u[name] = r[name] /\ name \in Names(type)
      BY <1>12, <2>2 DEF Fields
    <3> QED BY <1>9, <3>1
  <2> QED BY <2>1, <2>2
<1>14. u.clientSideAvailability = forClients
  BY <1>12, PropertiesForClients
<1>15. IsConsistent(type, u)
  BY <1>1, <1>11, <1>14 DEF IsConsistent
<1>16. u = [name \in DOMAIN NewValue(type) |-> u[name]]
  BY <1>1, <1>12
<1>17. FlagProofs!IsObject(type, u)
  BY <1>13, <1>15, <1>16 DEF FlagProofs!IsObject, p
<1> QED BY <1>1, <1>17, FlagsAgree DEF IsItem, FlagProofs!IsValue

\* What each property of a flag is written from can be read back.
LEMMA FlagsCanBeReadBack ==
  ASSUME NEW v, IsItem("FeatureFlag", v),
         \A a \in AttributesOf("FeatureFlag", v) : NeedsNoKind(a),
         NEW name \in Names("FeatureFlag"),
         FlagProofs!IsWritten(Properties["FeatureFlag"][name], v)
  PROVE  FlagProofs!CanBeReadBack(Properties["FeatureFlag"][name], Source("FeatureFlag", v, name))
<1> DEFINE type == "FeatureFlag"
           p == Properties[type][name]
<1>1. /\ type \in ObjectTypes /\ AttributeOf(type) = {} /\ p.name = name /\ Fits(type, p)
      /\ p.type # "attribute"
  BY BegunFlags
<1>2. FlagProofs!IsObject(type, v)
  BY <1>1, FlagsAgree DEF IsItem, FlagProofs!IsValue
<1>3. CASE name = "clientSide"
  <2> DEFINE x == v.clientSideAvailability.usingEnvironmentId
  <2>1. x \in BOOLEAN
    BY <1>2, FlagsForClients
  <2>2. Source(type, v, name) = x
    BY <1>1, <1>3 DEF Source
  <2>3. p.type = "bool" /\ ~p.list
    BY <1>3, PropertiesForClients DEF Always
  <2>4. "bool" \notin ObjectTypes
    BY TypesByDepth DEF LeafTypes, RolloutTypes, RuleTypes
  <2> HIDE DEF x, p
  <2>5. RuleProperties!IsValue("bool", x)
    BY <2>1, <2>4 DEF RuleProperties!IsValue, IsScalar, OptionalInts
  <2>6. RuleMeaning!AttributesOf("bool", x) = {}
    BY <2>4 DEF RuleMeaning!AttributesOf
  <2>7. MayBeWritten("bool", x)
    BY DEF MayBeWritten
  <2>8. FlagProofs!IsField(p, x) /\ FlagProofs!AttributesOfField(p, x) = {}
    BY <2>3, <2>5, <2>6 DEF FlagProofs!IsField, FlagProofs!AttributesOfField
  <2>9. FlagProofs!CanBeReadBack(p, x)
    BY <2>3, <2>7, <2>8 DEF FlagProofs!CanBeReadBack
  <2> QED BY <2>2, <2>9 DEF p
<1>4. CASE name # "clientSide"
  <2>1. Source(type, v, name) = v[name] /\ name \in Fields(type)
    BY <1>1, <1>4 DEF Source, Fields
  <2>2. FlagProofs!IsField(p, v[name])
    BY <1>2, <2>1 DEF FlagProofs!IsObject
  <2>3. \A a \in FlagProofs!AttributesOfField(p, v[name]) : NeedsNoKind(a)
    <3>1. \A a \in FlagProofs!AttributesOf(type, v) : NeedsNoKind(a)
      BY FlagsAgree DEF AttributesOf
    <3>2. FlagProofs!AttributesOfField(p, v[name]) \subseteq FlagProofs!AttributesOf(type, v)
      BY <1>1, <2>1 DEF FlagProofs!AttributesOf
    <3> QED BY <3>1, <3>2
  <2>4. p.always \/ IsSet(p, v[name])
    BY <1>1 DEF FlagProofs!IsWritten
  <2> HIDE DEF p
  <2>5. CASE p.list
    <3>1. \A x : MayBeWritten(p.type, x)
      BY <1>1, <2>5 DEF Fits, MayBeWritten
    <3> QED BY <2>1, <2>2, <2>3, <2>5, <3>1 DEF FlagProofs!CanBeReadBack, p
  <2>6. CASE ~p.list
    <3>1. MayBeWritten(p.type, v[name])
      BY <1>1, <2>4, <2>6, SetMayBeWritten
    <3> QED BY <2>1, <2>2, <2>3, <2>6, <3>1 DEF FlagProofs!CanBeReadBack, p
  <2> QED BY <2>5, <2>6
<1> QED BY <1>3, <1>4

\* What is not written of a flag means what it meant at the beginning.
LEMMA UnwrittenMeansZero ==
  ASSUME NEW v, IsItem("FeatureFlag", v), NEW name \in Fields("FeatureFlag"),
         ~FlagProofs!IsWritten(Properties["FeatureFlag"][name], v),
         name # "clientSideAvailability"
  PROVE  LET p == Properties["FeatureFlag"][name]
         IN  FlagProofs!MeaningOfField(p, BeginObject("FeatureFlag", Zero["FeatureFlag"])[name])
             = FlagProofs!MeaningOfField(p, v[name])
<1> DEFINE type == "FeatureFlag"
           p == Properties[type][name]
           begun == BeginObject(type, Zero[type])
           x == v[name]
<1>0. name \in Names(type)
  BY DEF Fields
<1>1. /\ type \in ObjectTypes /\ p.name = name /\ Fits(type, p)
      /\ p.type # "attribute" /\ begun[name] = ZeroField(p, Zero[p.type])
  BY <1>0, BegunFlags
<1>2. FlagProofs!IsField(p, x)
  BY <1>1, FlagsAgree DEF IsItem, FlagProofs!IsValue, FlagProofs!IsObject
<1>3. ~p.always /\ ~IsSet(p, x)
  BY <1>1 DEF FlagProofs!IsWritten
<1>4. ~p.list
  BY <1>1, <1>3 DEF Fits
<1>5. p.type # "ClientSideAvailability"
  BY <1>0, PropertiesForClients
<1>6. RuleProperties!IsValue(p.type, x)
  BY <1>2, <1>4 DEF FlagProofs!IsField
<1> HIDE DEF p, x, begun
<1>7. CASE p.type \notin ObjectTypes
  <2>1. p.type \in ScalarTypes \ {"attribute"}
    BY <1>1, <1>7, TypesByDepth DEF Fits, Below, TypesOfRules, TypesOfRollouts, TypesOfLeaves
  <2>2. IsScalar(p.type, x)
    BY <1>6, <1>7 DEF RuleProperties!IsValue
  <2>3. x = ZeroScalar(p.type)
    BY <1>1, <1>3, <1>4, <2>1, <2>2, UnsetIsZero
  <2>4. begun[name] = ZeroScalar(p.type)
    BY <1>1, <1>4, <1>7 DEF ZeroField
  <2> QED BY <2>3, <2>4 DEF p, x, begun
<1>8. CASE p.type = "MigrationFlagParameters"
  <2>1. p.type \in ObjectTypes
    BY <1>8, TypesByDepth DEF LeafTypes
  <2>2. IsConsistent("MigrationFlagParameters", x)
    BY <1>6, <1>8, <2>1 DEF RuleProperties!IsValue, RuleProperties!IsObject
  <2>3. ~x.present
    BY <1>3, <1>4, <1>8 DEF IsSet, OptionalInts
  <2>4. x = Zero[p.type]
    BY <1>8, <2>2, <2>3 DEF IsConsistent
  <2>5. begun[name] = Zero[p.type]
    BY <1>1, <1>4, <2>1 DEF ZeroField
  <2> QED BY <2>4, <2>5 DEF p, x, begun
<1>9. CASE p.type = "Rollout"
  <2>1. p.type \in ObjectTypes
    BY <1>9, TypesByDepth DEF RolloutTypes
  <2>2. begun[name] = NewValue("Rollout")
    BY <1>1, <1>4, <1>9, <2>1 DEF ZeroField, NewValue
  <2>3. RuleMeaning!MeaningOf("Rollout", x) = <<>>
        /\ RuleMeaning!MeaningOf("Rollout", begun[name]) = <<>>
    BY <1>3, <1>4, <1>9, <2>2, EmptyRollouts
  <2>4. FlagProofs!MeaningOfField(p, x) = <<>> /\ FlagProofs!MeaningOfField(p, begun[name]) = <<>>
    BY <1>4, <1>9, <2>3 DEF FlagProofs!MeaningOfField
  <2> QED BY <2>4 DEF p, x, begun
<1>10. p.type \in ObjectTypes => p.type \in {"MigrationFlagParameters", "Rollout"}
  BY <1>1, <1>3, <1>4, <1>5 DEF Fits
<1> QED BY <1>7, <1>8, <1>9, <1>10

\* A flag is read back with the same meaning.
LEMMA FlagsAreReadBack ==
  ASSUME NEW v, IsItem("FeatureFlag", v),
         \A a \in AttributesOf("FeatureFlag", v) : NeedsNoKind(a)
  PROVE  \E u : /\ ReadValue("FeatureFlag", Zero["FeatureFlag"], WriteValue("FeatureFlag", v))
                     = <<u>>
                /\ Meaning("FeatureFlag", u) = Meaning("FeatureFlag", v)
<1> DEFINE type == "FeatureFlag"
           begun == BeginObject(type, Zero[type])
           p(name) == Properties[type][name]
           object == FlagProofs!WriteObject(type, v)
           read == FlagProofs!ReadProperties(type, Zero[type], object)[Len(object)]
<1>1. /\ type \in ObjectTypes /\ AttributeOf(type) = {} /\ NewValue(type) = Zero[type]
      /\ DOMAIN Zero[type] = Fields(type)
      /\ FlagProofs!IsFunction(begun) /\ DOMAIN begun = Names(type)
      /\ \A name \in Names(type) :
           /\ p(name).name = name /\ p(name).type # "attribute" /\ FlagProofs!FitsTheLevel(p(name))
           /\ begun[name] = ZeroField(p(name), Zero[p(name).type])
           /\ FlagProofs!CanBeReadOver(p(name), begun[name])
  BY BegunFlags
<1>2. /\ v = [name \in Fields(type) |-> v[name]] /\ DOMAIN v = Fields(type)
      /\ IsConsistent(type, v)
  <2>1. FlagProofs!IsObject(type, v)
    BY <1>1, FlagsAgree DEF IsItem, FlagProofs!IsValue
  <2>2. v = [name \in Fields(type) |-> v[name]] /\ IsConsistent(type, v)
    BY <1>1, <2>1 DEF FlagProofs!IsObject
  <2> QED BY <2>2
<1>3. PICK q : /\ read = <<q>>
               /\ FlagProofs!IsFunction(q) /\ DOMAIN q = DOMAIN begun
               /\ FlagProofs!IsReadBack(type, Zero[type], v, q)
  <2>1. FlagProofs!ReadsBackNested /\ FlagProofs!ReadsTextsBackNested
    BY FlagsAreSound DEF FlagProofs!NestedIsSound
  <2>2. FlagProofs!SchemaIsSound(type)
    BY <1>1, SchemasAreSound
  <2>3. \A name \in Names(type) :
          FlagProofs!IsWritten(p(name), v) /\ p(name).type # "attribute" =>
            FlagProofs!CanBeReadBack(p(name), Source(type, v, name))
    BY FlagsCanBeReadBack
  <2> QED BY <1>1, <2>1, <2>2, <2>3, FlagProofs!PropertiesAreReadBack
<1> DEFINE u == EndObject(type, q)
<1>4. ReadValue(type, Zero[type], WriteValue(type, v)) = <<u>>
  <2>1. WriteValue(type, v) = FlagProofs!WriteValue(type, v)
    BY FlagsAgree DEF WriteValue
  <2>2. WriteValue(type, v) = <<"object", object>>
    BY <1>1, <2>1 DEF FlagProofs!WriteValue
  <2> HIDE DEF object
  <2>3. FlagProofs!ReadValue(type, Zero[type], <<"object", object>>) = FlagProofs!Ended(type, read)
    BY <1>1 DEF FlagProofs!ReadValue, FlagProofs!ReadObject
  <2>4. <<q>> # <<>> /\ <<q>>[1] = q
    OBVIOUS
  <2> HIDE DEF read
  <2>5. FlagProofs!Ended(type, read) = <<u>>
    BY <1>3, <2>4 DEF FlagProofs!Ended
  <2> QED BY <2>2, <2>3, <2>5, ReadFlags DEF ReadValue
<1> HIDE DEF object, read, begun, p
<1>5. u = [name \in Fields(type) |->
             IF name = "clientSideAvailability" THEN ClientSideAvailabilityOf(q) ELSE q[name]]
  BY <1>1 DEF EndObject
<1> HIDE DEF u
<1>6. \A name \in Names(type) :
        IF ~FlagProofs!IsWritten(p(name), v) THEN q[name] = begun[name]
        ELSE FlagProofs!MeaningOfField(p(name), q[name])
             = FlagProofs!MeaningOfField(p(name), Source(type, v, name))
  BY <1>1, <1>3 DEF FlagProofs!IsReadBack, p, begun
<1>7. ASSUME NEW name \in Fields(type), name # "clientSideAvailability"
      PROVE  FlagProofs!MeaningOfField(p(name), q[name])
             = FlagProofs!MeaningOfField(p(name), v[name])
  <2>1. name \in Names(type) /\ name # "clientSide"
    BY DEF Fields
  <2>2. Source(type, v, name) = v[name]
    BY <1>1, <2>1 DEF Source
  <2>3. CASE FlagProofs!IsWritten(p(name), v)
    BY <1>6, <2>1, <2>2, <2>3
  <2>4. CASE ~FlagProofs!IsWritten(p(name), v)
    <3>1. q[name] = begun[name]
      BY <1>6, <2>1, <2>4
    <3>2. FlagProofs!MeaningOfField(p(name), begun[name])
          = FlagProofs!MeaningOfField(p(name), v[name])
      BY <1>7, <2>4, UnwrittenMeansZero DEF p, begun
    <3> QED BY <3>1, <3>2
  <2> QED BY <2>3, <2>4
<1>8. FlagProofs!MeaningOfField(p("clientSideAvailability"), ClientSideAvailabilityOf(q))
      = FlagProofs!MeaningOfField(p("clientSideAvailability"), v["clientSideAvailability"])
  <2> DEFINE x == v["clientSideAvailability"]
             name == "clientSideAvailability"
  <2>1. /\ x \in [usingMobileKey : BOOLEAN, usingEnvironmentId : BOOLEAN, explicit : BOOLEAN]
        /\ ~x.explicit => x.usingMobileKey
    <3>1. FlagProofs!IsObject(type, v)
      BY <1>1, FlagsAgree DEF IsItem, FlagProofs!IsValue
    <3> QED BY <1>2, <3>1, FlagsForClients DEF IsConsistent
  <2>2. /\ name \in Names(type) /\ p(name).name = name /\ p(name).type = "ClientSideAvailability"
        /\ ~p(name).list /\ ~p(name).always
    BY PropertiesForClients DEF IfSet, Fields, p
  <2>3. Source(type, v, name) = x
    BY <1>1 DEF Source
  <2>4. FlagProofs!IsWritten(p(name), v) <=> x.explicit
    <3>1. IsSet(p(name), x) <=> x.explicit
      BY <2>2 DEF IsSet, OptionalInts
    <3> QED BY <2>2, <3>1 DEF FlagProofs!IsWritten
  <2> HIDE DEF x
  <2>5. CASE x.explicit
    <3>1. FlagProofs!MeaningOfField(p(name), q[name]) = FlagProofs!MeaningOfField(p(name), x)
      BY <1>6, <2>2, <2>3, <2>4, <2>5
    <3>2. RuleMeaning!MeaningOf("ClientSideAvailability", q[name])
          = RuleMeaning!MeaningOf("ClientSideAvailability", x)
      BY <2>2, <3>1 DEF FlagProofs!MeaningOfField
    <3>3. q[name].explicit
      BY <2>1, <2>5, <3>2, ObjectsForClients
    <3>4. ClientSideAvailabilityOf(q) = q[name]
      BY <3>3 DEF ClientSideAvailabilityOf
    <3> QED BY <3>1, <3>4 DEF x
  <2>6. CASE ~x.explicit
    <3>1. q[name] = Zero["ClientSideAvailability"]
      <4>1. q[name] = begun[name]
        BY <1>6, <2>2, <2>4, <2>6
      <4>2. "ClientSideAvailability" \in ObjectTypes
        BY TypesByDepth DEF LeafTypes
      <4> QED BY <1>1, <2>2, <4>1, <4>2 DEF ZeroField
    <3>2. ~q[name].explicit
      BY <3>1, ObjectsForClients
    <3>3. q["clientSide"] = x.usingEnvironmentId
      <4> DEFINE c == p("clientSide")
      <4>1. "clientSide" \in Names(type) /\ c.type = "bool" /\ ~c.list /\ c.always
        BY PropertiesForClients DEF Always, p
      <4>2. Source(type, v, "clientSide") = x.usingEnvironmentId
        BY <1>1 DEF Source, x
      <4> HIDE DEF c
      <4>3. \A y : FlagProofs!MeaningOfField(c, y) = y
        <5>1. "bool" \notin ObjectTypes
          BY TypesByDepth DEF LeafTypes, RolloutTypes, RuleTypes
        <5>2. \A y : RuleMeaning!MeaningOf("bool", y) = y
          BY <5>1 DEF RuleMeaning!MeaningOf, MeaningOfScalar
        <5> QED BY <4>1, <5>2 DEF FlagProofs!MeaningOfField
      <4>4. FlagProofs!IsWritten(c, v)
        BY <4>1 DEF FlagProofs!IsWritten
      <4>5. FlagProofs!MeaningOfField(c, q["clientSide"])
            = FlagProofs!MeaningOfField(c, x.usingEnvironmentId)
        BY <1>6, <4>1, <4>2, <4>4 DEF c
      <4> QED BY <4>3, <4>5
    <3>4. ClientSideAvailabilityOf(q)
          = [usingMobileKey |-> TRUE, usingEnvironmentId |-> x.usingEnvironmentId,
             explicit |-> FALSE]
      BY <3>2, <3>3 DEF ClientSideAvailabilityOf
    <3>5. x = [usingMobileKey |-> TRUE, usingEnvironmentId |-> x.usingEnvironmentId,
               explicit |-> FALSE]
      BY <2>1, <2>6
    <3>6. ClientSideAvailabilityOf(q) = x
      BY <3>4, <3>5
    <3> QED BY <3>6 DEF x
  <2> QED BY <2>5, <2>6
<1>9. DOMAIN u = Fields(type)
      /\ \A name \in Fields(type) : FlagProofs!MeaningOfField(p(name), u[name])
                                    = FlagProofs!MeaningOfField(p(name), v[name])
  <2>1. DOMAIN u = Fields(type)
    BY <1>5
  <2>2. ASSUME NEW name \in Fields(type)
        PROVE  FlagProofs!MeaningOfField(p(name), u[name])
               = FlagProofs!MeaningOfField(p(name), v[name])
    <3>1. CASE name = "clientSideAvailability"
      <4>1. u[name] = ClientSideAvailabilityOf(q)
        BY <1>5, <3>1
      <4> QED BY <1>8, <3>1, <4>1
    <3>2. CASE name # "clientSideAvailability"
      <4>1. u[name] = q[name]
        BY <1>5, <3>2
      <4> QED BY <1>7, <3>2, <4>1
    <3> QED BY <3>1, <3>2
  <2> QED BY <2>1, <2>2
<1>10. FlagProofs!MeaningOfObject(type, u) = FlagProofs!MeaningOfObject(type, v)
  BY <1>2, <1>9 DEF FlagProofs!MeaningOfObject, p
<1>11. Meaning(type, u) = Meaning(type, v)
  <2>1. FlagProofs!MeaningOf(type, u) = FlagProofs!MeaningOf(type, v)
    BY <1>1, <1>10 DEF FlagProofs!MeaningOf
  <2> QED BY <2>1, FlagsAgree DEF Meaning
<1> QED BY <1>4, <1>11

\* A document is read as an item,
LEMMA ItemsAreTyped ==
  ASSUME NEW type \in ItemTypes, NEW json, IsDocument(type, json),
         NEW u, ReadValue(type, Zero[type], json) = <<u>>
  PROVE  IsItem(type, u)
<1>1. CASE type = "FeatureFlag"
  BY <1>1, FlagsAreTyped
<1>2. CASE type = "Segment"
  <2>1. type \in (ScalarTypes \cup RegularTypes) \ {"attribute"} /\ Zero[type] = NewValue(type)
    BY <1>2, ItemsArePlain DEF RegularTypes, NewValue
  <2>2. FlagProofs!IsTaggedValue(type, json)
    BY FlagsAgree DEF IsDocument
  <2>3. FlagProofs!ReadValue(type, NewValue(type), json) = <<u>>
    BY <2>1, ReadFlags DEF ReadValue
  <2>4. FlagProofs!IsValue(type, u)
    BY <2>1, <2>2, <2>3, FlagsAreSound DEF FlagProofs!ReadsTyped
  <2> QED BY <2>4, FlagsAgree DEF IsItem
<1> QED BY <1>1, <1>2 DEF ItemTypes

\* and an item is read back with the same meaning.
LEMMA ItemsAreReadBack ==
  ASSUME NEW type \in ItemTypes, NEW v, IsItem(type, v), ~PathWithoutKind(type, v)
  PROVE  \E u : /\ ReadValue(type, Zero[type], WriteValue(type, v)) = <<u>>
                /\ Meaning(type, u) = Meaning(type, v)
<1>0. \A a \in AttributesOf(type, v) : NeedsNoKind(a)
  BY DEF PathWithoutKind
<1>1. CASE type = "FeatureFlag"
  BY <1>0, <1>1, FlagsAreReadBack
<1>2. CASE type = "Segment"
  <2>1. type \in (ScalarTypes \cup RegularTypes) \ {"attribute"} /\ Zero[type] = NewValue(type)
    BY <1>2, ItemsArePlain DEF RegularTypes, NewValue
  <2>2. /\ FlagProofs!IsValue(type, v)
        /\ \A a \in FlagProofs!AttributesOf(type, v) : NeedsNoKind(a)
    BY <1>0, FlagsAgree DEF IsItem, AttributesOf
  <2>3. MayBeWritten(type, v)
    BY <1>2 DEF MayBeWritten
  <2>4. PICK u : /\ FlagProofs!ReadValue(type, NewValue(type), FlagProofs!WriteValue(type, v))
                      = <<u>>
                 /\ FlagProofs!MeaningOf(type, u) = FlagProofs!MeaningOf(type, v)
    BY <2>1, <2>2, <2>3, FlagsAreSound DEF FlagProofs!ReadsBack
  <2>5. /\ ReadValue(type, Zero[type], WriteValue(type, v)) = <<u>>
        /\ Meaning(type, u) = Meaning(type, v)
    BY <2>1, <2>4, ReadFlags, FlagsAgree DEF ReadValue, WriteValue, Meaning
  <2> QED BY <2>5
<1> QED BY <1>1, <1>2 DEF ItemTypes

------------------------------------------------------------------------------
(***************************************************************************)
(* All or nothing; and what older readers find.                            *)
(***************************************************************************)
\* A document is read as one item or none.
LEMMA DocumentsYieldOneOrNone ==
  ASSUME NEW type \in ItemTypes, NEW json
  PROVE  FlagProofs!OneOrNone(ReadValue(type, Zero[type], json))
<1>0. type \in ObjectTypes
  BY ItemsArePlain
<1>1. CASE json[1] = "object"
  <2> DEFINE properties == json[2]
             read == Flags!ReadProperties(type, Zero[type], properties)[Len(properties)]
  <2>1. FlagProofs!OneOrNone(Flags!Ended(type, read))
    BY DEF Flags!Ended, FlagProofs!OneOrNone
  <2>2. ReadValue(type, Zero[type], json) = Flags!Ended(type, read)
    BY <1>0, <1>1 DEF ReadValue, Flags!ReadValue, Flags!ReadObject
  <2> QED BY <2>1, <2>2
<1>2. CASE json[1] # "object"
  <2>1. ReadNullObject(type, Zero[type]) = <<>>
    BY ItemsArePlain
  <2>2. Flags!ReadValue(type, Zero[type], json) = <<>>
    BY <1>0, <1>2, <2>1 DEF Flags!ReadValue
  <2> QED BY <2>2 DEF ReadValue, FlagProofs!OneOrNone
<1> QED BY <1>1, <1>2

\* What a document does not say is zero in the item.
LEMMA UnreadFieldsAreZero ==
  ASSUME NEW type \in ItemTypes, NEW json, IsDocument(type, json),
         NEW v, ReadValue(type, Zero[type], json) = <<v>>,
         NEW name \in DOMAIN v, name \notin NamesIn(json[2]), name # "clientSideAvailability"
  PROVE  v[name] = Zero[type][name]
<1> DEFINE properties == json[2]
           begun == BeginObject(type, Zero[type])
           read == Flags!ReadProperties(type, Zero[type], properties)[Len(properties)]
<1>1. json[1] = "object" /\ Flags!ReadObject(type, Zero[type], properties) = <<v>>
  <2>1. Flags!ReadValue(type, Zero[type], json) = <<v>> /\ type \in ObjectTypes
    BY ItemsArePlain DEF ReadValue
  <2>2. json[1] # "null"
    <3> SUFFICES ASSUME json[1] = "null" PROVE FALSE
      OBVIOUS
    <3>1. Flags!ReadValue(type, Zero[type], json) = ReadNullObject(type, Zero[type])
      BY <2>1 DEF Flags!ReadValue
    <3>2. ReadNullObject(type, Zero[type]) = <<>> /\ <<v>> # <<>>
      BY ItemsArePlain
    <3> QED BY <2>1, <3>1, <3>2
  <2>3. json[1] = "object"
    <3> SUFFICES ASSUME json[1] # "object" PROVE FALSE
      OBVIOUS
    <3>1. Flags!ReadValue(type, Zero[type], json) = <<>>
      BY <2>1, <2>2 DEF Flags!ReadValue
    <3>2. <<v>> # <<>>
      OBVIOUS
    <3> QED BY <2>1, <3>1, <3>2
  <2> QED BY <2>1, <2>3 DEF Flags!ReadValue
<1>2. FlagProperties!IsList(properties)
  BY <1>1, ItemsArePlain
     DEF IsDocument, FlagProperties!IsTaggedValue, FlagProperties!IsTaggedObject
<1>3. Len(properties) \in Nat /\ DOMAIN properties = 1..Len(properties)
  BY <1>2 DEF FlagProperties!IsList
<1> HIDE DEF properties
<1>4. FlagProofs!OneOrNone(read)
  BY <1>3, ReadFlags, FlagProofs!PropertiesYieldOneOrNone
<1>5. read # <<>> /\ v = EndObject(type, read[1])
  <2> HIDE DEF read
  <2>1. Flags!Ended(type, read) = <<v>>
    BY <1>1 DEF Flags!ReadObject, read
  <2> QED BY <2>1 DEF Flags!Ended
<1>6. PICK r : read = <<r>>
  BY <1>4, <1>5 DEF FlagProofs!OneOrNone
<1>7. v = EndObject(type, r)
  BY <1>5, <1>6
<1>8. /\ DOMAIN r = DOMAIN begun
      /\ \A n \in DOMAIN r :
           (\A i \in 1..Len(properties) : properties[i][1] # n \/ n \notin Names(type)) =>
             r[n] = begun[n]
  BY <1>3, <1>6, ReadFlags, FlagProofs!UnreadPropertiesStay
<1>9. /\ DOMAIN begun = Names(type)
      /\ \A n \in Fields(type) : begun[n] = Zero[type][n]
  BY ItemsArePlain, BegunObjects
<1> HIDE DEF begun, read
<1>10. \A i \in 1..Len(properties) : properties[i][1] # name
  BY <1>3 DEF NamesIn, Obj!NamesIn, properties
<1>11. name \in Fields(type) /\ v[name] = r[name]
  <2>1. CASE type = "FeatureFlag"
    <3>1. v = [n \in Fields(type) |->
                IF n = "clientSideAvailability" THEN ClientSideAvailabilityOf(r) ELSE r[n]]
      BY <1>7, <2>1, ItemsArePlain DEF EndObject
    <3> QED BY <3>1
  <2>2. CASE type = "Segment"
    <3>1. v = r
      BY <1>7, <2>2, ItemsArePlain DEF EndObject
    <3> QED BY <3>1, <2>2, <1>8, <1>9, ItemsArePlain
  <2> QED BY <2>1, <2>2 DEF ItemTypes
<1> QED BY <1>8, <1>9, <1>10, <1>11 DEF Fields

------------------------------------------------------------------------------
(***************************************************************************)
(* What is written leaves out only what may be left out.                   *)
(***************************************************************************)
\* A property that is written always, or that may be left out.
IsCovered(type, p) ==
  \/ p.always
  \/ p.type \in OptionalInts \cup {"Rollout"}
  \/ p.name = "bucketBy"
  \/ <<type, p.name>> \in ListedAsNew \cup NotListed

\* Every property of every type is one of them.
LEMMA SchemasAreCovered ==
  \A type \in ObjectTypes : \A i \in DOMAIN Schema[type] : IsCovered(type, Schema[type][i])
<1>0. /\ \A type, name, t : IsCovered(type, Always(name, t)) /\ IsCovered(type, List(name, t))
      /\ \A type, name, t : t \in OptionalInts \cup {"Rollout"} => IsCovered(type, IfSet(name, t))
      /\ \A type, t : IsCovered(type, IfSet("bucketBy", t))
      /\ \A type, name, t : <<type, name>> \in ListedAsNew \cup NotListed =>
           IsCovered(type, IfSet(name, t))
  BY DEF IsCovered, Always, List, IfSet
<1>1. \A i \in DOMAIN FeatureFlagSchema : IsCovered("FeatureFlag", FeatureFlagSchema[i])
  <2>1. /\ IsCovered("FeatureFlag", IfSet("clientSideAvailability", "ClientSideAvailability"))
        /\ IsCovered("FeatureFlag", IfSet("migration", "MigrationFlagParameters"))
        /\ IsCovered("FeatureFlag", IfSet("samplingRatio", "optionalInt"))
        /\ IsCovered("FeatureFlag", IfSet("excludeFromSummaries", "bool"))
    BY <1>0 DEF OptionalInts, ListedAsNew, NotListed
  <2> QED BY <1>0, <2>1 DEF FeatureFlagSchema
<1>2. \A i \in DOMAIN PrerequisiteSchema : IsCovered("Prerequisite", PrerequisiteSchema[i])
  BY <1>0 DEF PrerequisiteSchema
<1>3. \A i \in DOMAIN TargetSchema : IsCovered("Target", TargetSchema[i])
  <2>1. /\ IsCovered("Target", IfSet("contextKind", "string"))
    BY <1>0 DEF OptionalInts, ListedAsNew, NotListed
  <2> QED BY <1>0, <2>1 DEF TargetSchema
<1>4. \A i \in DOMAIN FlagRuleSchema : IsCovered("FlagRule", FlagRuleSchema[i])
  <2>1. /\ IsCovered("FlagRule", IfSet("variation", "intOrNull"))
        /\ IsCovered("FlagRule", IfSet("rollout", "Rollout"))
        /\ IsCovered("FlagRule", IfSet("id", "string"))
    BY <1>0 DEF OptionalInts, ListedAsNew, NotListed
  <2> QED BY <1>0, <2>1 DEF FlagRuleSchema
<1>5. \A i \in DOMAIN VariationOrRolloutSchema :
        IsCovered("VariationOrRollout", VariationOrRolloutSchema[i])
  <2>1. /\ IsCovered("VariationOrRollout", IfSet("variation", "intOrNull"))
        /\ IsCovered("VariationOrRollout", IfSet("rollout", "Rollout"))
    BY <1>0 DEF OptionalInts, ListedAsNew, NotListed
  <2> QED BY <1>0, <2>1 DEF VariationOrRolloutSchema
<1>6. \A i \in DOMAIN RolloutSchema : IsCovered("Rollout", RolloutSchema[i])
  <2>1. /\ IsCovered("Rollout", IfSet("kind", "string"))
        /\ IsCovered("Rollout", IfSet("contextKind", "string"))
        /\ IsCovered("Rollout", IfSet("seed", "intUnlessNull"))
        /\ IsCovered("Rollout", IfSet("bucketBy", "attribute"))
    BY <1>0 DEF OptionalInts, ListedAsNew, NotListed
  <2> QED BY <1>0, <2>1 DEF RolloutSchema
<1>7. \A i \in DOMAIN WeightedVariationSchema :
        IsCovered("WeightedVariation", WeightedVariationSchema[i])
  <2>1. /\ IsCovered("WeightedVariation", IfSet("untracked", "bool"))
    BY <1>0 DEF OptionalInts, ListedAsNew, NotListed
  <2> QED BY <1>0, <2>1 DEF WeightedVariationSchema
<1>8. \A i \in DOMAIN ClauseSchema : IsCovered("Clause", ClauseSchema[i])
  <2>1. /\ IsCovered("Clause", IfSet("contextKind", "string"))
    BY <1>0 DEF OptionalInts, ListedAsNew, NotListed
  <2> QED BY <1>0, <2>1 DEF ClauseSchema
<1>9. \A i \in DOMAIN ClientSideAvailabilitySchema :
        IsCovered("ClientSideAvailability", ClientSideAvailabilitySchema[i])
  BY <1>0 DEF ClientSideAvailabilitySchema
<1>10. \A i \in DOMAIN MigrationFlagParametersSchema :
        IsCovered("MigrationFlagParameters", MigrationFlagParametersSchema[i])
  <2>1. /\ IsCovered("MigrationFlagParameters", IfSet("checkRatio", "optionalInt"))
    BY <1>0 DEF OptionalInts, ListedAsNew, NotListed
  <2> QED BY <1>0, <2>1 DEF MigrationFlagParametersSchema
<1>11. \A i \in DOMAIN SegmentSchema : IsCovered("Segment", SegmentSchema[i])
  <2>1. /\ IsCovered("Segment", IfSet("unbounded", "bool"))
        /\ IsCovered("Segment", IfSet("unboundedContextKind", "string"))
    BY <1>0 DEF OptionalInts, ListedAsNew, NotListed
  <2> QED BY <1>0, <2>1 DEF SegmentSchema
<1>12. \A i \in DOMAIN SegmentTargetSchema : IsCovered("SegmentTarget", SegmentTargetSchema[i])
  <2>1. /\ IsCovered("SegmentTarget", IfSet("contextKind", "string"))
    BY <1>0 DEF OptionalInts, ListedAsNew, NotListed
  <2> QED BY <1>0, <2>1 DEF SegmentTargetSchema
<1>13. \A i \in DOMAIN SegmentRuleSchema : IsCovered("SegmentRule", SegmentRuleSchema[i])
  <2>1. /\ IsCovered("SegmentRule", IfSet("weight", "intUnlessNull"))
        /\ IsCovered("SegmentRule", IfSet("bucketBy", "attribute"))
        /\ IsCovered("SegmentRule", IfSet("rolloutContextKind", "string"))
    BY <1>0 DEF OptionalInts, ListedAsNew, NotListed
  <2> QED BY <1>0, <2>1 DEF SegmentRuleSchema
<1>14. /\ Schema["FeatureFlag"] = FeatureFlagSchema
      /\ Schema["Prerequisite"] = PrerequisiteSchema
      /\ Schema["Target"] = TargetSchema
      /\ Schema["FlagRule"] = FlagRuleSchema
      /\ Schema["VariationOrRollout"] = VariationOrRolloutSchema
      /\ Schema["Rollout"] = RolloutSchema
      /\ Schema["WeightedVariation"] = WeightedVariationSchema
      /\ Schema["Clause"] = ClauseSchema
      /\ Schema["ClientSideAvailability"] = ClientSideAvailabilitySchema
      /\ Schema["MigrationFlagParameters"] = MigrationFlagParametersSchema
      /\ Schema["Segment"] = SegmentSchema
      /\ Schema["SegmentTarget"] = SegmentTargetSchema
      /\ Schema["SegmentRule"] = SegmentRuleSchema
  BY DEF Schema
<1> QED
  BY <1>1, <1>2, <1>3, <1>4, <1>5, <1>6, <1>7, <1>8, <1>9, <1>10, <1>11, <1>12, <1>13, <1>14,
     TypesByDepth, Zenon DEF LeafTypes, RolloutTypes, RuleTypes

\* So may what is not always written be left out.
LEMMA OthersMayBeOmitted ==
  ASSUME NEW type \in ObjectTypes, NEW name \in Names(type), ~Properties[type][name].always
  PROVE  <<type, name>> \in MayBeOmitted
<1> DEFINE p == Properties[type][name]
<1>1. PICK i \in DOMAIN Schema[type] : name = Schema[type][i].name
  BY PropertiesFit
<1>2. p = Schema[type][i] /\ p.name = name
  BY <1>1, PropertiesFit, Zenon
<1>3. IsCovered(type, p)
  BY <1>2, SchemasAreCovered
<1>4. CASE \/ NumberOrNothing(type, name) \/ ObjectOrNull(type, name) \/ name = "bucketBy"
  <2> DEFINE Found(t) == {<<t, m>> : m \in {n \in Names(t) : \/ NumberOrNothing(t, n)
                                                             \/ ObjectOrNull(t, n)
                                                             \/ n = "bucketBy"}}
  <2>1. <<type, name>> \in Found(type)
    BY <1>4
  <2>2. Found(type) \subseteq UNION {Found(t) : t \in ObjectTypes}
    <3> HIDE DEF Found
    <3> QED OBVIOUS
  <2>3. AllowedByTheirSemantics = UNION {Found(t) : t \in ObjectTypes}
    BY Zenon DEF AllowedByTheirSemantics
  <2> HIDE DEF Found
  <2> QED BY <2>1, <2>2, <2>3 DEF MayBeOmitted
<1>5. CASE <<type, name>> \in ListedAsNew \cup NotListed
  BY <1>5 DEF MayBeOmitted
<1> QED BY <1>2, <1>3, <1>4, <1>5 DEF IsCovered, NumberOrNothing, ObjectOrNull

\* What is proved of the levels is about what the specification looks at.
LEMMA OmissionsAgree ==
  /\ \A type, json : LeafProofs!Omissions(type, json) = LeafOmissions!Omissions(type, json)
  /\ \A type, json : RolloutProofs!Omissions(type, json) = RolloutOmissions!Omissions(type, json)
  /\ \A type, json : RuleProofs!Omissions(type, json) = RuleOmissions!Omissions(type, json)
  /\ \A type, json : FlagProofs!Omissions(type, json) = FlagOmissions!Omissions(type, json)
<1>1. \A type, json : LeafProofs!Omissions(type, json) = LeafOmissions!Omissions(type, json)
  <2>1. \A p, object : LeafProofs!IsThere(p, object) <=> LeafOmissions!IsThere(p, object)
    BY Zenon DEF LeafProofs!IsThere, LeafOmissions!IsThere
  <2>2. \A p, json : LeafProofs!OmissionsOfField(p, json) = LeafOmissions!OmissionsOfField(p, json)
    BY Zenon DEF LeafProofs!OmissionsOfField, LeafOmissions!OmissionsOfField
  <2>3. \A type, object :
          LeafProofs!OmissionsOfObject(type, object) = LeafOmissions!OmissionsOfObject(type, object)
    BY Zenon DEF LeafProofs!OmissionsOfObject, LeafOmissions!OmissionsOfObject,
       LeafProofs!IsThere, LeafOmissions!IsThere,
       LeafProofs!OmissionsOfField, LeafOmissions!OmissionsOfField
  <2> QED BY <2>3, Zenon DEF LeafProofs!Omissions, LeafOmissions!Omissions
<1>2. \A type, json : RolloutProofs!Omissions(type, json) = RolloutOmissions!Omissions(type, json)
  <2>1. \A p, object : RolloutProofs!IsThere(p, object) <=> RolloutOmissions!IsThere(p, object)
    BY Zenon DEF RolloutProofs!IsThere, RolloutOmissions!IsThere
  <2>2. \A p, json :
          RolloutProofs!OmissionsOfField(p, json) = RolloutOmissions!OmissionsOfField(p, json)
    BY Zenon DEF RolloutProofs!OmissionsOfField, RolloutOmissions!OmissionsOfField
  <2>3. \A type, object :
          RolloutProofs!OmissionsOfObject(type, object)
          = RolloutOmissions!OmissionsOfObject(type, object)
    BY Zenon DEF RolloutProofs!OmissionsOfObject, RolloutOmissions!OmissionsOfObject,
       RolloutProofs!IsThere, RolloutOmissions!IsThere,
       RolloutProofs!OmissionsOfField, RolloutOmissions!OmissionsOfField
  <2> QED BY <2>3, Zenon DEF RolloutProofs!Omissions, RolloutOmissions!Omissions
<1>3. \A type, json : RuleProofs!Omissions(type, json) = RuleOmissions!Omissions(type, json)
  <2>1. \A p, object : RuleProofs!IsThere(p, object) <=> RuleOmissions!IsThere(p, object)
    BY Zenon DEF RuleProofs!IsThere, RuleOmissions!IsThere
  <2>2. \A p, json : RuleProofs!OmissionsOfField(p, json) = RuleOmissions!OmissionsOfField(p, json)
    BY Zenon DEF RuleProofs!OmissionsOfField, RuleOmissions!OmissionsOfField
  <2>3. \A type, object :
          RuleProofs!OmissionsOfObject(type, object) = RuleOmissions!OmissionsOfObject(type, object)
    BY Zenon DEF RuleProofs!OmissionsOfObject, RuleOmissions!OmissionsOfObject,
       RuleProofs!IsThere, RuleOmissions!IsThere,
       RuleProofs!OmissionsOfField, RuleOmissions!OmissionsOfField
  <2> QED BY <2>3, Zenon DEF RuleProofs!Omissions, RuleOmissions!Omissions
<1>4. \A type, json : FlagProofs!Omissions(type, json) = FlagOmissions!Omissions(type, json)
  <2>1. \A p, object : FlagProofs!IsThere(p, object) <=> FlagOmissions!IsThere(p, object)
    BY Zenon DEF FlagProofs!IsThere, FlagOmissions!IsThere
  <2>2. \A p, json : FlagProofs!OmissionsOfField(p, json) = FlagOmissions!OmissionsOfField(p, json)
    BY Zenon DEF FlagProofs!OmissionsOfField, FlagOmissions!OmissionsOfField
  <2>3. \A type, object :
          FlagProofs!OmissionsOfObject(type, object) = FlagOmissions!OmissionsOfObject(type, object)
    BY Zenon DEF FlagProofs!OmissionsOfObject, FlagOmissions!OmissionsOfObject,
       FlagProofs!IsThere, FlagOmissions!IsThere,
       FlagProofs!OmissionsOfField, FlagOmissions!OmissionsOfField
  <2> QED BY <2>3, Zenon DEF FlagProofs!Omissions, FlagOmissions!Omissions
<1> QED BY <1>1, <1>2, <1>3, <1>4

\* The schemas are complete on every level that has them.
LEMMA SchemasAreComplete ==
  /\ \A type \in LeafTypes : LeafProofs!IsCompleteSchema(type)
  /\ \A type \in LeafTypes \cup RolloutTypes : RolloutProofs!IsCompleteSchema(type)
  /\ \A type \in LeafTypes \cup RolloutTypes \cup RuleTypes : RuleProofs!IsCompleteSchema(type)
  /\ \A type \in ObjectTypes : FlagProofs!IsCompleteSchema(type)
<1>1. ASSUME NEW type \in ObjectTypes, NEW name \in Names(type)
      PROVE  /\ Properties[type][name].name = name
             /\ Properties[type][name].always \/ <<type, name>> \in MayBeOmitted
  BY PropertiesFit, OthersMayBeOmitted
<1>2. LeafTypes \cup RolloutTypes \cup RuleTypes \subseteq ObjectTypes
  BY TypesByDepth
<1> QED BY <1>1, <1>2, SchemasAreSound, TypesFitTheLevels
        DEF LeafProofs!IsCompleteSchema, RolloutProofs!IsCompleteSchema,
            RuleProofs!IsCompleteSchema, FlagProofs!IsCompleteSchema

\* Level by level: nothing is left out but what may be.
LEMMA ItemsAreComplete ==
  \A type \in ObjectTypes : \A v : Omissions(type, WriteValue(type, v)) \subseteq MayBeOmitted
<1>0. ScalarTypes \cap ObjectTypes = {}
  BY ScalarTypesByName
<1>1. LeafProofs!NestedIsComplete
  BY DEF LeafProofs!NestedIsComplete, OmissionsOfScalar
<1>2. LeafProofs!WritesCompletely(ScalarTypes \cup LeafTypes)
  BY <1>0, <1>1, SchemasAreComplete, LeafProofs!LevelsAreComplete
<1>3. RolloutProofs!NestedIsComplete
  BY <1>2, LeavesAgree, OmissionsAgree, Zenon
     DEF LeafProofs!WritesCompletely, RolloutProofs!NestedIsComplete, TypesOfLeaves
<1>4. RolloutProofs!WritesCompletely(ScalarTypes \cup (LeafTypes \cup RolloutTypes))
  BY <1>0, <1>3, SchemasAreComplete, RolloutProofs!LevelsAreComplete
<1>5. RuleProofs!NestedIsComplete
  <2>1. TypesOfRollouts = ScalarTypes \cup (LeafTypes \cup RolloutTypes)
    BY DEF TypesOfRollouts, TypesOfLeaves
  <2> QED BY <1>4, <2>1, RolloutsAgree, OmissionsAgree, Zenon
          DEF RolloutProofs!WritesCompletely, RuleProofs!NestedIsComplete
<1>6. RuleProofs!WritesCompletely(ScalarTypes \cup (LeafTypes \cup RolloutTypes \cup RuleTypes))
  BY <1>0, <1>5, SchemasAreComplete, RuleProofs!LevelsAreComplete
<1>7. FlagProofs!NestedIsComplete
  <2>1. TypesOfRules = ScalarTypes \cup (LeafTypes \cup RolloutTypes \cup RuleTypes)
    BY DEF TypesOfRules, TypesOfRollouts, TypesOfLeaves
  <2> QED BY <1>6, <2>1, RulesAgree, OmissionsAgree, Zenon
          DEF RuleProofs!WritesCompletely, FlagProofs!NestedIsComplete
<1>8. FlagProofs!WritesCompletely(ScalarTypes \cup ObjectTypes)
  BY <1>0, <1>7, SchemasAreComplete, FlagProofs!LevelsAreComplete
<1>9. ASSUME NEW type \in ObjectTypes, NEW v
      PROVE  Omissions(type, WriteValue(type, v)) \subseteq MayBeOmitted
  <2>1. FlagProofs!Omissions(type, FlagProofs!WriteValue(type, v)) \subseteq MayBeOmitted
    BY <1>8 DEF FlagProofs!WritesCompletely
  <2> QED BY <2>1, FlagsAgree, OmissionsAgree, Zenon DEF Omissions, WriteValue
<1> QED BY <1>9

\* A written item has what older readers look for.
LEMMA WrittenForOlderReaders ==
  ASSUME NEW type \in ItemTypes, NEW v
  PROVE  LET object == WriteValue(type, v)[2]
         IN  /\ Omissions(type, WriteValue(type, v)) \subseteq MayBeOmitted
             /\ type = "FeatureFlag" =>
                  ValueIn(object, "clientSide")
                  = <<"bool", v.clientSideAvailability.usingEnvironmentId>>
<1> DEFINE object == WriteValue(type, v)[2]
           p(name) == Properties[type][name]
<1>1. type \in ObjectTypes
  BY ItemsArePlain
<1>2. FlagProofs!SchemaIsSound(type)
  BY <1>1, SchemasFit, PropertiesFit DEF FlagProofs!SchemaIsSound, IsSchema
<1>3. object = FlagProofs!WriteObject(type, v)
  BY <1>1, FlagsAgree DEF WriteValue, Flags!WriteValue
<1> HIDE DEF object
<1>4. /\ \A name : name \in NamesIn(object) <=>
                     name \in Names(type) /\ FlagProofs!IsWritten(p(name), v)
      /\ \A i \in DOMAIN object :
           object[i] = FlagProofs!WriteProperty(p(object[i][1]), Source(type, v, object[i][1]))
  <2>1. NamesIn(object) = FlagProofs!NamesIn(object)
    BY DEF NamesIn, Obj!NamesIn, FlagProofs!NamesIn
  <2> QED BY <2>1, <1>2, <1>3, FlagProofs!WrittenProperties
<1>5. Omissions(type, WriteValue(type, v)) \subseteq MayBeOmitted
  BY <1>1, ItemsAreComplete
<1> HIDE DEF p
<1>6. ASSUME NEW name \in Names(type), p(name).always
      PROVE  name \in NamesIn(object)
  BY <1>4, <1>6 DEF FlagProofs!IsWritten
<1>7. ASSUME NEW name \in NamesIn(object)
      PROVE  ValueIn(object, name) = FlagProofs!WriteProperty(p(name), Source(type, v, name))[2]
  <2> DEFINE i == CHOOSE i \in DOMAIN object : object[i][1] = name
  <2>1. \E j \in DOMAIN object : object[j][1] = name
    BY <1>7 DEF NamesIn, Obj!NamesIn
  <2>2. i \in DOMAIN object /\ object[i][1] = name
    BY <2>1
  <2> HIDE DEF i
  <2>3. object[i] = FlagProofs!WriteProperty(p(name), Source(type, v, name))
    BY <2>2, <1>4
  <2> QED BY <2>3 DEF ValueIn, i
<1>9. ASSUME type = "FeatureFlag"
      PROVE  ValueIn(object, "clientSide") = <<"bool", v.clientSideAvailability.usingEnvironmentId>>
  <2>1. "clientSide" \in Names(type) /\ p("clientSide").always
    <3>1. Schema[type] = FeatureFlagSchema
      BY <1>9 DEF Schema
    <3>2. Schema[type][11] = Always("clientSide", "bool") /\ 11 \in DOMAIN Schema[type]
      BY <3>1 DEF FeatureFlagSchema
    <3> HIDE DEF Schema
    <3>3. Schema[type][11].name = "clientSide" /\ Schema[type][11].always
      BY <3>2 DEF Always
    <3> QED BY <3>2, <3>3, <1>1, PropertiesFit DEF p
  <2>2. p("clientSide").type = "bool" /\ ~p("clientSide").list
    <3>1. Fits(type, p("clientSide")) /\ p("clientSide").name = "clientSide"
      BY <2>1, <1>1, PropertiesFit DEF p
    <3> QED BY <3>1 DEF Fits
  <2>3. Source(type, v, "clientSide") = v.clientSideAvailability.usingEnvironmentId
    BY <1>9, ItemsArePlain DEF Source
  <2>4. "bool" \notin ObjectTypes
    BY TypesByDepth DEF LeafTypes, RolloutTypes, RuleTypes
  <2>5. ASSUME NEW x PROVE Rules!WriteValue("bool", x) = <<"bool", x>>
    <3>1. WriteScalar("bool", x) = <<"bool", x>>
      BY DEF WriteScalar, OptionalInts
    <3> QED BY <2>4, <3>1 DEF Rules!WriteValue
  <2> QED BY <2>1, <2>2, <2>3, <2>5, <1>6, <1>7 DEF FlagProofs!WriteProperty
<1> QED BY <1>5, <1>9 DEF object

------------------------------------------------------------------------------
(***************************************************************************)
(* The invariant: what the phases say of the item and the document.        *)
(***************************************************************************)
\* A document that has not been read.
Given == phase = "given" => IsDocument(itemType, document) /\ item = original.item
\* A document that has been read, into the variable or not.
Read ==
  phase = "read" =>
    LET read == ReadValue(itemType, Zero[itemType], document)
    IN  /\ IsDocument(itemType, document)
        /\ failed = (read = <<>>)
        /\ item = IF failed THEN original.item ELSE read[1]
\* The other document would be read as the item, over it or over another.
Reordered ==
  phase = "reordered" =>
    LET read == ReadValue(itemType, Zero[itemType], document)
    IN  /\ original.failed = (read = <<>>)
        /\ item = original.item
        /\ ~original.failed => item = read[1]
\* A builder makes items.
Built == phase = "built" => IsItem(itemType, item)
\* The variable holds an item, and the document is what it is written as.
Written ==
  phase = "written" =>
    /\ document = WriteValue(itemType, item)
    /\ item = original.item
    /\ IsItem(itemType, item)
SerializationInv ==
  /\ itemType \in ItemTypes
  /\ Given /\ Built /\ Read /\ Reordered /\ Written
  /\ OrderDoesNotMatter /\ RoundTripIsExact

\* It holds of what is given at first,
LEMMA InitInv == Init => SerializationInv
<1> SUFFICES ASSUME Init PROVE SerializationInv
  OBVIOUS
<1>1. Given
  BY DocumentsAssumption DEF Init, GivenDocument, GivenItem, Given
<1>2. phase \in {"given", "built"}
  BY DEF Init, GivenDocument, GivenItem
<1>3. Built
  BY BuiltItemsAssumption DEF Init, GivenDocument, GivenItem, Built
<1> QED BY <1>1, <1>2, <1>3
        DEF Init, SerializationInv, Read, Reordered, Written, OrderDoesNotMatter, RoundTripIsExact

\* Reading assigns what has been read, unless there was an error.
LEMMA UnmarshalReads ==
  ASSUME Unmarshal
  PROVE  LET read == ReadValue(itemType, Zero[itemType], document)
         IN  /\ failed' = (read = <<>>)
             /\ item' = IF failed' THEN item ELSE read[1]
             /\ UNCHANGED <<itemType, document, original>>
<1> DEFINE read == ReadValue(itemType, Zero[itemType], document)
           r == UnmarshalFromBytes(itemType, document)
<1>1. item' = (IF r.failed THEN item ELSE r.item) /\ failed' = r.failed
      /\ UNCHANGED <<itemType, document, original>>
  BY DEF Unmarshal, UnmarshalJSON
<1>2. r = Unmarshaled(itemType, read)
  BY DEF UnmarshalFromBytes
<1> HIDE DEF r, read
<1>3. r.failed = (read = <<>>) /\ (read # <<>> => r.item = read[1])
  BY <1>2 DEF Unmarshaled
<1>4. failed' = (read = <<>>) /\ item' = IF failed' THEN item ELSE read[1]
  BY <1>1, <1>3
<1> QED BY <1>1, <1>4 DEF read

\* and every step preserves it.
LEMMA NextInv == SerializationInv /\ [Next]_serializationVars => SerializationInv'
<1> SUFFICES ASSUME SerializationInv, [Next]_serializationVars PROVE SerializationInv'
  OBVIOUS
<1> USE DEF SerializationInv
<1>1. CASE Unmarshal
  <2> DEFINE read == ReadValue(itemType, Zero[itemType], document)
  <2>1. /\ failed' = (read = <<>>)
        /\ item' = IF failed' THEN item ELSE read[1]
        /\ UNCHANGED <<itemType, document, original>>
    BY <1>1, UnmarshalReads
  <2>2. read' = read
    BY <2>1
  <2> HIDE DEF read
  <2>3. CASE phase = "given"
    <3>1. phase' = "read"
      BY <1>1, <2>3 DEF Unmarshal
    <3>2. Read'
      BY <2>1, <2>2, <2>3 DEF Read, Given, read
    <3> QED BY <2>1, <3>1, <3>2
            DEF Given, Built, Reordered, Written, OrderDoesNotMatter, RoundTripIsExact
  <2>4. CASE phase = "reordered"
    <3>1. phase' = "reread"
      BY <1>1, <2>4 DEF Unmarshal
    <3>2. failed' = original.failed /\ item' = original.item
      BY <2>1, <2>4 DEF Reordered, read
    <3>3. OrderDoesNotMatter'
      BY <2>1, <3>2 DEF OrderDoesNotMatter
    <3> QED BY <2>1, <3>1, <3>3 DEF Given, Built, Read, Reordered, Written, RoundTripIsExact
  <2>5. CASE phase = "written"
    <3>1. phase' = "readBack"
      BY <1>1, <2>5 DEF Unmarshal
    <3>2. RoundTripIsExact'
      <4> SUFFICES ASSUME ~PathWithoutKind(itemType, original.item)
                   PROVE  ~failed' /\ Meaning(itemType, item') = Meaning(itemType, original.item)
        BY <2>1 DEF RoundTripIsExact
      <4>1. /\ itemType \in ItemTypes /\ IsItem(itemType, original.item)
            /\ document = WriteValue(itemType, original.item)
        BY <2>5 DEF Written
      <4>2. PICK u : read = <<u>> /\ Meaning(itemType, u) = Meaning(itemType, original.item)
        BY <4>1, ItemsAreReadBack DEF read
      <4>3. read # <<>> /\ read[1] = u
        BY <4>2
      <4> QED BY <2>1, <4>2, <4>3
    <3> QED BY <2>1, <3>1, <3>2 DEF Given, Built, Read, Reordered, Written, OrderDoesNotMatter
  <2> QED BY <1>1, <2>3, <2>4, <2>5 DEF Unmarshal
<1>2. CASE Marshal
  <2>1. phase' = "written" /\ document' = WriteValue(itemType, item)
        /\ original'.item = item /\ UNCHANGED <<itemType, item>>
    BY <1>2 DEF Marshal, MarshalJSON
  <2>2. IsItem(itemType, item)
    <3>1. CASE phase = "built"
      BY <3>1 DEF Built
    <3>2. CASE phase = "read"
      <4>1. itemType \in ItemTypes /\ IsDocument(itemType, document)
            /\ ReadValue(itemType, Zero[itemType], document) # <<>>
            /\ item = ReadValue(itemType, Zero[itemType], document)[1]
        BY <1>2, <3>2 DEF Marshal, Read
      <4>2. ReadValue(itemType, Zero[itemType], document) = <<item>>
        BY <4>1, DocumentsYieldOneOrNone DEF FlagProofs!OneOrNone
      <4> QED BY <4>1, <4>2, ItemsAreTyped
    <3> QED BY <1>2, <3>1, <3>2 DEF Marshal
  <2>3. Written'
    BY <2>1, <2>2 DEF Written
  <2> QED BY <2>1, <2>3 DEF Given, Built, Read, Reordered, OrderDoesNotMatter, RoundTripIsExact
<1>3. CASE Reorder
  <2> DEFINE read == ReadValue(itemType, Zero[itemType], document)
  <2>1. /\ phase = "read" /\ phase' = "reordered"
        /\ SameUpToOrder(itemType, document, document')
        /\ original' = [item |-> item, failed |-> failed]
        /\ UNCHANGED <<itemType, item>>
    BY <1>3 DEF Reorder
  <2>2. ReadValue(itemType, Zero[itemType], document') = read
    BY <2>1, ItemsArePlain, OrderInADocument
  <2>3. read' = read
    BY <2>1, <2>2
  <2> HIDE DEF read
  <2>4. failed = (read = <<>>) /\ (~failed => item = read[1])
    BY <2>1 DEF Read, read
  <2>5. Reordered'
    <3>1. original'.failed = (read' = <<>>) /\ item' = original'.item
          /\ (~original'.failed => item' = read'[1])
      BY <2>1, <2>3, <2>4
    <3> QED BY <3>1 DEF Reordered, read
  <2> QED BY <2>1, <2>5 DEF Given, Built, Read, Written, OrderDoesNotMatter, RoundTripIsExact
<1>4. CASE UNCHANGED serializationVars
  BY <1>4 DEF serializationVars, Given, Built, Read, Reordered, Written, OrderDoesNotMatter,
     RoundTripIsExact
<1> QED BY <1>1, <1>2, <1>3, <1>4 DEF Next, Finished

\* Reading again with the properties of objects in another order gives the same item, or fails
\* as it did (model_unmarshal.go), whatever the document and wherever they change places.
THEOREM OrderNeverMatters == Spec => []OrderDoesNotMatter
<1>1. SerializationInv => OrderDoesNotMatter
  BY DEF SerializationInv
<1> QED BY InitInv, NextInv, <1>1, PTL DEF Spec

\* A failed UnmarshalJSON leaves the variable as it was, and one that succeeds leaves nothing of
\* the old value in it (model_serialization.go, model_unmarshal.go).
THEOREM NothingIsReadInPart == Spec => []AllOrNothing
<1>1. SerializationInv => AllOrNothing
  <2> SUFFICES ASSUME SerializationInv, phase = "read" PROVE AllOrNothing
    BY DEF AllOrNothing
  <2> DEFINE read == ReadValue(itemType, Zero[itemType], document)
  <2>1. /\ itemType \in ItemTypes /\ IsDocument(itemType, document)
        /\ failed = (read = <<>>)
        /\ item = IF failed THEN original.item ELSE read[1]
    BY DEF SerializationInv, Read
  <2>2. CASE failed
    BY <2>1, <2>2 DEF AllOrNothing
  <2>3. CASE ~failed
    <3>1. read = <<item>>
      <4>1. FlagProofs!OneOrNone(read)
        BY <2>1, DocumentsYieldOneOrNone
      <4> HIDE DEF read
      <4>2. read # <<>> /\ item = read[1]
        BY <2>1, <2>3
      <4>3. PICK v : read = <<v>>
        BY <4>1, <4>2 DEF FlagProofs!OneOrNone
      <4> QED BY <4>2, <4>3
    <3>2. \A v : read = <<v>> =>
            \A name \in DOMAIN v :
              name \notin NamesIn(document[2]) /\ name # "clientSideAvailability" =>
              v[name] = Zero[itemType][name]
      BY <2>1, UnreadFieldsAreZero
    <3>3. \A name \in DOMAIN item :
            name \notin NamesIn(document[2]) /\ name # "clientSideAvailability" =>
              item[name] = Zero[itemType][name]
      BY <3>1, <3>2, Zenon
    <3> QED BY <2>3, <3>3 DEF AllOrNothing
  <2> QED BY <2>2, <2>3
<1> QED BY InitInv, NextInv, <1>1, PTL DEF Spec

\* Every flag and segment is written with all of its properties, in all of its objects at any
\* depth, but for those that model_marshal.go:9-25 allows to leave out and the nine of NotListed;
\* every list is an array; and a flag's "clientSide" is what its availability says.
THEOREM OlderReadersAlwaysFindTheirs == Spec => []OlderReadersFindTheirs
<1>1. SerializationInv => OlderReadersFindTheirs
  <2> SUFFICES ASSUME SerializationInv, phase = "written" PROVE OlderReadersFindTheirs
    BY DEF OlderReadersFindTheirs
  <2>1. itemType \in ItemTypes /\ document = WriteValue(itemType, item)
    BY DEF SerializationInv, Written
  <2> QED BY <2>1, WrittenForOlderReaders DEF OlderReadersFindTheirs
<1> QED BY InitInv, NextInv, <1>1, PTL DEF Spec

\* Every flag and segment that was read, from any document, or that a builder made, is read
\* back from what it is written as, with the same meaning, unless an attribute needs a kind
\* that it has not (model_marshal.go, model_unmarshal.go).
THEOREM RoundTripsAreExact == Spec => []RoundTripIsExact
<1>1. SerializationInv => RoundTripIsExact
  BY DEF SerializationInv
<1> QED BY InitInv, NextInv, <1>1, PTL DEF Spec
==============================================================================
