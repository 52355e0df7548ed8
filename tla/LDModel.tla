------------------------------- MODULE LDModel -------------------------------
(***************************************************************************)
(* The data the evaluator works on: evaluation contexts (external, package *)
(* ldcontext) and flags, segments, clauses and rollouts (package ldmodel). *)
(*                                                                         *)
(* An optional Go value (ldvalue.OptionalInt, OptionalBool) is a sequence  *)
(* of length 0 or 1.  A JSON value is a tuple whose head is its type, so   *)
(* that values of different types can be compared.  Numbers are counted in *)
(* halves, which gives the model numbers that are not integers.            *)
(***************************************************************************)
EXTENDS Integers, Sequences, FiniteSets

CONSTANTS
  FlagKeys,        \* keys of feature flags
  SegmentKeys,     \* keys of segments
  ContextKinds,    \* context kinds, among them "user"
  ContextKeys,     \* keys of individual contexts, for every kind
  AttrNames,       \* attribute names a clause or a rollout may refer to
  Values           \* the JSON values that clauses and attributes hold

Optional(S) == {o \in Seq(S) : Len(o) <= 1}
IsDefined(o) == o # <<>>

Null == <<"null">>
StringValue(s) == <<"string", s>>
Type(v) == v[1]
IsPrimitive(v) == Type(v) \in {"bool", "number", "string"}
IsIntValue(v) == Type(v) = "number" /\ v[2] % 2 = 0

(***************************************************************************)
(* Contexts.  A context maps each of its kinds to an individual context;   *)
(* "" stands for the default kind wherever a kind is looked up.            *)
(***************************************************************************)
DefaultKind == "user"
KindOrDefault(kind) == IF kind = "" THEN DefaultKind ELSE kind

IndividualContext ==
  [key: ContextKeys, secondary: Optional(STRING), attributes: [AttrNames -> Values]]
IsContext(c) ==
  /\ DOMAIN c = {"valid", "individuals"}
  /\ c.valid \in BOOLEAN
  /\ DOMAIN c.individuals \subseteq ContextKinds
  /\ \A kind \in DOMAIN c.individuals : c.individuals[kind] \in IndividualContext

HasKind(context, kind) == KindOrDefault(kind) \in DOMAIN context.individuals
IndividualContextByKind(context, kind) == context.individuals[KindOrDefault(kind)]
IsOnlyDefaultKind(context) == DOMAIN context.individuals = {DefaultKind}

GetValueForRef(individual, kind, attr) ==
  CASE attr = "key"  -> StringValue(individual.key)
    [] attr = "kind" -> StringValue(KindOrDefault(kind))
    [] OTHER         -> individual.attributes[attr]

\* The key of the context of one kind, if the context has that kind.
GetApplicableContextKeyByKind(context, kind) ==
  IF HasKind(context, kind) THEN <<IndividualContextByKind(context, kind).key>> ELSE <<>>

(***************************************************************************)
(* Attribute references: "" is an undefined ldattr.Ref, "/" one that was   *)
(* defined but does not parse.                                             *)
(***************************************************************************)
UndefinedRef == ""
InvalidRef == "/"
AttrRef == AttrNames \cup {UndefinedRef, InvalidRef, "key", "kind"}
KindRef == ContextKinds \cup {""}

(***************************************************************************)
(* Clauses, rollouts, flags and segments, with the fields that evaluation  *)
(* reads.  Key lists are sets; the variations of a flag are only counted,  *)
(* since a result carries its value and its index together.                *)
(***************************************************************************)

\* What PreprocessFlag and PreprocessSegment leave in a clause: a set for "in", one
\* parsed value per clause value for the operators that parse; <<>> where nothing is.
ParsedValue == [valid: BOOLEAN, regexp: Optional(SUBSET STRING), time: Int, semver: Int]
PreprocessedClause ==
  [valuesMap: Optional(SUBSET Values), values: Optional(Seq(ParsedValue))]
NotPreprocessed == [valuesMap |-> <<>>, values |-> <<>>]
Clause == [op: STRING, attribute: AttrRef, values: Seq(Values), negate: BOOLEAN,
           contextKind: KindRef, preprocessed: PreprocessedClause]

WeightedVariation == [variation: Int, weight: Nat, untracked: BOOLEAN]
Rollout == [kind: {"", "rollout", "experiment"}, contextKind: KindRef,
            variations: Seq(WeightedVariation), bucketBy: AttrRef, seed: Optional(Int)]
VariationOrRollout == [variation: Optional(Int), rollout: Rollout]
IsExperimentRollout(rollout) == rollout.kind = "experiment"

Target == [contextKind: KindRef, values: SUBSET ContextKeys, variation: Int]
Prerequisite == [key: FlagKeys, variation: Int]
FlagRule == [clauses: Seq(Clause), vr: VariationOrRollout, trackEvents: BOOLEAN]
Flag == [key: FlagKeys, on: BOOLEAN, salt: STRING, variations: Nat,
         prerequisites: Seq(Prerequisite), targets: Seq(Target),
         contextTargets: Seq(Target), rules: Seq(FlagRule),
         fallthrough: VariationOrRollout, offVariation: Optional(Int),
         trackEventsFallthrough: BOOLEAN]

SegmentTarget == [contextKind: KindRef, values: SUBSET ContextKeys]
SegmentRule == [clauses: Seq(Clause), weight: Optional(Nat), bucketBy: AttrRef,
                rolloutContextKind: KindRef]
Segment == [key: SegmentKeys, salt: STRING, unbounded: BOOLEAN,
            generation: Optional(Nat), unboundedContextKind: KindRef,
            included: SUBSET ContextKeys, excluded: SUBSET ContextKeys,
            includedContexts: Seq(SegmentTarget), excludedContexts: Seq(SegmentTarget),
            rules: Seq(SegmentRule)]
==============================================================================
