----------------------- MODULE SerializationProperties -----------------------
(***************************************************************************)
(* What survives when flags and segments are written and read.  A document *)
(* is read into a variable, and then read again with properties in another *)
(* order, or written and read back; so is an item that a builder made.     *)
(***************************************************************************)
EXTENDS Serialization

CONSTANTS
  Tokens,            \* the tokens of attributes
  Documents(_),      \* documents that are read as flags, and as segments
  OldItems(_),       \* what a variable holds before a document is read into it
  BuiltItems(_),     \* flags and segments that builders made
  Reorderings(_, _)  \* documents to try instead of a document

ASSUME TokensAssumption == {"/", "~1", "~01"} \subseteq Tokens

ItemTypes == {"FeatureFlag", "Segment"}

(***************************************************************************)
(* Scalars, and what holds of the fields of an object together.            *)
(***************************************************************************)
IsTaggedScalar(type, json) ==
  /\ json[1] = "bool" => json[2] \in BOOLEAN
  /\ json[1] = "text" => json[2] \in Seq(Tokens)

SameScalar(type, a, b) == a = b

\* Of an attribute only the path counts for an evaluation, not how it was spelled.
MeaningOfRef(ref) == [defined |-> ref.text # <<>>, path |-> ref.path]
MeaningOfScalar(type, v) == IF type = "attribute" THEN MeaningOfRef(v) ELSE v
AttributesOfScalar(type, v) == {}
OmissionsOfScalar(type, json) == {}

\* References are made by ldattr.NewRef and ldattr.NewLiteralRef.
Texts == Seq(Tokens) \ {<<>>}
IsPath(ref) == ref.text \in Texts /\ ref = NewRef(ref.text)
IsName(ref) ==
  ref.path = <<ref.path[1]>> /\ ref.path[1] \in Texts /\ ref = NewLiteralRef(ref.path[1])
IsScalar(type, v) ==
  CASE type = "bool"         -> v \in BOOLEAN
    [] type \in OptionalInts -> v = <<>> \/ v = <<v[1]>>
    [] type = "attribute"    -> v = UndefinedAttr \/ IsPath(v) \/ IsName(v)
    [] type \in ObjectTypes  -> FALSE
    [] OTHER                 -> TRUE

\* A name that has to be escaped may have no "~1" itself: what it is escaped to is no token.
CanBeEscaped(kind, ref) ==
  kind = "" \/ ref = UndefinedAttr \/ IsPath(ref)
    \/ \A i \in DOMAIN ref.path[1] : ref.path[1][i] # "~01"
IsConsistent(type, r) ==
  /\ \A name \in AttributeOf(type) : CanBeEscaped(KindOf(type, r), r[name])
  /\ type = "ClientSideAvailability" => r.explicit \in BOOLEAN
  /\ type = "MigrationFlagParameters" => r.present \in BOOLEAN /\ (~r.present => r = Zero[type])
  /\ type = "FeatureFlag" =>
       (~r.clientSideAvailability.explicit => r.clientSideAvailability.usingMobileKey)

(***************************************************************************)
(* Documents and items, level by level.                                    *)
(***************************************************************************)
Obj == INSTANCE JSONObjects
LeafProperties == INSTANCE JSONLevelProperties WITH
  ReadNested <- ReadScalar, WriteNested <- WriteScalar, IsTaggedNested <- IsTaggedScalar,
  IsNested <- IsScalar
RolloutProperties == INSTANCE JSONLevelProperties WITH
  ReadNested <- Leaves!ReadValue, WriteNested <- Leaves!WriteValue,
  IsTaggedNested <- LeafProperties!IsTaggedValue, IsNested <- LeafProperties!IsValue
RuleProperties == INSTANCE JSONLevelProperties WITH
  ReadNested <- Rollouts!ReadValue, WriteNested <- Rollouts!WriteValue,
  IsTaggedNested <- RolloutProperties!IsTaggedValue, IsNested <- RolloutProperties!IsValue
FlagProperties == INSTANCE JSONLevelProperties WITH
  ReadNested <- Rules!ReadValue, WriteNested <- Rules!WriteValue,
  IsTaggedNested <- RuleProperties!IsTaggedValue, IsNested <- RuleProperties!IsValue

LeafOrder == INSTANCE JSONOrder WITH SameNested <- SameScalar
RolloutOrder == INSTANCE JSONOrder WITH SameNested <- LeafOrder!SameValue
RuleOrder == INSTANCE JSONOrder WITH SameNested <- RolloutOrder!SameValue
FlagOrder == INSTANCE JSONOrder WITH SameNested <- RuleOrder!SameValue

LeafMeaning == INSTANCE JSONMeaning WITH
  MeaningOfNested <- MeaningOfScalar, AttributesOfNested <- AttributesOfScalar
RolloutMeaning == INSTANCE JSONMeaning WITH
  MeaningOfNested <- LeafMeaning!MeaningOf, AttributesOfNested <- LeafMeaning!AttributesOf
RuleMeaning == INSTANCE JSONMeaning WITH
  MeaningOfNested <- RolloutMeaning!MeaningOf, AttributesOfNested <- RolloutMeaning!AttributesOf
FlagMeaning == INSTANCE JSONMeaning WITH
  MeaningOfNested <- RuleMeaning!MeaningOf, AttributesOfNested <- RuleMeaning!AttributesOf

LeafOmissions == INSTANCE JSONOmissions WITH OmissionsOfNested <- OmissionsOfScalar
RolloutOmissions == INSTANCE JSONOmissions WITH OmissionsOfNested <- LeafOmissions!Omissions
RuleOmissions == INSTANCE JSONOmissions WITH OmissionsOfNested <- RolloutOmissions!Omissions
FlagOmissions == INSTANCE JSONOmissions WITH OmissionsOfNested <- RuleOmissions!Omissions

IsDocument(type, json) == FlagProperties!IsTaggedValue(type, json)
SameUpToOrder(type, a, b) == FlagOrder!SameValue(type, a, b)
IsItem(type, v) == FlagProperties!IsValue(type, v)
Meaning(type, v) == FlagMeaning!MeaningOf(type, v)
AttributesOf(type, v) == FlagMeaning!AttributesOf(type, v)
Omissions(type, json) == FlagOmissions!Omissions(type, json)
NamesIn(object) == Obj!NamesIn(object)

ASSUME DocumentsAssumption ==
  \A type \in ItemTypes : \A d \in Documents(type) : IsDocument(type, d)
ASSUME BuiltItemsAssumption ==
  \A type \in ItemTypes : \A i \in BuiltItems(type) : IsItem(type, i)

------------------------------------------------------------------------------
VARIABLES
  phase,      \* "given", "built", "read", "reordered", "written", "reread" or "readBack"
  original    \* the item and the error before the document was changed or written

serializationVars == <<itemType, item, preprocessed, document, failed, phase, original>>

GivenDocument ==
  /\ phase = "given"
  /\ document \in Documents(itemType)
  /\ item \in OldItems(itemType)
GivenItem ==
  /\ phase = "built"
  /\ item \in BuiltItems(itemType)
  /\ document = <<"null">>
Init ==
  /\ itemType \in ItemTypes
  /\ GivenDocument \/ GivenItem
  /\ preprocessed = TRUE
  /\ failed = FALSE
  /\ original = [item |-> item, failed |-> FALSE]

Unmarshal ==
  /\ phase \in {"given", "reordered", "written"}
  /\ UnmarshalJSON
  /\ phase' = CASE phase = "given" -> "read" [] phase = "reordered" -> "reread"
                [] phase = "written" -> "readBack"
  /\ UNCHANGED original

Marshal ==
  /\ phase \in {"read", "built"}
  /\ ~failed
  /\ MarshalJSON
  /\ phase' = "written"
  /\ original' = [item |-> item, failed |-> FALSE]

\* The properties arrive in another order.
Reorder ==
  /\ phase = "read"
  /\ document' \in {d \in Reorderings(itemType, document) : SameUpToOrder(itemType, document, d)}
  /\ phase' = "reordered"
  /\ original' = [item |-> item, failed |-> failed]
  /\ UNCHANGED <<itemType, item, preprocessed, failed>>

Finished == phase \in {"read", "reread", "readBack"} /\ UNCHANGED serializationVars

Next == Unmarshal \/ Marshal \/ Reorder \/ Finished
Spec == Init /\ [][Next]_serializationVars

------------------------------------------------------------------------------
\* An attribute with a path of several names, or an invalid one, without the kind that would
\* tell that it is a path.
NeedsNoKind(a) == a[1] # "" \/ a[2] = UndefinedAttr \/ Len(a[2].path) = 1
PathWithoutKind(type, i) == \E a \in AttributesOf(type, i) : ~NeedsNoKind(a)

\* An item that was read, from the old schema or the new one, and an item from a builder
\* that names attributes the way its kinds ask for, is the same after it was written and
\* read back: nothing is lost that an evaluation looks at.
RoundTripIsExact ==
  phase = "readBack" /\ ~PathWithoutKind(itemType, original.item) =>
    ~failed /\ Meaning(itemType, item) = Meaning(itemType, original.item)

\* The order of an object's properties does not matter, although an attribute can only be
\* interpreted with the context kind, and "clientSide" with "clientSideAvailability".
OrderDoesNotMatter ==
  phase = "reread" => failed = original.failed /\ item = original.item

\* A document is read completely or not at all: after an error the variable still has its
\* old value, otherwise it has nothing of it, also not what the document leaves out.
AllOrNothing ==
  phase = "read" =>
    IF failed
    THEN item = original.item
    ELSE \A name \in DOMAIN item :
           name \notin NamesIn(document[2]) \cup {"clientSideAvailability"} =>
             item[name] = Zero[itemType][name]

\* The properties that model_marshal.go:9-25 allows to leave out, <<type, name>>: a number or
\* nothing, an object or null, and the attribute to bucket by; and those that the lines list
\* as new in version 5 of the SDK, which older readers never look for.
NumberOrNothing(type, name) == Properties[type][name].type \in OptionalInts
ObjectOrNull(type, name) == Properties[type][name].type = "Rollout"
AllowedByTheirSemantics ==
  UNION {{<<type, name>> : name \in {n \in Names(type) : \/ NumberOrNothing(type, n)
                                                         \/ ObjectOrNull(type, n)
                                                         \/ n = "bucketBy"}} :
           type \in ObjectTypes}
ListedAsNew ==
  {<<"FeatureFlag", "clientSideAvailability">>, <<"FeatureFlag", "migration">>,
   <<"MigrationFlagParameters", "checkRatio">>, <<"FeatureFlag", "samplingRatio">>,
   <<"FeatureFlag", "excludeFromSummaries">>, <<"Segment", "unbounded">>}
\* What is left out too, though it has none of these semantics ("OptionalInt-like", "either a
\* JSON object or null", "the BucketBy property") and "These are" does not list it.
NotListed ==
  {<<"FlagRule", "id">>, <<"Rollout", "kind">>, <<"WeightedVariation", "untracked">>,
   <<"Target", "contextKind">>, <<"Clause", "contextKind">>, <<"Rollout", "contextKind">>,
   <<"SegmentTarget", "contextKind">>, <<"SegmentRule", "rolloutContextKind">>,
   <<"Segment", "unboundedContextKind">>}
MayBeOmitted == AllowedByTheirSemantics \cup ListedAsNew \cup NotListed

\* What is written has, in all its objects at any depth, every property that may not be left
\* out, and every list is an array, also an empty one; and "clientSide" says for the readers
\* that know nothing newer what the flag's availability is (model_marshal.go:75-91).
ValueIn(object, name) == object[CHOOSE i \in DOMAIN object : object[i][1] = name][2]
OlderReadersFindTheirs ==
  phase = "written" =>
    /\ Omissions(itemType, document) \subseteq MayBeOmitted
    /\ itemType = "FeatureFlag" =>
         ValueIn(document[2], "clientSide")
         = <<"bool", item.clientSideAvailability.usingEnvironmentId>>

\* model_serialization.go:74-76: the data model structs are guaranteed to serialize and
\* deserialize correctly.
GuaranteedRoundTrip ==
  /\ phase = "readBack"
  /\ \A a \in AttributesOf(itemType, original.item) : a[2] = UndefinedAttr \/ a[2].path # <<>>
  => Meaning(itemType, item) = Meaning(itemType, original.item)
==============================================================================
