------------------------------ MODULE Builders ------------------------------
(***************************************************************************)
(* Building flags and segments (package ldbuilders) and preprocessing them *)
(* (PreprocessFlag, PreprocessSegment), with the slices they are made of.  *)
(* A builder may be used again after Build, and what it built before is by *)
(* then in use elsewhere.  Build copies the struct in the builder, so the  *)
(* two share the backing arrays of their lists, and of the clauses of      *)
(* their rules; preprocessing writes into those arrays.                    *)
(*                                                                         *)
(* An item is such a struct.  Its lists are slices of targets; its rules   *)
(* are a slice of rules, each of which has a slice of clauses.             *)
(***************************************************************************)
EXTENDS Clauses, GoSlices, SequencesExt

CONSTANTS
  KeyLists,       \* lists of keys that targets are made with
  ClauseLists,    \* lists of clauses that rules are made with
  Settings,       \* values of the fields that are not slices
  MaxLength,      \* bound on the length of a list or of the rules
  MaxArrays,      \* bound on the backing arrays
  MaxBuilt        \* bound on the calls of Build

ASSUME BuildersAssumption ==
  /\ \A keys \in KeyLists : keys \in Seq(ContextKeys)
  /\ \A clauses \in ClauseLists : clauses \in Seq(Clause)
  /\ {MaxLength, MaxArrays, MaxBuilt} \subseteq Nat

VARIABLES
  kind,          \* "flag" or "segment": which builder this is
  heap,          \* the backing arrays
  item,          \* the struct in the FlagBuilder or SegmentBuilder
  rule,          \* the struct in the RuleBuilder or SegmentRuleBuilder
  building,      \* the copies that are being preprocessed: at most one
  todo,          \* the elements that preprocessing has still to write, in order
  built          \* history: what Build has returned

builderVars == <<kind, heap, item, rule, building, todo, built>>

------------------------------------------------------------------------------
(***************************************************************************)
(* Preprocessing.                                                          *)
(***************************************************************************)
PreprocessStringSet(values) ==
  IF values = <<>> THEN <<>> ELSE <<{values[i] : i \in DOMAIN values}>>

\* The lists of targets, in the order in which they are preprocessed; PreprocessFlag leaves
\* context targets as they are.
PreprocessedLists(k) == IF k = "flag" THEN <<"targets">> ELSE <<"includedContexts", "excludedContexts">>
Lists(k) == Range(PreprocessedLists(k)) \cup (IF k = "flag" THEN {"contextTargets"} ELSE {})

\* The elements of a slice, as places in the heap.
Places(s) == [i \in 1..s.len |-> <<s.array, i>>]
At(h, place) == h[place[1]][place[2]]

TargetPlaces(k, x) ==
  FlattenSeq([n \in DOMAIN PreprocessedLists(k) |-> Places(x.lists[PreprocessedLists(k)[n]])])
ClausePlaces(h, x) ==
  FlattenSeq([n \in 1..x.rules.len |-> Places(At(h, <<x.rules.array, n>>).clauses)])

\* Mutant: only the first rule's clauses are preprocessed.
PlacesOfFirstRule(k, h, x) ==
  TargetPlaces(k, x)
    \o (IF x.rules.len = 0 THEN <<>> ELSE Places(At(h, <<x.rules.array, 1>>).clauses))

\* The loops of PreprocessFlag and PreprocessSegment.
PlacesToPreprocess(k, h, x) == TargetPlaces(k, x) \o ClausePlaces(h, x)

PreprocessElement(e) ==
  IF "op" \in DOMAIN e THEN PreprocessClause(e)
  ELSE [e EXCEPT !.preprocessed = PreprocessStringSet(e.values)]

\* The key lists of a segment are preprocessed in the struct itself.
PreprocessStruct(x) ==
  [x EXCEPT !.preprocessed = [included |-> PreprocessStringSet(x.included),
                              excluded |-> PreprocessStringSet(x.excluded)]]

------------------------------------------------------------------------------
(***************************************************************************)
(* The builders.                                                           *)
(***************************************************************************)
NewItem(k) ==
  [lists |-> [name \in Lists(k) |-> NilSlice], rules |-> NilSlice, setting |-> "",
   included |-> <<>>, excluded |-> <<>>,
   preprocessed |-> [included |-> <<>>, excluded |-> <<>>]]
NewRule == [clauses |-> NilSlice]

BuilderInit ==
  /\ kind \in {"flag", "segment"}
  /\ heap = <<>>
  /\ item = NewItem(kind)
  /\ rule = NewRule
  /\ building = <<>> /\ todo = <<>> /\ built = <<>>

Idle == building = <<>>

\* AddTarget, AddContextTarget, IncludedContextKind, ExcludedContextKind.
AddTarget(name, keys) ==
  /\ Idle /\ item.lists[name].len < MaxLength
  /\ \E r \in AppendOutcomes(heap, item.lists[name], [values |-> keys, preprocessed |-> <<>>]) :
       /\ Len(r.heap) <= MaxArrays
       /\ heap' = r.heap
       /\ item' = [item EXCEPT !.lists[name] = r.slice]
  /\ UNCHANGED <<kind, rule, building, todo, built>>

\* Included and Excluded of a segment.
SetKeys(name, keys) ==
  /\ Idle /\ kind = "segment"
  /\ item' = [item EXCEPT ![name] = keys]
  /\ UNCHANGED <<kind, heap, rule, building, todo, built>>

\* The methods that assign to a field that is not a slice.
Set(value) ==
  /\ Idle
  /\ item' = [item EXCEPT !.setting = value]
  /\ UNCHANGED <<kind, heap, rule, building, todo, built>>

\* Mutant: the clauses are copied into the array that the rule already has.
SetClausesInPlace(clauses) ==
  /\ Idle
  /\ LET place == IF rule.clauses.array = 0 THEN Len(heap) + 1 ELSE rule.clauses.array
     IN  /\ place <= MaxArrays
         /\ heap' = [i \in DOMAIN heap \cup {place} |-> IF i = place THEN clauses ELSE heap[i]]
         /\ rule' = [rule EXCEPT !.clauses = [array |-> place, len |-> Len(clauses)]]
  /\ UNCHANGED <<kind, item, building, todo, built>>

\* RuleBuilder.Clauses: the clauses are passed in an array of their own.
SetClauses(clauses) ==
  /\ Idle
  /\ Len(heap) < MaxArrays
  /\ heap' = Append(heap, clauses)
  /\ rule' = [rule EXCEPT !.clauses = [array |-> Len(heap) + 1, len |-> Len(clauses)]]
  /\ UNCHANGED <<kind, item, building, todo, built>>

\* AddRule: the rule builder's struct is copied, and may be added again.
AddRule ==
  /\ Idle /\ item.rules.len < MaxLength
  /\ \E r \in AppendOutcomes(heap, item.rules, rule) :
       /\ Len(r.heap) <= MaxArrays
       /\ heap' = r.heap
       /\ item' = [item EXCEPT !.rules = r.slice]
  /\ UNCHANGED <<kind, rule, building, todo, built>>

\* Build: a copy of the struct, whose elements are preprocessed one after the other.
Build ==
  /\ Idle /\ Len(built) < MaxBuilt
  /\ building' = <<PreprocessStruct(item)>>
  /\ todo' = PlacesToPreprocess(kind, heap, item)
  /\ UNCHANGED <<kind, heap, item, rule, built>>

Preprocess ==
  /\ todo # <<>>
  /\ LET place == Head(todo)
     IN  heap' = [heap EXCEPT ![place[1]][place[2]] = PreprocessElement(@)]
  /\ todo' = Tail(todo)
  /\ UNCHANGED <<kind, item, rule, building, built>>

BuildReturns ==
  /\ ~Idle /\ todo = <<>>
  /\ built' = Append(built, building[1])
  /\ building' = <<>>
  /\ UNCHANGED <<kind, heap, item, rule, todo>>

BuilderNext ==
  \/ \E name \in Lists(kind), keys \in KeyLists : AddTarget(name, keys)
  \/ \E name \in {"included", "excluded"}, keys \in KeyLists : SetKeys(name, keys)
  \/ \E value \in Settings : Set(value)
  \/ \E clauses \in ClauseLists : SetClauses(clauses)
  \/ AddRule \/ Build \/ Preprocess \/ BuildReturns

BuilderSpec == BuilderInit /\ [][BuilderNext]_builderVars

------------------------------------------------------------------------------
(***************************************************************************)
(* Properties.                                                             *)
(***************************************************************************)
\* An item as an evaluation or a serialization reads it.
Read(h, x) ==
  [item  |-> [x EXCEPT !.lists = <<>>, !.rules = <<>>],
   lists |-> [name \in DOMAIN x.lists |-> Content(h, x.lists[name])],
   rules |-> [i \in 1..x.rules.len |-> Content(h, At(h, <<x.rules.array, i>>).clauses)]]

\* What Build has returned never changes again, whatever is done with the builder, and with
\* the rule builders that were added to it, afterwards: the arrays they share are written
\* only behind the end of what was built, or with the same preprocessed data again
\* (flag_builder.go:67).
BuiltItemsStayTheSame ==
  [][\A i \in DOMAIN built : Read(heap, built[i])' = Read(heap, built[i])]_builderVars

\* An item that has been built is preprocessed throughout, so that it never depends on the
\* slow path, and its preprocessed data is that of the values it was built with.
BuiltItemsArePreprocessed ==
  \A i \in DOMAIN built :
    LET contents == Read(heap, built[i])
    IN  /\ \A name \in Lists(kind) \ {"contextTargets"} : \A t \in Range(contents.lists[name]) :
             t.preprocessed = PreprocessStringSet(t.values)
        /\ \A clauses \in Range(contents.rules) : \A c \in Range(clauses) :
             c = PreprocessClause(c)
        /\ built[i].preprocessed.included = PreprocessStringSet(built[i].included)
        /\ built[i].preprocessed.excluded = PreprocessStringSet(built[i].excluded)
==============================================================================
