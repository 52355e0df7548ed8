# TLA+ project for go-server-sdk-evaluation

This directory holds a TLA+ model of the LaunchDarkly evaluation engine in `src/`: what
happens when `Evaluator.Evaluate` computes the value of a feature flag for a context, while
other goroutines keep updating the data it reads, and how flags and segments are built, preprocessed,
written and read. TLC checks the model on small instances, and TLAPS proves some of the results for
instances of any size.

To check it: `tlc -config <run>.cfg <module>` for the runs in the table below, and
`tlapm` on `RecursionFacts` and on each module whose name ends in `Proofs`. `PROJECT.json` maps every definition that models
code to the lines it models, and lists hazards, findings and mutants.

## 1. Inventory of the system

| Component | Source | State it keeps | Operations |
|---|---|---|---|
| Evaluator: flags | `evaluator.go`, `errors.go`, `interfaces.go` | per call: a stack of `evaluationScope`s (flag, event recorder, big segment status and memberships) and the chain of prerequisite keys passed by value | `Evaluate`, `evaluate`, `checkPrerequisites`, `evaluatePrerequisite`, `anyTargetMatchVariation`, `getVariation`, `getOffValue`, `getValueForVariationOrRollout`, `logEvaluationError` |
| Evaluator: segments | `evaluator_segment.go`, `evaluator_clause.go` | per call: a chain of segment keys, and in the scope the membership map and the status | `segmentContainsContext`, `segmentRuleMatchesContext`, `clauseMatchesContext`, `computeUpdatedBigSegmentsStatus` |
| Chains as Go slices | `evaluator.go`, `evaluator_segment.go` | the `evaluationStack` of every nested call, and the backing arrays they share | `append`, search, call, return |
| Clauses and operators | `evaluator_clause.go`, `ldmodel/operators.go`, `ldmodel/eval_accessors.go`, `ldmodel/type_conversions.go`, `ldmodel/parse_values.go` | none | fifteen operators, the conversions of values, negation, arrays, the attribute "kind" |
| Preprocessing | `ldmodel/preprocess.go`, `ldmodel/parse_values.go` | parsed values and sets stored in flags and segments, written once before they are shared, or again by a second `Build` | `PreprocessFlag`, `PreprocessSegment` |
| Rollouts and experiments | `evaluator_bucketing.go`, `variationOrRolloutResult` | none | bucket of a context, choice of a weighted variation, weight of a segment rule |
| Data model | `ldmodel/model_*.go` | immutable flags and segments | accessors |
| Hash input buffer, hexadecimal parsing | `internal/` | a stack buffer that may move to the heap | append, parse |
| RFC3339 parser | `ldmodel/parse_time.go` | position of a scanner | parse |
| JSON serialization | `ldmodel/model_serialization.go`, `model_marshal.go`, `model_unmarshal.go` | the caller's variable | marshal, unmarshal, then preprocess |
| EasyJSON adapter | `ldmodel/model_serialization_easyjson.go` | none | calls of the functions above |
| Builders | `ldbuilders/` | a flag, segment or rule under construction, whose arrays are shared with what was built from it | setters, `Build` |
| Options and construction | `evaluator_options.go`, `NewEvaluator` | configuration, fixed afterwards | options |

**Interactions.** An `Evaluator` is stateless and shared by goroutines; each call of `Evaluate`
runs in one goroutine and keeps its state on the stack. It calls three things that it does not own:
the `DataProvider` (a flag or segment by key, from a store that other goroutines update), the
`BigSegmentProvider` (a snapshot of the memberships of a context key, and the health of the big
segment store) and the caller's `PrerequisiteFlagEventRecorder`. Flags and segments that were once
returned are immutable, but two lookups in one evaluation may see different versions. Flags refer to
each other through prerequisites, flags and segments refer to segments through `segmentMatch`
clauses; both references are keys that are looked up when they are needed and either may be circular.

**Hard behaviours.**

- Recursion over data that changes during the recursion. A cycle can appear halfway. Only the
  chains of keys, which are passed down by value, bound the recursion.
- Results of nested evaluations travel through three routes: a detail with a boolean, an error, and
  fields of the scope. A failure in the depth must end everything, a prerequisite that is merely not
  met must not, and events must be recorded in between.
- The scope is copied for each prerequisite. Its status must be copied back on every return; its
  membership map must not be shared.
- A nil membership, a missing one, and a membership that says nothing are three different things.
- Bucketing: shares at their boundaries, errors that must not depend on the context, attributes and
  seeds that an experiment treats differently.
- Clauses are matched from data parsed ahead of time; it must never say anything else than the
  values themselves.
- Slices share arrays: sibling calls write over each other's last element of a chain, a builder that is
  used again holds the arrays of flags that are being evaluated, the hash input moves when it grows.
- A JSON property can mean something else because of one that comes later, or be written in an older
  form, be null, repeated or left out; an error in the middle must leave nothing behind.

**What makes each component correct.**

- Flags: every evaluation ends; no flag is evaluated inside itself; a malformed flag, cycle or
  segment anywhere below makes the result MALFORMED_FLAG, with a logged error; prerequisites mean
  what they are documented to mean; events show, in the right order, the results that decided.
- Segments: no segment is tried inside itself; membership is what lists, stored memberships and
  rules declare, through any nesting and negation; the worst status met is reported; one query per
  context key and flag.
- Chains: a key is refused exactly if it is being visited, whatever happens to the arrays.
- Clauses: preprocessing is invisible; negation does not match missing values; operators of one
  family agree.
- Dates: every time is read, and as the right one; nothing is read that does not have the form of a time.
- Bucketing: shares equal weights; errors do not depend on the context; experiments bucket by key
  only; with a seed, the flag does not matter.
- Hash input: exactly the bytes that were appended; digits have the value of their positions, if it fits.
- Builders and preprocessing: what was built never changes and is preprocessed throughout.
- Serialization: what was read or built survives being written and read; the order of properties does
  not matter; a document is read completely or not at all; older readers find what they need, in every object.

## 2. Modules

| Module | What it models |
|---|---|
| `LDModel` | The data: contexts of one or several kinds, attribute values, attribute references (valid, undefined, invalid), flags, segments, clauses, rollouts; the accessors of `ldmodel` and of the context library that evaluation uses. |
| `Reasons` | Evaluation details and reasons, error kinds (`errors.go`), whether a result belongs to an experiment, big segment statuses and their priority. |
| `Clauses` | One clause that is not a segment match: conversions, preprocessing, both ways of reading values, operators, negation. Pure operators. |
| `Bucketing` | Bucket of a context, weighted variations, weight of a segment rule. Pure operators. |
| `Evaluator` | The state machine of one call of `Evaluate` against stores that change. |
| `EvaluationContract` | Abstract: what the caller of `Evaluate` sees of one call. |
| `EvaluatorProperties` | What the state machine promises, and that it implements the contract. |
| `ClauseProperties`, `BucketingProperties` | State machines that test one clause and assign one rollout, and what these promise. |
| `GoSlices` | Slices, backing arrays and the outcomes of `append`. |
| `VisitNesting` | Abstract: things that are visited inside one another, never one inside itself. |
| `VisitChains` | The chains of keys as slices, shown to implement `VisitNesting`. |
| `Builders` | Builders, `Build`, and preprocessing on the arrays they share. |
| `LocalBuffer`, `ParseHex` | The hash input and the number made of a hash. |
| `HexProperties` | What the bytes in the buffer spell, and that the parser finds it if it fits; `strconv.ParseUint`. |
| `ParseTime` | The RFC3339 scanner and the instant it yields. |
| `TimeProperties` | The form of a time, by positions in a text, what makes such a text a time, and that times are read. |
| `JSONSchema` | The properties of every type of object in a flag or segment, zero values, scalars and attributes, and what begins and ends the reading of an object. |
| `JSONObjects` | Objects as sequences of properties, and the types of one level. |
| `JSONLevel` | One level of nesting: reading and writing objects whose properties are handled by a level below, which is a parameter. |
| `Serialization` | Flags and segments read from JSON and written to it: four levels, and the calls that marshal and unmarshal a variable. |
| `JSONLevelProperties` | What is said of the documents and values of one level, given what is said of the level below. |
| `JSONOrder` | JSON without the order of properties, at one level, in the same way. |
| `JSONMeaning` | What an evaluation looks at in a value of one level, and the attributes in it, in the same way. |
| `JSONOmissions` | What objects of one level leave out, and the lists that are no arrays, in the same way. |
| `SerializationProperties` | A document is read, then read again in another order, or written and read back; and what survives. |
| `EvaluatorProofs` | Type correctness and nesting; errors, results, memberships and statuses; the order of events, and the queries of one scope. |
| `MeaningProofs` | What follows from the event of a prerequisite, where circles are, that `Evaluator` implements `EvaluationContract`, and what an evaluation means. |
| `ClauseProofs` | What matching a clause promises, and that times are read. |
| `BucketingProofs` | What assigning a rollout promises. |
| `JSONLevelProofs` | What one level reads and writes, whatever the level below does. |
| `SerializationProofs` | The same of flags and segments, from the lowest level to the highest; and what is read, written and read back in every step. |
| `SliceProofs` | The refinement of the chains, the bytes of the buffer and the number they spell, and what was built. |
| `RecursionFacts` | Induction and recursion as facts about sets: what the proofs use wherever something is counted, summed or declared by recursion. |
| `MCData`, `MCPrerequisites`, `MCSegments`, `MCBigSegments` | Instances of `Evaluator` for TLC. |
| `MCBucketing` | Rollouts and contexts. |
| `MCClauses` | Clauses, contexts and texts of dates: the composition of `ClauseProperties` and `TimeProperties`. |
| `MCSlices` | The composition of `VisitChains`, `HexProperties` (with `LocalBuffer` and `ParseHex`) and `Builders`. |
| `MCSerialization` | Documents and items, and what is done with them. |

`Clauses` and `Bucketing` extend `LDModel`; `Evaluator` extends both and `Reasons`. A module of properties
extends the module whose properties they are, and a module of proofs extends that in turn;
`MeaningProofs` extends `EvaluatorProofs`, whose invariants it uses.
`Serialization` extends `JSONSchema` and instantiates `JSONLevel` four times, each time with the operators of
the level below in the place of its constants; `JSONLevelProperties`, `JSONOrder`, `JSONMeaning`, `JSONOmissions` and
`JSONLevelProofs` are instantiated in the same way. Only `MCSerialization` has RECURSIVE operators, which make the documents that it tries.

### The state of `Evaluator` and the code

| Variable | In the code |
|---|---|
| `flagData`, `segmentData`, `bigSegmentData` | what the providers would answer now |
| `context` | the argument of `Evaluate` |
| `scopes` | the nested `evaluationScope`s; each with the flag, the chain of its call of `evaluate`, the loop index of `checkPrerequisites`, status and memberships |
| `walks` | inside the running scope, the loops over rules, clauses and clause values: first those of the flag, then those of every segment being tried inside it, with the chain of segment keys; rule 0 stands for the lists before the rules |
| `evalRet`, `segRet` | what `evaluate` and `segmentContainsContext` are returning |
| `result` | what `Evaluate` returned |
| `updated`, `events`, `consults`, `log` | history for the properties: whether a store changed, events recorded, big segment statuses obtained, errors logged |

The Go call stack is explicit so that an update of a store can fall between any two calls of a
provider. A step is everything the code does from one such point to the next, or less. The actions
in their order in the code:

- `RejectContext`, `EvaluateSome`, `ReturnResult`: `Evaluate`.
- `FlagIsOff`, `TargetsMatch`, `StartRules`, `FlagRuleMatches`, `Fallthrough`: `evaluate`.
- `PrerequisiteMissing`, `PrerequisiteCircular`, `EvaluatePrerequisite`: `checkPrerequisites` and
  `evaluatePrerequisite` up to the nested call; `PrerequisiteInvalid`, `PrerequisitePassed`,
  `PrerequisiteFailed`: from its return on, with the status copied back and the event.
- `PlainClause`, `NoSuchSegment`, `SegmentCircular`, `EnterSegment`, `SegmentClauseExhausted`,
  `SegmentReturned`: `clauseMatchesContext`.
- `ListedSegment`, `BigSegmentWithoutGeneration`, `BigSegmentOfOtherKind`, `MembershipCached`,
  `BigSegmentsNotConfigured`, `QueryMembership`, `SegmentRuleMatches`, `SegmentRulesExhausted`:
  `segmentContainsContext`.
- `UpdateFlag`, `UpdateSegment`, `UpdateBigSegments`: other goroutines; a key gets another version
  or is deleted, any number of times.

### The state of the other modules and the code

**`EvaluationContract`.** A call is idle, running, failing or returned. The abstract `status` is the worst
answer of the big segment store so far; the calls of the store, the recorder and the logger are
histories that grow by one element at a time. `Evaluator` has no such phase and no such status: they
are `Phase` and `StatusSoFar` of `EvaluatorProperties`, read off the stack (failing is "some call is
returning that the evaluation must end", the status is the running scope's).

**`VisitChains`.** A frame is one nested call of `evaluate` or of `segmentContainsContext`, and its chain a
slice in a variable of that call. `chainHeap` holds the backing arrays; array 1 is the one that `Evaluate`
makes. `Extend` is the `append`, `Enter` the check of the next key and the call, `Refuse` the error
that ends every call, `Leave` the return. Which key comes next is up to the data, so any may.

**`Builders`.** `item` and `rule` are the structs inside the flag or segment builder and the rule
builder; `heap` holds the arrays of targets, rules and clauses. `Build` copies the struct and works
through `todo`, the elements that preprocessing has still to write, one per step, so that every flag
built before can be looked at in between. Methods that assign to a field that is no slice are the one
action `Set`; a method that appends to a list is `AddTarget` for the lists that are preprocessed and one
that is not, `contextTargets` (prerequisites and variations are appended to in the same way, and no preprocessing
touches them).

**`LocalBuffer`.** `buffer` is the array and the length of `LocalBuffer.Data`; every append is one action.

**`Serialization`.** `item` is a variable of a program, `document` the JSON at hand. `JSONSchema` has one
table per Go type with its properties in the order in which `model_marshal.go` writes them: type, list or
not, left out if not set or not. Reading goes through the properties of an object in the order in
which they arrive, over the fields that the struct has already. Objects nest four deep, and there is one level for
each depth: objects with nothing but scalars (such as clauses and targets), rollouts and the rules of segments,
the rules of flags and whole segments, and flags. The code has one function per type, which calls those of the types
in it; a level is all the functions whose types need the same depth. What an object
is read over starts as its zero value, in a list, or as the field's old value.

### Abstractions

- Keys, attribute names and variations are model values, strings or small numbers. A variation's
  value is its index; `flag.variations` is how many there are. `JSONSchema` keeps all the fields.
- What the data store returns for a key has that key. (The code compares the key of what was
  returned.)
- In `Evaluator`, key lists of targets and segments are sets. That the maps made of such lists have
  exactly their keys is `BuiltItemsArePreprocessed`.
- The bytes that are hashed are a tuple (prefix, value, secondary key); the bucket is looked up in a
  table `Hash` in units of one weight. The largest bucket is the whole scale itself, because the
  float32 quotient can round up to 1. Sums of weights are exact; the code adds float32 numbers.
- Numbers count halves, so that integers and fractions can be told apart. Multiplication of
  milliseconds wraps around at `MillisLimit`, as int64 nanoseconds do at about 9.2e12 milliseconds.
- The parser of times reads a sequence of characters; those outside of ASCII, and the zero byte, are in
  `NonASCII`. The fraction is multiplied to nanoseconds by writing zeros behind its digits.
- What Go's strings, regexp and semantic version code computes is given by tables. So are dates, with an
  assumption of the instance that the table agrees with `ParseTime`, where `time.Date` is
  modelled from how it is used, with days and seconds that run over.
- Numbers in JSON are written and read as themselves: nothing is said of the precision of a number that
  passes through float64, such as the uint64 of `debugEventsUntilDate` (`model_marshal.go:98`).
- A JSON value is already a tree: the syntax belongs to the reader of the external library.
  Attribute texts are sequences of tokens, with the escapes that matter.
- A nil `DataProvider` answer and a nil membership are `<<>>`, anything present is a sequence of
  length one; so are all optional fields.
- `Changing` says which stores are updated in a run. It limits the size of a run; the proofs hold
  for any value of it.

Operators whose comment starts with "Mutant" are no part of the specification. Each is a plausible
bug in the definition after it, and putting it in that definition's place makes a property fail:
every property of every passing run has one (`mutants` in `PROJECT.json`).

## 3. Runs

| Run | Instance | What it checks |
|---|---|---|
| `prerequisites` | Flags f, g, h with ten versions: chains, a diamond (f requires h and g, g requires h), a cycle (h requires f), flags that are off, lack the wanted variation, have an off variation out of range, a malformed rule, targets in both forms; flags change at any moment; valid and invalid context | types, nesting, errors, events, meaning of the evaluation, termination, the contract |
| `segments` | A flag with rules over segments s, t, u with nine versions: nesting, negation, several values, a cycle, lists for two kinds, weights, a malformed weight and a big segment without a provider; segments change at any moment; contexts of one and two kinds | nesting, wrapping of errors, meaning of the evaluation, worst status, termination |
| `big_segments` | A flag with two prerequisites, all over big segments of two context kinds, one of them without generation, one rule malformed after a query; answers HEALTHY, STALE and STORE_ERROR with and without membership, which change at any moment; two kinds with equal and with different keys; no recorder | worst status, one query per scope, no shared map, meaning of the evaluation, the contract |
| `bucketing` | 112 rollouts (kind, seven weight lists, four values of bucketBy, seed or not), one context key for every bucket, the top one included, single-kind contexts, of either of two kinds, a secondary key | shares, errors, experiments, seeds |
| `clauses` | All operators on nulls, booleans, numbers, strings and arrays (no objects), the empty, one and two values, attributes valid, undefined, malformed, "kind"; single-kind contexts, of either of two kinds. Dates with up to two parts replaced by any of a list of right and wrong ones, and any rest | preprocessing, negation, agreement, reading of dates |
| `slices` | Chains over three keys in an array of one element, so that they have to move; a buffer that starts with one byte and takes three, with bytes on both sides of every boundary of hexadecimal digits; a flag builder and a segment builder with two calls of `Build`, before and after which anything may be added | chains implement nesting; bytes and digits; built items do not change and are preprocessed |
| `serialization` | Documents with any one object, at any place, whose properties are usual but for two (left out, repeated, null, empty, of the wrong type, an invalid or escaped attribute); flags from builders with every form of attribute and availability | round trips, order, errors, older readers |
| `queried_once`, `date_overflow`, `zero_time`, `impossible_time`, `round_trip` | the instances above; `impossible_time` has texts in the form of a time with an impossible day, an impossible second and a rest | five comments of the code that the code contradicts (section 5) |

Two of the properties are refinements: `KeepsTheContract` (`Evaluator` implements `EvaluationContract`) and
`NestingIsExact` (`VisitChains` implements `VisitNesting`).
Both are proved as well.

**Why these bounds are enough to be interesting.** A cycle needs two keys and a diamond three; a
status has to survive a prerequisite that succeeds, one that fails and one that gives up, before and
after another one; a status is merged with one that is better, worse or equal. With three segments
there is a segment that is reached twice on different paths, a cycle that the first segment is not on,
and double negation through nesting. Every store version is reachable at every step, because the
stores change without limit in number or order. In these runs nothing else has to be bounded: positions are
bounded by the flags, histories by the length of an evaluation.

The other bounds are named. `Preallocated`, `InitialCapacity` and `Spares` are 1 so that a chain, a
buffer and a list each fill an array, move, and find room in the next. `MaxChainArrays` and
`MaxArrays` (3) allow two moves, `MaxBytes` (3) also two. `MaxLength` (2) lets a rule be added twice,
`MaxBuilt` (2) something be built again while what was built before is in use. An integer has
`Width` 8 bits and up to three digits, so that there are numbers that do not fit.

The clauses run leaves Go's zero time out of `PreprocessingIsTransparent`; the run `zero_time`
shows what happens with it. The serialization run leaves clauses on a path without a kind out of
`RoundTripIsExact`; the run `round_trip` shows what happens with them. `TimesAreRead` leaves open what
becomes of a text in the form of a time that is none, and the run `impossible_time` shows it.
`HexAgreesWithPositions` is about digits that fit into the integer, and `OlderReadersFindTheirs` exempts nine properties
that `NotListed` names: both are disagreements with a comment, too (section 5).

**What they do not see.** `SeedReplacesFlagKey` varies the flag's key, not its salt. `OperatorsAgree` compares operators of
one family with each other, so it would not notice a conversion that is wrong for all of them. `Builders` writes whole
elements, one at a time: `preprocess.go:45-50` rules out concurrent use of a flag that is being preprocessed.

**Fairness.** `WF_vars(Step)`: the goroutine that evaluates is kept running by the scheduler, and
providers and recorders return. That is all; updates of the stores are never fair and may go on for
ever. `Termination` therefore says that no sequence of updates keeps an evaluation going.

**Deadlock** is checked in every run; a call that has returned may stutter (`Returned`), and so may
what else has come to its end.

## 4. Proofs

These are proved for all flags, segments, contexts, answers and sequences of updates:

- `TypeCorrect`: `Spec => []TypeOK`. The invariant is `TypeInv`, which adds to `TypeOK` what makes
  the partial operators of the actions defined. `CallersWait`: every scope but the last is at one
  of its flag's prerequisites, and that prerequisite names the flag of the next scope. `ControlOK`:
  rules are walked only inside an evaluation that is not returning, the walk over a flag's rules is at
  a rule and not at the lists that only a segment has, a result of `evaluate` belongs to a scope, and
  a result of a segment goes to a walk.
- `FlagsNeverNest`: `Spec => []NoFlagInsideItself`. That flags on the stack differ is not inductive:
  the step that starts a prerequisite looks only at the chain. `ChainsAreFlagsBelow` says that the
  chain of a scope lists exactly the keys of the flags below it, in order; with it, the check of the
  new flag's key against the chain and the caller's own key is a check against the whole stack.
- `SegmentsNeverNest`: `Spec => []NoSegmentInsideItself`, in the same way, with the difference
  that a segment's chain includes the segment itself.
- `ErrorsHaveKinds`: `Spec => []NeverException`. The invariant `ErrorInv` adds that a segment returns
  no error other than a wrapped one. In a segment this is the shape of `RuleFails`; in the rules of a
  flag it needs `SegmentNesting`, because only an empty chain guarantees that a flag's own rules
  cannot find a cycle, whose error has no kind.
- `MembershipsAreNotShared`: `Spec => []NoSharedMemberships`. The invariant adds that the running
  scope has no map until its rules start (`RunningScopeIsFresh`). It needs that an evaluation whose
  rules have started never gets back to the state before them (`RulesGoOn`), except by returning.
- `WorstStatusIsReported`: `Spec => []StatusIsWorstSeen`. The merge of the status of a prerequisite
  with its caller's would lose it if the caller's were worse. `StatusInv` says that the running scope
  has the worst status of all that were met, and that a waiting scope has one that was met, or none.

- `FatalErrorsReachCaller`, `ErrorsAreLogged`, `VariationsExist`: `Spec => []` of
  `FatalErrorReachesCaller`, `ErrorIsLogged`, `VariationExists`. The invariant `AnswerInv` follows what
  an evaluation says on each of its ways out: what `evaluate` is returning (`ReturnIsSound`), what the
  recorder was told (`EventsAreSound`), what `Evaluate` returned (`ResultIsSound`). A sound outcome has a
  variation of its flag or none, and an error in it is malformed and has been logged. `FatalErrorsEnd`
  says that a fatal error in the log means that a fatal outcome is on its way or has arrived; it
  needs `ErrorInv`, because an error without a kind would not count as fatal.
- `GivingUpIsFinal`: `Spec => GivesUpAtOnce`, an action property: once a failure is on its way, nothing
  is recorded, asked or logged.
- `EventsFollowTheTour`: `Spec => []EventsInPostOrder`, and `QueriesAreMadeOnce`: `Spec =>
  []QueriedOncePerScope`. An event names the places of the stack at which it was recorded. `TourInv` says
  that whatever was recorded about a prerequisite is over: the loop of some scope has passed it, or it lies
  within the place where the running scope is about to return (`EventsAreOver`). The same holds of the
  memberships that were asked for, unless it was the running scope that asked and has them in its map
  (`QueriesAreOver`). A new entry is compared with all earlier ones in a history of any length.
- `VerdictsMatchEvents`: `Spec => []PrerequisiteVerdictsMatchEvents`. The invariant says that
  every prerequisite before the present one, in every scope of the stack, has its event and was met
  (`PassedIsMet`), and that a returned PREREQUISITE_FAILED names one that was not (`FailedIsNotMet`).
- `CirclesAreReal`: `Spec => []CircularOnlyIfCyclic`. `StackInv` says that every scope waits for the flag of
  the next one and that, until there is an update, the flags on the stack are those that the store holds;
  a prerequisite on the stack then closes a circle in the store.
- `EvaluationMeetsContract`: `Spec => KeepsTheContract`. The refinement mapping is `Phase` and
  `StatusSoFar`: initial states map to initial states, and each action to one step of the contract or to a
  stutter. Giving up is the step with the most cases, because it can happen in a rule, in the rule of a
  segment at any depth, at a prerequisite and at the rejection of the context.
- `EvaluationMeansWhatIsDeclared`: `Spec => []MeaningOfEvaluation`. While no update has come between, a
  returned detail is `DeclaredDetail` for every set of segments that is consistent with what the segments
  say of the context, and for every assignment of variations that is consistent with what the flags
  say; and if the references make no circle there are such a set and such an assignment, so that the
  first part says something. Three invariants: `MeaningInv` (cached memberships are
  current; each nested walk is for the segment that its caller's value names; rules that were passed do not
  hold, clauses that were passed hold, values that were passed name no member), `DeclaredInv`
  (prerequisites that were passed are met by what they declare, rules come after targets, the detail
  on its way is the declared one), and `VerdictStateInv` from above. That something consistent exists is an
  induction along the references: `SolutionExists` has it once for definitions over any finite
  well-founded relation, stated as a fact about sets, and is used for segments and for flags.
  The theorem assumes `ListsAreForOtherKinds`: lists with a context kind of their own are not for the
  default kind, as `model_segment.go` has it, where the default kind has a list of its own. Where that is broken
  the code skips these lists for a context of the default kind alone. TLC evaluates the assumption on the data of the runs.
- `ChainsRefineNesting`: `ChainSpec => NestingIsExact`, for any preallocated capacity and any way in which the
  runtime grows arrays. `ChainInv` says that a chain is as long as its frame is deep (`DepthIsLength`)
  and that its elements are the keys of the frames below (`HoldsTheNesting`). This holds for every frame on
  the stack and not only for the last one, since a call writes behind the end of its callers' chains
  only; that frames which have returned find theirs written over is why the invariant is about the stack alone.
- `BufferIsExact`: `BufferSpec => []HoldsWhatWasAppended`, for any capacity and sequence of appends. That the
  digits of an integer are a sequence of bytes is an induction on the integer (`DigitsAreDefined`).
- `HexIsPositional`: `BufferSpec => []HexAgreesWithPositions`, for bytes of any number and any width of the integer
  from four bits on. The parser shifts the integer to the left for each digit, so that upper bits may be lost on the
  way, while `PositionalValue` adds up digits by the weight of their position; they agree if the sum fits.
  `AccumulatedIsSpelled` is the induction along the digits: after n of them there is a number h such that the
  integer holds h as far as it fits, and the weighted sum so far is h times the weight of the nth digit.
  Its step is `ShiftThenCut`, which needs that the integer has a multiple of 16 values (`Sixteens`): for fewer bits
  than four a digit would not fit, and the property would be false.
- `BuiltItemsNeverChange`: `BuilderSpec => BuiltItemsStayTheSame`, an action property, and
  `BuiltItemsAlwaysPreprocessed`: `BuilderSpec => []BuiltItemsArePreprocessed`, for any lists, any capacities
  and any number of calls of `Build`. Neither is inductive: nothing in them says who else can write into the
  arrays of what was built. `BuilderInv` does. Every array has one owner, a list, the rules or
  the clauses of a rule, and every slice lies in an array of its own kind (`EveryArrayHasAnOwner`), so that
  writes through one list are never seen through another; the builder's slices reach at least as far as
  those of what was built from it (`CopiesAreBehind`), so that `append` writes behind the end of all of
  them; and what was built is preprocessed, what is being built is so except for what is left to do
  (`PreprocessedSoFar`), so that writing the preprocessed form of an element again, through a shared array,
  changes nothing. The last needs that preprocessing is idempotent (`PreprocessTwice`), and that the loops
  reach every place of an item (`PlacesToPreprocessAreAll`), an induction along the lists.
- `WeightsAreShares`, `ErrorsIgnoreContexts`, `ExperimentsGoByKey`, `SeedsReplaceKeys`: `Spec => []` of
  `SharesMatchWeights`, `ErrorForAllContextsOrNone`, `ExperimentBucketsByKeyOnly`, `SeedReplacesFlagKey`. For the
  shares, the sums of the weights are shown to exist and to grow, which is an induction along the list;
  a bucket then belongs to the one interval between two sums that contains it. The keys of an interval's
  buckets are as many as its length, because by `PopulationAssumption` the hash gives every bucket to
  exactly one key of the population; TLC evaluates that for the table of its run.
- `PreprocessingChangesNothing`, `NegationIsNoComplement`, `FamiliesAgree`: `ClauseSpec => []` of
  `PreprocessingIsTransparent`, `NegationNeedsAValue`, `OperatorsAgree`. The first two compare a clause with
  another one; `LooksUpAlike` says when two clauses read the same from their values, and then no operator tells
  them apart. Preprocessing is shown to satisfy it operator by operator: the set of "in", the parsed values,
  and, for dates, the zero value that stands for a failed parse, which is why Go's zero time has to be
  excluded. The third needs that wrapped milliseconds are still integers.
- `TextsAreRead`: `TextSpec => []TimesAreRead`, for texts of any length. The scanner looks for the next
  terminator, `Follows` at fixed positions: `TerminatedField` says that a field is read without an error
  exactly if the digits and the terminator are where the form of a time has them, and what is known then.
  `ThreeTerminatedFields` puts three fields after each other, which is used for the date and for the time of
  day, where the hour may have two lengths; the fraction (`FractionIsRead`) and the minutes of the offset
  (`MinutesAreRead`, the one field that the end of the text may end) follow. That no terminator is a
  digit is what makes the position unique (`EndsAfterDigits`). The calendar is `time.Date`, an external function, and
  the property leaves it as it is: TLC compares it with days counted by hand (`CalendarAssumption`).
- `OrderNeverMatters`, `NothingIsReadInPart`, `OlderReadersAlwaysFindTheirs`: `Spec => []` of `OrderDoesNotMatter`,
  `AllOrNothing`, `OlderReadersFindTheirs`, for any documents and items, with lists of any length. `JSONLevelProofs` is about
  one level, for any schema. That the properties are read one after the other is a recursive function, which
  `PropertiesAreReadInOrder` shows to exist; from this it follows that a field no property was read for is what it was
  at the beginning (`UnreadPropertiesStay`), that in an object without repetitions each property is read as it
  would be alone (`PropertiesAreReadAlone`), and so that the order does not matter (`OrderOfProperties`). `OrderInAValue` has
  it for properties that change places at any depth, if it holds of the level below, for values that
  have all their fields (`HasFields`); `SerializationProofs` uses it four times. The fields are there because every
  type's zero value has them, three levels deep (`ZeroHasZeroFields`), and that attributes and `clientSide` are
  interpreted only at the end of an object is in `BegunObjects`. What was written has each property once, with what
  the schema says (`WrittenProperties`). That it leaves out nothing but what it may is proved of one level, if it holds of the
  level below, for a schema whose other properties are always written (`LevelsAreComplete`); `SchemasAreCovered` has
  that of each type from its table, and `ItemsAreComplete` of flags and segments. The invariant, `SerializationInv`, says of each phase what
  reading the document at hand yields, and how that is related to the item.
- `RoundTripsAreExact`: `Spec => []RoundTripIsExact`, for any documents that are read and any items from builders. A flag or
  segment that is written is an item (`IsItem`): its fields have values of their types, its attributes are
  references as `NewRef` and `NewLiteralRef` make them, and the fields of an object fit together (`IsConsistent`). That
  a builder makes items is an assumption that TLC evaluates (`BuiltItemsAssumption`); that a document is read as one is
  proved (`ItemsAreTyped`). What is proved of one level, in `JSONLevelProofs`, is that a value is read back
  with the same meaning if that is so of the level below (`LevelsNest`), for objects whose type is regular (`IsRegular`): what is not
  written is zero (`UnsetIsZero`) or means nothing (`EmptyRollouts`), and what is written is read by itself
  (`PropertiesAreReadBack`). `SerializationProofs` uses it four times, from
  the scalars upwards (`ScalarsAreReadBack`, `LeavesAreSound`, `RolloutsAreSound`, `RulesAreSound`, `FlagsAreSound`), after showing
  that every type but the flag's is regular, from its schema (`TypesAreRegular`). Flags are not, because `clientSide` and
  `clientSideAvailability` are two properties for one field: `FlagsAreReadBack` has the two cases, explicit or not. Of an
  attribute the text is read back, and the text of an escaped name is read as that name (`EscapedNames`,
  `AttributesSurvive`), which looks at the components of a path one token after the other.

Induction: the theorems of the library take an operator as a parameter and cannot be used here.
`RecursionFacts` states it about sets instead: a set of numbers that contains 0 and the successor of each of its
members contains all (`NaturalsByInduction`), there is a function with any given step (`NaturalsByRecursion`, and
`PrimitiveRecursion` for a step from the value before),
and any definition over a finite well-founded relation has a solution (`SolutionExists`). That is enough for sums,
digits, properties in their order and declared meanings, which look back one step or to what they refer to.

The assumptions are those of the modules (`EvaluatorAssumption`, `BucketingAssumption`,
`ClauseTablesAssumption`, `BuildersAssumption`, `GoSlicesAssumption`, `VisitChainsAssumption`, `LocalBufferAssumption`,
`WidthAssumption`, `NonASCIIAssumption`, and `ValuesAssumption`, `ClauseCasesAssumption`, `RolloutsAssumption`,
`PopulationAssumption`, `TextsAssumption`, `TokensAssumption`, `DocumentsAssumption`, `BuiltItemsAssumption` of the modules of properties): the data is well formed, the tables have the right ranges, numbers are numbers, clauses are given as they
were written, documents have values of the kinds that their tags say, and items that builders made have fields of their types that fit together. TLC evaluates them in every run that uses them. The invariants were model-checked before they were proved.

Only model-checked: liveness (`Termination`), because it needs ENABLED, which is beyond the prover. The two assumptions on
the instance of the serialization run, that its documents and items are well formed, are evaluated by TLC.

## 5. Findings

1. `evaluator_segment.go:47-49` says that memberships are queried once per context key in a flag
   evaluation. They are queried again by each flag among the prerequisites, because a prerequisite's
   scope is a copy whose map is still nil (`evaluator.go:185`); answers may differ between them.
   What does hold is `QueriedOncePerScope`. That the map is never shared (`NoSharedMemberships`) is
   what makes the copy safe.
2. `ldmodel/type_conversions.go:33` says that numbers are milliseconds and `operators.go:31` that
   dates compare as such. Above about 9.2e12 milliseconds the int64 product wraps around, and a later
   date counts as earlier.
3. `ldmodel/eval_accessors.go:114-118` says that a clause value in the correct format is returned as
   a timestamp. A preprocessed one is judged valid by `!IsZero()`, not by its `valid` flag, so that
   the first moment of the year 1 is a date only where it was not preprocessed.
4. `ldmodel/parse_time.go:8-22` lists the deviations from RFC3339 and gives consistency with
   `time.Parse` as the reason. Not among them, and rejected by `time.Parse`: a day is at most 31 in every month, so
   that 2021-02-31 is a time (`parse_time.go:36`); the second may be 60 at any minute (`parse_time.go:48`), which
   RFC3339 has at leap seconds only; and a text may go on after a "Z", or after an offset with a
   character outside of ASCII (`parse_time.go:93`). `time.Date` makes the days of the next month, or the next
   minute, of the first two. The run has a text that is wrong in all three ways. (Lower-case "t" and "z"
   are RFC3339's, though `time.Parse` has the capitals only.)
5. `ldmodel/model_serialization.go:74-76` guarantees that the structs serialize and deserialize
   correctly. A clause on a path of several names that has no context kind (`ClauseRef` of the builders makes
   one) is written as the first name only (`model_marshal.go:255`).

Four more comments are not right, without a run of their own:

- `internal/parse_hex.go:3` says that `ParseHexUint64` is equivalent to `strconv.ParseUint` with base 16, and
  `TestParseHexUint64IsEquivalentToStrconvParseUint` asserts it, for random strings and for texts of at most 16
  digits. `ParseUint` fails with ErrRange where digits spell more than 64 bits; `ParseHexUint64` shifts the
  upper bits out (`parse_hex.go:13`) and succeeds. The evaluator passes 15 digits (`evaluator_bucketing.go:102`), so it never
  gets there. `HexAgreesWithPositions` is the equivalence where the number fits.
- `ldmodel/model_marshal.go:9-25` says which properties may be left out if they have default values: those with
  optional semantics, and those that older readers never look for, which it lists. Left out are also the `id` of a
  flag rule (`model_marshal.go:56`), which a segment rule always has, the `kind` of a rollout (`:202`), `untracked` of
  a weighted variation (`:209`), and the context kinds of targets, clauses, rollouts, segment targets,
  segment rules and segments (`unboundedContextKind`). These nine are `NotListed`; in `OlderReadersFindTheirs` they are
  an exemption of their own.
- `evaluator.go:171-173` says that `evaluatePrerequisite` returns false only for a circular reference, and it also
  does for any malformed rule.
- `evaluator_bucketing.go:34-35` says that rollouts cannot use the seed, and they do.

## 6. Not modelled

- The EasyJSON adapter: it is compiled only with a build tag and calls what `Serialization` models.
- The syntax of JSON and the streaming interface: an external library.
- Applying options: a loop of assignments. The two that matter to an evaluation are the constants
  `ProviderConfigured` and `EnableSecondaryKey`; logging is the history `log`, whether or not a
  logger was given.
- The rounding of float32 sums and quotients in bucketing (`evaluator.go:345`), except that a bucket may be the
  whole scale: weights and buckets are whole numbers of one unit.
- SHA1, regular expressions, semantic versions and string functions: tables.
- The text of log messages, and benchmarks.
