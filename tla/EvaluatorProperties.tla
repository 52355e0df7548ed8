------------------------- MODULE EvaluatorProperties -------------------------
(***************************************************************************)
(* What Evaluator.Evaluate promises, whatever the stores do meanwhile.     *)
(***************************************************************************)
EXTENDS Evaluator

------------------------------------------------------------------------------
(***************************************************************************)
(* Nesting and termination.                                                *)
(***************************************************************************)
\* The flags being evaluated at one time are all different, even when the data store
\* turns a chain of prerequisites into a cycle halfway (evaluatePrerequisite).
NoFlagInsideItself ==
  \A i, j \in DOMAIN scopes : scopes[i].flag.key = scopes[j].flag.key => i = j

\* The segments being tried inside one another are all different (segmentContainsContext).
NoSegmentInsideItself ==
  \A i, j \in 2..Len(walks) : walks[i].src.key = walks[j].src.key => i = j

\* Evaluate returns, even if the data store and the big segment store never stop changing.
Termination == scopes # <<>> ~> result # <<>>

------------------------------------------------------------------------------
(***************************************************************************)
(* Errors.                                                                 *)
(***************************************************************************)
GivingUp == IsDefined(evalRet) /\ ~evalRet[1].ok

\* Once evaluate() returns false, the whole stack of evaluations ends without another
\* event, big segment query or log message (checkPrerequisites, evaluate).
GivesUpAtOnce == [][GivingUp => UNCHANGED <<events, consults, log>>]_vars

\* The errors that end an evaluation wherever they occur.
FatalErrors == {"circularPrereq", "emptyAttrRef", "malformedSegment"}
Logged(errs) == \E i \in DOMAIN log : log[i].err \in errs

\* A cycle, a malformed clause or a malformed segment anywhere below the flag makes the
\* whole evaluation fail with MALFORMED_FLAG and no variation; it never counts as a
\* prerequisite that failed or a rule that did not match.
FatalErrorReachesCaller ==
  IsDefined(result) /\ Logged(FatalErrors) =>
    /\ result[1].detail.variation = <<>>
    /\ result[1].detail.reason.kind = "ERROR"
    /\ result[1].detail.reason.errorKind = "MALFORMED_FLAG"

\* An evaluation never fails silently: a MALFORMED_FLAG result was explained to the logger.
ErrorIsLogged ==
  IsDefined(result) /\ result[1].detail.reason.errorKind = "MALFORMED_FLAG" => log # <<>>

\* No error reaches a caller as EXCEPTION: a circularSegmentReferenceError, which has no
\* error kind of its own, is always wrapped in a malformedSegmentError on its way out.
NeverException ==
  /\ \A i \in DOMAIN evalRet : evalRet[i].detail.reason.errorKind # "EXCEPTION"
  /\ \A i \in DOMAIN events : events[i].detail.reason.errorKind # "EXCEPTION"
  /\ \A i \in DOMAIN result : result[i].detail.reason.errorKind # "EXCEPTION"

\* The data store now holds flags that require one another in a circle.
FlagsAreCyclic ==
  \E keys \in (SUBSET FlagKeys) \ {{}} : \A key \in keys :
    /\ IsDefined(flagData[key])
    /\ flagData[key][1].on
    /\ \E i \in DOMAIN flagData[key][1].prerequisites :
         flagData[key][1].prerequisites[i].key \in keys

\* A circular prerequisite is reported only if the data has a cycle, or an update during
\* the evaluation made it look as if it had one; a flag that is required twice without
\* requiring itself is never mistaken for a cycle.
CircularOnlyIfCyclic == Logged({"circularPrereq"}) => updated \/ FlagsAreCyclic

------------------------------------------------------------------------------
(***************************************************************************)
(* Prerequisites and their events.                                         *)
(***************************************************************************)
\* In a depth-first tour of the evaluation tree, a path comes before its prefixes.
VisitedBefore(p, q) ==
  \/ IsStrictPrefix(q, p)
  \/ \E n \in DOMAIN p \cap DOMAIN q : p[n] < q[n] /\ \A m \in 1..(n - 1) : p[m] = q[m]

\* Events are recorded once for each prerequisite that was evaluated, in post-order: those
\* of a prerequisite's own prerequisites come first, those of a later one come after.
EventsInPostOrder ==
  \A i, j \in DOMAIN events : i < j => VisitedBefore(events[i].path, events[j].path)

PathTo(i) == SubSeq(Path, 1, i - 1)
Requirement(i, n) == scopes[i].flag.prerequisites[n]
RecordedAsMet(i, n) ==
  \E k \in DOMAIN events :
    /\ events[k].path = Append(PathTo(i), n)
    /\ events[k].targetFlagKey = scopes[i].flag.key
    /\ events[k].prerequisiteFlag.key = Requirement(i, n).key
    /\ events[k].prerequisiteFlag.on
    /\ events[k].detail.variation = <<Requirement(i, n).variation>>

\* Whenever a flag has got past a prerequisite, an event shows that very prerequisite on
\* and at the required variation; whenever it fails one, no event does.
PrerequisiteVerdictsMatchEvents ==
  RecorderProvided =>
    /\ \A i \in DOMAIN scopes : \A n \in 1..(scopes[i].prereq - 1) : RecordedAsMet(i, n)
    /\ IsDefined(evalRet) /\ evalRet[1].detail.reason.kind = "PREREQUISITE_FAILED" =>
         /\ Requirement(Len(scopes), Scope.prereq).key = evalRet[1].detail.reason.prerequisiteKey
         /\ ~RecordedAsMet(Len(scopes), Scope.prereq)

InRange(flag, detail) ==
  IsDefined(detail.variation) => detail.variation[1] \in 0..(flag.variations - 1)

\* A variation index that leaves evaluate(), to the caller or in an event, exists in the
\* flag it is for, whatever index a target, rule, rollout or off variation asked for.
VariationExists ==
  /\ \A i \in DOMAIN evalRet : InRange(Scope.flag, evalRet[i].detail)
  /\ \A i \in DOMAIN events : InRange(events[i].prerequisiteFlag, events[i].detail)

------------------------------------------------------------------------------
(***************************************************************************)
(* Segments.                                                               *)
(***************************************************************************)
NamedSegments(c) ==
  {key \in SegmentKeys :
     \E n \in DOMAIN c.values : IsString(c.values[n]) /\ c.values[n][2] = key}
SegmentsAreCyclic ==
  \E keys \in (SUBSET SegmentKeys) \ {{}} : \A key \in keys :
    /\ IsDefined(segmentData[key])
    /\ \E r \in DOMAIN segmentData[key][1].rules :
         LET clauses == segmentData[key][1].rules[r].clauses
         IN  \E i \in DOMAIN clauses :
               clauses[i].op = "segmentMatch" /\ NamedSegments(clauses[i]) \cap keys # {}

\* What a segment says of the context before its rules: its lists, or for a big segment the
\* membership in the store as it is now; <<>> leaves it to the rules.  Included and Excluded
\* are for the default kind; all other kinds have lists of their own.
ListedIn(keys, targets) ==
  \E kind \in DOMAIN context.individuals :
    LET key == context.individuals[kind].key
    IN  IF kind = DefaultKind
        THEN key \in keys
        ELSE \E i \in DOMAIN targets : targets[i].contextKind = kind /\ key \in targets[i].values
DeclaredVerdict(s) ==
  LET key == GetApplicableContextKeyByKind(context, s.unboundedContextKind)
  IN  IF ~s.unbounded
      THEN IF ListedIn(s.included, s.includedContexts) THEN <<TRUE>>
           ELSE IF ListedIn(s.excluded, s.excludedContexts) THEN <<FALSE>>
           ELSE <<>>
      ELSE IF s.generation = <<>> \/ key = <<>> THEN <<FALSE>>
      ELSE IF ~ProviderConfigured THEN <<>>
      ELSE CheckMembership(bigSegmentData[key[1]].membership, MakeBigSegmentRef(s))

\* model_segment.go:17-24: Included and Excluded are for the default kind, IncludedContexts
\* and ExcludedContexts are for all other kinds.
ListsAreForOtherKinds ==
  \A s \in Segments :
    /\ \A i \in DOMAIN s.includedContexts :
         s.includedContexts[i].contextKind \notin {"", DefaultKind}
    /\ \A i \in DOMAIN s.excludedContexts :
         s.excludedContexts[i].contextKind \notin {"", DefaultKind}

\* A set of segments that could be those that contain the context: each contains it if its
\* lists or its stored memberships say so, and otherwise if some rule of it holds.
ClauseHolds(c, members) ==
  IF c.op = "segmentMatch"
  THEN (NamedSegments(c) \cap members # {}) # c.negate
  ELSE ClauseMatchesContextNoSegments(c, context).match
RuleHolds(rule, members) == \A i \in DOMAIN rule.clauses : ClauseHolds(rule.clauses[i], members)
ConsistentMembers(members) ==
  \A key \in SegmentKeys : key \in members <=>
    /\ IsDefined(segmentData[key])
    /\ LET s == segmentData[key][1]
           verdict == DeclaredVerdict(s)
       IN  IF IsDefined(verdict) THEN verdict[1]
           ELSE \E r \in DOMAIN s.rules :
                  /\ RuleHolds(s.rules[r], members)
                  /\ SegmentRuleWeightMatches(s.rules[r], context, s.key, s.salt).match

------------------------------------------------------------------------------
(***************************************************************************)
(* What flags and segments declare.                                        *)
(***************************************************************************)
\* What a flag returns if v says which variation each flag that is on returns, and members
\* which segments contain the context: its off variation if it is off or some prerequisite
\* is not met, the first one being named; otherwise the variation of its targets, of the
\* first rule that holds, or of its fallthrough.  A flag has no value without a variation,
\* and a variation that does not exist is an error.
RequirementMet(p, v) == v[p.key] = <<p.variation>>
Unmet(flag, v) ==
  {i \in DOMAIN flag.prerequisites : ~RequirementMet(flag.prerequisites[i], v)}
Holding(flag, members) == {r \in DOMAIN flag.rules : RuleHolds(flag.rules[r], members)}
FirstOf(positions) == CHOOSE i \in positions : \A j \in positions : i <= j
DeclaredValue(flag, variation, reason) ==
  IF ~IsDefined(variation) THEN DefaultDetail(reason)
  ELSE IF variation[1] \in 0..(flag.variations - 1) THEN NewDetail(variation[1], reason)
  ELSE ErrorDetail("MALFORMED_FLAG")
DeclaredDetail(flag, members, v) ==
  LET target == AnyTargetMatchVariation(flag)
      unmet == FirstOf(Unmet(flag, v))
      holding == FirstOf(Holding(flag, members))
      ruleReason == RuleMatchReason(holding - 1)
  IN  IF ~flag.on THEN DeclaredValue(flag, flag.offVariation, NewReason("OFF"))
      ELSE IF Unmet(flag, v) # {}
      THEN DeclaredValue(flag, flag.offVariation,
                         PrerequisiteFailedReason(flag.prerequisites[unmet].key))
      ELSE IF IsDefined(target) THEN DeclaredValue(flag, target, NewReason("TARGET_MATCH"))
      ELSE IF Holding(flag, members) # {}
      THEN GetValueForVariationOrRollout(flag, flag.rules[holding].vr, ruleReason).detail
      ELSE GetValueForVariationOrRollout(flag, flag.fallthrough, NewReason("FALLTHROUGH")).detail

\* v is what all flags that are on return, and nothing for the other ones.
IsOn(key) == IsDefined(flagData[key]) /\ flagData[key][1].on
ConsistentVariations(v, members) ==
  \A key \in FlagKeys :
    v[key] = IF IsOn(key) THEN DeclaredDetail(flagData[key][1], members, v).variation ELSE <<>>
StoredVariations ==
  {<<>>} \cup UNION {{<<i>> : i \in 0..(flagData[key][1].variations - 1)} :
                       key \in {k \in FlagKeys : IsOn(k)}}

\* Against a data store that does not change, evaluate() returns the variation and the reason
\* that the flags and segments declare, with all their nesting and negation, in whatever
\* order the code tries them, caches answers or stops early.  They declare something if no
\* flags and no segments refer to one another in a circle; a circle elsewhere in the data
\* does no harm.
MeaningOfEvaluation ==
  ~updated /\ IsDefined(evalRet) /\ evalRet[1].ok =>
    /\ \A members \in SUBSET SegmentKeys : ConsistentMembers(members) =>
         \A v \in [FlagKeys -> StoredVariations] : ConsistentVariations(v, members) =>
           evalRet[1].detail = DeclaredDetail(Scope.flag, members, v)
    /\ ~FlagsAreCyclic /\ ~SegmentsAreCyclic =>
         \E members \in SUBSET SegmentKeys, v \in [FlagKeys -> StoredVariations] :
           ConsistentMembers(members) /\ ConsistentVariations(v, members)

------------------------------------------------------------------------------
(***************************************************************************)
(* Big segments.                                                           *)
(***************************************************************************)
StatusesSeen == {consults[i].status : i \in DOMAIN consults}
WorstOf(seen) ==
  IF seen = {}
  THEN {NoStatus}
  ELSE {s \in seen : \A t \in seen :
          GetBigSegmentsStatusPriority(t) <= GetBigSegmentsStatusPriority(s)}

\* The status reported with the result is the most problematic one met anywhere in the
\* evaluation, also in a prerequisite that failed or in one that made it give up, and no
\* status is reported if no big segment was consulted.
StatusIsWorstSeen ==
  /\ scopes # <<>> => Scope.bigSegmentsStatus \in WorstOf(StatusesSeen)
  /\ IsDefined(result) => result[1].detail.reason.bigSegmentsStatus \in WorstOf(StatusesSeen)

SameQuery(a, b) == IsDefined(a.contextKey) /\ a.contextKey = b.contextKey

\* Within the evaluation of one flag, memberships are queried at most once for a context key.
QueriedOncePerScope ==
  \A i, j \in DOMAIN consults :
    SameQuery(consults[i], consults[j]) /\ consults[i].path = consults[j].path => i = j

\* Scopes are copied with a map that they would share: no scope that is waiting for a
\* prerequisite has filled its map, so two scopes never write to one map.
NoSharedMemberships ==
  \A i \in 1..(Len(scopes) - 1) : scopes[i].bigSegmentsMemberships = NoMemberships

------------------------------------------------------------------------------
(***************************************************************************)
(* What comments of the code say, and the code does otherwise.             *)
(***************************************************************************)
\* evaluator_segment.go:47-49: even if multiple big segments are referenced within a single
\* flag evaluation, the query is only needed once per context key.
QueriedOncePerEvaluation ==
  \A i, j \in DOMAIN consults : SameQuery(consults[i], consults[j]) => i = j

------------------------------------------------------------------------------
(***************************************************************************)
(* What the caller sees: the stack of scopes and walks is hidden.          *)
(***************************************************************************)
Phase ==
  CASE result # <<>>                   -> "returned"
    [] result = <<>> /\ scopes = <<>>  -> "idle"
    [] result = <<>> /\ scopes # <<>>  -> IF GivingUp THEN "failing" ELSE "running"
StatusSoFar ==
  CASE scopes # <<>>                   -> Scope.bigSegmentsStatus
    [] scopes = <<>> /\ result # <<>>  -> result[1].detail.reason.bigSegmentsStatus
    [] scopes = <<>> /\ result = <<>>  -> NoStatus
Contract == INSTANCE EvaluationContract WITH phase <- Phase, status <- StatusSoFar

\* Evaluate does nothing that its caller could not expect: events, queries and messages come
\* one at a time and in the running phase only, the status only gets worse and is the one
\* reported, an error is logged, and one that concerns the whole evaluation is all there is.
KeepsTheContract == Contract!Spec
==============================================================================
