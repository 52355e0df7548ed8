------------------------------ MODULE Evaluator ------------------------------
(***************************************************************************)
(* One call of Evaluator.Evaluate (evaluator.go, evaluator_segment.go,     *)
(* evaluator_clause.go) running against a data store and a big segment     *)
(* store that other goroutines keep updating.                              *)
(*                                                                         *)
(* The Go call stack is explicit.  "scopes" holds one evaluationScope for  *)
(* every nested call of evaluate(): the flag that was asked for, then the  *)
(* prerequisites being evaluated for it.  "walks" holds, for the innermost *)
(* scope, its walk over the flag's rules and one more walk for every       *)
(* segment whose rules are being tried inside it.  "evalRet" and "segRet"  *)
(* are values on their way back to a caller.  A step runs from one call of *)
(* the DataProvider, BigSegmentProvider or event recorder to the next, or  *)
(* less, so the stores may change between any two of them.                 *)
(***************************************************************************)
EXTENDS Bucketing, SequencesExt

CONSTANTS
  Flags,                \* the versions of flags that the data store may hold
  Segments,             \* the versions of segments that the data store may hold
  BigSegmentAnswers,    \* what GetMembership may answer
  Contexts,             \* the contexts to evaluate for
  ProviderConfigured,   \* whether there is a BigSegmentProvider
  RecorderProvided,     \* whether the caller passed an event recorder
  Changing              \* the stores that are updated during the evaluation

(***************************************************************************)
(* A membership is nil, or an immutable snapshot that tells for some big   *)
(* segment references whether the context is included or excluded.         *)
(***************************************************************************)
IsMembership(m) ==
  m = <<>> \/ (Len(m) = 1 /\ \A ref \in DOMAIN m[1] : m[1][ref] \in Optional(BOOLEAN))
CheckMembership(m, ref) ==
  IF IsDefined(m) /\ ref \in DOMAIN m[1] THEN m[1][ref] ELSE <<>>

ASSUME EvaluatorAssumption ==
  /\ Flags \subseteq Flag
  /\ Segments \subseteq Segment
  /\ \A c \in Contexts : IsContext(c)
  /\ \A a \in BigSegmentAnswers : a.status \in ProviderStatus /\ IsMembership(a.membership)
  /\ {ProviderConfigured, RecorderProvided} \subseteq BOOLEAN
  /\ Changing \subseteq {"flags", "segments", "bigSegments"}

VARIABLES
  flagData,         \* DataProvider: flag key -> the current flag, if any
  segmentData,      \* DataProvider: segment key -> the current segment, if any
  bigSegmentData,   \* BigSegmentProvider: context key -> the current answer
  updated,          \* history: a store has changed since Evaluate was called
  context,          \* the context of this evaluation
  scopes,           \* nested evaluationScopes, the running one last
  walks,            \* nested walks over rules in the running scope
  evalRet,          \* what evaluate() returns to its caller
  segRet,           \* what segmentContainsContext() returns to its caller
  result,           \* what Evaluate returned
  events,           \* history: calls of the prerequisite event recorder
  consults,         \* history: big segment statuses obtained, in order
  log               \* history: errors written to the error logger

stores == <<flagData, segmentData, bigSegmentData, updated>>
vars == <<stores, context, scopes, walks, evalRet, segRet, result, events, consults, log>>

------------------------------------------------------------------------------
(***************************************************************************)
(* The records on the stack.                                               *)
(***************************************************************************)
Scope == Last(scopes)
Caller == scopes[Len(scopes) - 1]
Walk == Last(walks)

\* prerequisiteFlagChain is the slice passed by value to evaluate(); prereq is the
\* position of the loop in checkPrerequisites.
NewScope(flag, chain, status, memberships) ==
  [flag |-> flag, prerequisiteFlagChain |-> chain, prereq |-> 1,
   bigSegmentsStatus |-> status, bigSegmentsMemberships |-> memberships]

\* Mutant: the chain of segments is not passed on.
NewWalkWithoutChain(src, chain, rule) ==
  [src |-> src, segmentChain |-> <<>>, rule |-> rule, clause |-> 1, value |-> 1]

\* A walk over the rules of a flag or a segment: the positions of the rule, of its
\* clause and of the clause's value.  Rule 0 is a segment whose lists come first.
NewWalk(src, chain, rule) ==
  [src |-> src, segmentChain |-> chain, rule |-> rule, clause |-> 1, value |-> 1]

\* The place of the running scope in the tree of evaluations.
Path == [i \in 1..(Len(scopes) - 1) |-> scopes[i].prereq]

NoMemberships == [key \in {} |-> <<>>]

SetStatus(status) == [scopes EXCEPT ![Len(scopes)].bigSegmentsStatus = status]
Consulted(contextKey, status) ==
  consults' = Append(consults, [path |-> Path, contextKey |-> contextKey, status |-> status])

------------------------------------------------------------------------------
(***************************************************************************)
(* Results of a flag: a detail, and the error to be logged if there is one.*)
(***************************************************************************)
Outcome(detail) == [detail |-> detail, err |-> NoError]
ErrorOutcome(err) == [detail |-> ErrorDetail(ErrorKindForError(err)), err |-> err]

\* Mutant: the index may be the number of variations.
GetVariationUpToLength(flag, index, reason) ==
  IF index \in 0..flag.variations
  THEN Outcome(NewDetail(index, reason))
  ELSE ErrorOutcome("badVariation")

GetVariation(flag, index, reason) ==
  IF index \in 0..(flag.variations - 1)
  THEN Outcome(NewDetail(index, reason))
  ELSE ErrorOutcome("badVariation")

\* Mutant: the off variation is never used.
DefaultAsOffValue(flag, reason) == Outcome(DefaultDetail(reason))

GetOffValue(flag, reason) ==
  IF IsDefined(flag.offVariation)
  THEN GetVariation(flag, flag.offVariation[1], reason)
  ELSE Outcome(DefaultDetail(reason))

GetValueForVariationOrRollout(flag, vr, reason) ==
  LET r == VariationOrRolloutResult(vr, context, flag.key, flag.salt)
  IN  IF r.err # NoError
      THEN ErrorOutcome(r.err)
      ELSE GetVariation(flag, r.variation,
             IF r.inExperiment THEN ReasonToExperimentReason(reason) ELSE reason)

(***************************************************************************)
(* Targets.                                                                *)
(***************************************************************************)
ContainsKeyOfKind(target) ==
  LET key == GetApplicableContextKeyByKind(context, target.contextKind)
  IN  IsDefined(key) /\ key[1] \in target.values

TargetMatchVariation(target) ==
  IF ContainsKeyOfKind(target) THEN <<target.variation>> ELSE <<>>

\* A context target of the default kind without keys stands for the keys of the first
\* target for the same variation.
ContextTargetMatchVariation(flag, target) ==
  IF KindOrDefault(target.contextKind) = DefaultKind /\ target.values = {}
  THEN LET i == SelectInSeq(flag.targets, LAMBDA t : t.variation = target.variation)
       IN  IF i = 0 THEN <<>> ELSE TargetMatchVariation(flag.targets[i])
  ELSE TargetMatchVariation(target)

AnyTargetMatchVariation(flag) ==
  LET variations ==
        IF flag.contextTargets = <<>>
        THEN [i \in DOMAIN flag.targets |-> TargetMatchVariation(flag.targets[i])]
        ELSE [i \in DOMAIN flag.contextTargets |->
                ContextTargetMatchVariation(flag, flag.contextTargets[i])]
      first == SelectInSeq(variations, IsDefined)
  IN  IF first = 0 THEN <<>> ELSE variations[first]

(***************************************************************************)
(* The lists of a segment that is not a big segment: included comes before *)
(* excluded, and <<>> means that the rules decide.                         *)
(***************************************************************************)
\* Mutant: excluded comes first.
SegmentListsVerdictExcludedFirst(s) ==
  LET key == GetApplicableContextKeyByKind(context, DefaultKind)
  IN  IF ~IsDefined(key) THEN <<>>
      ELSE IF key[1] \in s.excluded THEN <<FALSE>>
      ELSE IF key[1] \in s.included THEN <<TRUE>> ELSE <<>>

SegmentListsVerdict(s) ==
  LET userKey == GetApplicableContextKeyByKind(context, DefaultKind)
      userIn(keys) == IsDefined(userKey) /\ userKey[1] \in keys
      anyIn(targets) == /\ ~IsOnlyDefaultKind(context)
                        /\ \E i \in DOMAIN targets : ContainsKeyOfKind(targets[i])
      included == userIn(s.included) \/ anyIn(s.includedContexts)
      excluded == userIn(s.excluded) \/ anyIn(s.excludedContexts)
  IN  IF included THEN <<TRUE>> ELSE IF excluded THEN <<FALSE>> ELSE <<>>

MakeBigSegmentRef(s) == <<s.key, s.generation[1]>>

------------------------------------------------------------------------------
(***************************************************************************)
(* Returning from evaluate(), from a segment, and from a clause.           *)
(***************************************************************************)
\* Mutant: the error is not logged.
ReturnSilently(outcome, ok) ==
  /\ evalRet' = <<[detail |-> outcome.detail, ok |-> ok]>>
  /\ log' = log

\* evaluate() returns; ok = FALSE makes every caller give up as well.
Return(outcome, ok) ==
  /\ evalRet' = <<[detail |-> outcome.detail, ok |-> ok]>>
  /\ log' = IF outcome.err = NoError
            THEN log
            ELSE Append(log, [flag |-> Scope.flag.key, err |-> outcome.err])

\* segmentContainsContext() returns.
SegmentReturns(r) ==
  /\ segRet' = <<r>>
  /\ walks' = Front(walks)

\* Mutant: a segment passes an error on without wrapping it.
RuleFailsUnwrapped(err) ==
  \/ /\ Len(walks) = 1
     /\ Return(ErrorOutcome(err), FALSE)
     /\ walks' = <<>>
     /\ segRet' = <<>>
  \/ /\ Len(walks) > 1
     /\ SegmentReturns(Failed(err))
     /\ UNCHANGED <<evalRet, log>>

\* A rule could not be evaluated.
RuleFails(err) ==
  \/ /\ Len(walks) = 1
     /\ Return(ErrorOutcome(err), FALSE)
     /\ walks' = <<>>
     /\ segRet' = <<>>
  \/ /\ Len(walks) > 1
     /\ SegmentReturns(Failed("malformedSegment"))
     /\ UNCHANGED <<evalRet, log>>

NextClause == [walks EXCEPT ![Len(walks)].clause = @ + 1, ![Len(walks)].value = 1]
NextRule == [walks EXCEPT ![Len(walks)].rule = @ + 1, ![Len(walks)].clause = 1,
                          ![Len(walks)].value = 1]
\* Mutant: the loop over the values of a clause does not advance.
SameValue == walks
NextValue == [walks EXCEPT ![Len(walks)].value = @ + 1]

\* clauseMatchesContext() returns: on to the next clause, or the next rule, or an error.
ClauseReturns(r) ==
  \/ /\ r.err # NoError
     /\ RuleFails(r.err)
  \/ /\ r.err = NoError
     /\ walks' = IF r.match THEN NextClause ELSE NextRule
     /\ segRet' = <<>>
     /\ UNCHANGED <<evalRet, log>>

------------------------------------------------------------------------------
(***************************************************************************)
(* Evaluate: the caller passes a flag, usually one it has just read.       *)
(***************************************************************************)
RejectContext ==
  /\ scopes = <<>> /\ result = <<>>
  /\ ~context.valid
  /\ result' = <<[detail |-> ErrorDetail("USER_NOT_SPECIFIED"), isExperiment |-> FALSE]>>
  /\ UNCHANGED <<stores, context, scopes, walks, evalRet, segRet, events, consults, log>>

Evaluate(flag) ==
  /\ scopes = <<>> /\ result = <<>>
  /\ context.valid
  /\ scopes' = <<NewScope(flag, <<>>, NoStatus, NoMemberships)>>
  /\ UNCHANGED <<stores, context, walks, evalRet, segRet, result, events, consults, log>>

ReturnResult ==
  /\ Len(scopes) = 1
  /\ IsDefined(evalRet)
  /\ LET detail == [evalRet[1].detail EXCEPT !.reason.bigSegmentsStatus = Scope.bigSegmentsStatus]
     IN  result' = <<[detail |-> detail,
                      isExperiment |-> IsExperiment(Scope.flag, detail.reason)]>>
  /\ scopes' = <<>>
  /\ evalRet' = <<>>
  /\ UNCHANGED <<stores, context, walks, segRet, events, consults, log>>

(***************************************************************************)
(* evaluate() up to the rules: off, prerequisites, targets.                *)
(***************************************************************************)
BeforeRules == scopes # <<>> /\ evalRet = <<>> /\ walks = <<>>
AtPrerequisite ==
  BeforeRules /\ Scope.flag.on /\ Scope.prereq <= Len(Scope.flag.prerequisites)
AfterPrerequisites ==
  BeforeRules /\ Scope.flag.on /\ Scope.prereq > Len(Scope.flag.prerequisites)

FlagIsOff ==
  /\ BeforeRules
  /\ ~Scope.flag.on
  /\ Return(GetOffValue(Scope.flag, NewReason("OFF")), TRUE)
  /\ UNCHANGED <<stores, context, scopes, walks, segRet, result, events, consults>>

Prereq == Scope.flag.prerequisites[Scope.prereq]
\* Mutant: the flag itself is left out of the chain.
ChainWithoutThisFlag == Scope.prerequisiteFlagChain
\* Mutant: the chain keeps the prerequisites that were evaluated before.
ChainWithSiblings ==
  Append(Scope.prerequisiteFlagChain, Scope.flag.key)
    \o [i \in 1..(Scope.prereq - 1) |-> Scope.flag.prerequisites[i].key]
ExtendedChain == Append(Scope.prerequisiteFlagChain, Scope.flag.key)

\* Mutant: wait for the missing flag.
RetryMissingPrerequisite ==
  /\ AtPrerequisite
  /\ flagData[Prereq.key] = <<>>
  /\ UNCHANGED vars

\* GetFeatureFlag finds no flag: no event.
PrerequisiteMissing ==
  /\ AtPrerequisite
  /\ flagData[Prereq.key] = <<>>
  /\ Return(GetOffValue(Scope.flag, PrerequisiteFailedReason(Prereq.key)), TRUE)
  /\ UNCHANGED <<stores, context, scopes, walks, segRet, result, events, consults>>

\* GetFeatureFlag finds a flag that is already being evaluated.
PrerequisiteCircular ==
  /\ AtPrerequisite
  /\ IsDefined(flagData[Prereq.key])
  /\ flagData[Prereq.key][1].key \in ToSet(ExtendedChain)
  /\ Return(ErrorOutcome("circularPrereq"), FALSE)
  /\ UNCHANGED <<stores, context, scopes, walks, segRet, result, events, consults>>

\* The new scope starts as a copy of this one, with another flag.
EvaluatePrerequisite ==
  /\ AtPrerequisite
  /\ IsDefined(flagData[Prereq.key])
  /\ LET flag == flagData[Prereq.key][1]
     IN  /\ flag.key \notin ToSet(ExtendedChain)
         /\ scopes' = Append(scopes, NewScope(flag, ExtendedChain,
                         Scope.bigSegmentsStatus, Scope.bigSegmentsMemberships))
  /\ UNCHANGED <<stores, context, walks, evalRet, segRet, result, events, consults, log>>

TargetsMatch ==
  /\ AfterPrerequisites
  /\ LET variation == AnyTargetMatchVariation(Scope.flag)
     IN  /\ IsDefined(variation)
         /\ Return(GetVariation(Scope.flag, variation[1], NewReason("TARGET_MATCH")), TRUE)
  /\ UNCHANGED <<stores, context, scopes, walks, segRet, result, events, consults>>

StartRules ==
  /\ AfterPrerequisites
  /\ AnyTargetMatchVariation(Scope.flag) = <<>>
  /\ walks' = <<NewWalk(Scope.flag, <<>>, 1)>>
  /\ UNCHANGED <<stores, context, scopes, evalRet, segRet, result, events, consults, log>>

(***************************************************************************)
(* A prerequisite has been evaluated: back in checkPrerequisites of the    *)
(* caller's scope, which takes over the status the nested scope ended with.*)
(***************************************************************************)
PrerequisiteReturns == Len(scopes) > 1 /\ IsDefined(evalRet)
\* Mutant: the status of the nested scope is dropped.
CallersStatus == Caller.bigSegmentsStatus

MergedStatus ==
  ComputeUpdatedBigSegmentsStatus(Caller.bigSegmentsStatus, Scope.bigSegmentsStatus)
\* Mutant: the caller takes over the memberships too.
AfterPopWithMemberships(step) ==
  [Front(scopes) EXCEPT ![Len(scopes) - 1].bigSegmentsStatus = MergedStatus,
                        ![Len(scopes) - 1].bigSegmentsMemberships = Scope.bigSegmentsMemberships,
                        ![Len(scopes) - 1].prereq = @ + step]

AfterPop(step) ==
  [Front(scopes) EXCEPT ![Len(scopes) - 1].bigSegmentsStatus = MergedStatus,
                        ![Len(scopes) - 1].prereq = @ + step]

CallerPrereq == Caller.flag.prerequisites[Caller.prereq]
\* Mutant: the off variation of a flag that is off is good enough.
VariationIsAsRequired ==
  LET detail == evalRet[1].detail
  IN  ~IsDefaultValue(detail) /\ detail.variation[1] = CallerPrereq.variation

PrerequisiteMet ==
  LET detail == evalRet[1].detail
  IN  /\ Scope.flag.on
      /\ ~IsDefaultValue(detail)
      /\ detail.variation[1] = CallerPrereq.variation

PrerequisiteFlagEvent ==
  [targetFlagKey    |-> Caller.flag.key,
   prerequisiteFlag |-> Scope.flag,
   detail           |-> evalRet[1].detail,
   isExperiment     |-> IsExperiment(Scope.flag, evalRet[1].detail.reason),
   path             |-> Path]

\* Mutant: events are handed over in reverse.
RecordEventInFront ==
  events' = IF RecorderProvided THEN <<PrerequisiteFlagEvent>> \o events ELSE events
RecordEvent ==
  events' = IF RecorderProvided THEN Append(events, PrerequisiteFlagEvent) ELSE events

\* Mutant: the second result of evaluatePrerequisite is ignored.
AnyPrerequisiteValid == TRUE
PrerequisiteValid == evalRet[1].ok

\* The nested evaluation gave up: so does this one, without an event.
PrerequisiteInvalid ==
  /\ PrerequisiteReturns
  /\ ~PrerequisiteValid
  /\ scopes' = AfterPop(0)
  /\ evalRet' = <<[detail |-> ErrorDetail("MALFORMED_FLAG"), ok |-> FALSE]>>
  /\ UNCHANGED <<stores, context, walks, segRet, result, events, consults, log>>

PrerequisitePassed ==
  /\ PrerequisiteReturns
  /\ PrerequisiteValid
  /\ PrerequisiteMet
  /\ RecordEvent
  /\ scopes' = AfterPop(1)
  /\ evalRet' = <<>>
  /\ UNCHANGED <<stores, context, walks, segRet, result, consults, log>>

PrerequisiteFailed ==
  /\ PrerequisiteReturns
  /\ PrerequisiteValid
  /\ ~PrerequisiteMet
  /\ RecordEvent
  /\ scopes' = AfterPop(0)
  /\ LET outcome == GetOffValue(Caller.flag, PrerequisiteFailedReason(CallerPrereq.key))
     IN  /\ evalRet' = <<[detail |-> outcome.detail, ok |-> TRUE]>>
         /\ log' = IF outcome.err = NoError
                   THEN log
                   ELSE Append(log, [flag |-> Caller.flag.key, err |-> outcome.err])
  /\ UNCHANGED <<stores, context, walks, segRet, result, consults>>

------------------------------------------------------------------------------
(***************************************************************************)
(* Rules, of the running flag or of a segment.                             *)
(***************************************************************************)
Walking == walks # <<>> /\ segRet = <<>>
InRules == Walking /\ Walk.rule >= 1
AtRule == InRules /\ Walk.rule <= Len(Walk.src.rules)
Rule == Walk.src.rules[Walk.rule]
AtClause == AtRule /\ Walk.clause <= Len(Rule.clauses)
CurrentClause == Rule.clauses[Walk.clause]
InFlagRules == Len(walks) = 1

\* All clauses of a flag rule match.
FlagRuleMatches ==
  /\ AtRule /\ Walk.clause > Len(Rule.clauses)
  /\ InFlagRules
  /\ Return(GetValueForVariationOrRollout(Scope.flag, Rule.vr, RuleMatchReason(Walk.rule - 1)),
            TRUE)
  /\ walks' = <<>>
  /\ UNCHANGED <<stores, context, scopes, segRet, result, events, consults>>

Fallthrough ==
  /\ InRules /\ Walk.rule > Len(Walk.src.rules)
  /\ InFlagRules
  /\ Return(GetValueForVariationOrRollout(Scope.flag, Scope.flag.fallthrough,
                                          NewReason("FALLTHROUGH")), TRUE)
  /\ walks' = <<>>
  /\ UNCHANGED <<stores, context, scopes, segRet, result, events, consults>>

\* All clauses of a segment rule match: its weight decides.
SegmentRuleMatches ==
  /\ AtRule /\ Walk.clause > Len(Rule.clauses)
  /\ ~InFlagRules
  /\ LET r == SegmentRuleWeightMatches(Rule, context, Walk.src.key, Walk.src.salt)
     IN  \/ /\ r.err # NoError
            /\ RuleFails(r.err)
         \/ /\ r.err = NoError /\ r.match
            /\ SegmentReturns(Matched(TRUE))
            /\ UNCHANGED <<evalRet, log>>
         \/ /\ r.err = NoError /\ ~r.match
            /\ walks' = NextRule
            /\ UNCHANGED <<evalRet, segRet, log>>
  /\ UNCHANGED <<stores, context, scopes, result, events, consults>>

SegmentRulesExhausted ==
  /\ InRules /\ Walk.rule > Len(Walk.src.rules)
  /\ ~InFlagRules
  /\ SegmentReturns(Matched(FALSE))
  /\ UNCHANGED <<stores, context, scopes, evalRet, result, events, consults, log>>

PlainClause ==
  /\ AtClause
  /\ CurrentClause.op # "segmentMatch"
  /\ ClauseReturns(ClauseMatchesContextNoSegments(CurrentClause, context))
  /\ UNCHANGED <<stores, context, scopes, result, events, consults>>

------------------------------------------------------------------------------
(***************************************************************************)
(* Segment match clauses: each value names a segment.                      *)
(***************************************************************************)
AtSegmentClause == AtClause /\ CurrentClause.op = "segmentMatch"
AtSegmentValue == AtSegmentClause /\ Walk.value <= Len(CurrentClause.values)
CurrentValue == CurrentClause.values[Walk.value]

\* What GetSegment returns for a value; it is only called for a string.
SegmentFound(v) ==
  IF IsString(v) /\ v[2] \in SegmentKeys THEN segmentData[v[2]] ELSE <<>>

NoSuchSegment ==
  /\ AtSegmentValue
  /\ SegmentFound(CurrentValue) = <<>>
  /\ walks' = NextValue
  /\ UNCHANGED <<stores, context, scopes, evalRet, segRet, result, events, consults, log>>

SegmentCircular ==
  /\ AtSegmentValue
  /\ LET found == SegmentFound(CurrentValue)
     IN  IsDefined(found) /\ found[1].key \in ToSet(Walk.segmentChain)
  /\ ClauseReturns(Failed("circularSegment"))
  /\ UNCHANGED <<stores, context, scopes, result, events, consults>>

EnterSegment ==
  /\ AtSegmentValue
  /\ LET found == SegmentFound(CurrentValue)
     IN  /\ IsDefined(found)
         /\ found[1].key \notin ToSet(Walk.segmentChain)
         /\ walks' = Append(walks, NewWalk(found[1], Append(Walk.segmentChain, found[1].key), 0))
  /\ UNCHANGED <<stores, context, scopes, evalRet, segRet, result, events, consults, log>>

SegmentClauseExhausted ==
  /\ AtSegmentClause
  /\ Walk.value > Len(CurrentClause.values)
  /\ ClauseReturns(Matched(CurrentClause.negate))
  /\ UNCHANGED <<stores, context, scopes, result, events, consults>>

\* Back in the clause that referred to the segment.
SegmentReturned ==
  /\ IsDefined(segRet)
  /\ LET r == segRet[1]
     IN  \/ /\ r.err # NoError
            /\ ClauseReturns(r)
         \/ /\ r.err = NoError /\ r.match
            /\ ClauseReturns(Matched(~CurrentClause.negate))
         \/ /\ r.err = NoError /\ ~r.match
            /\ walks' = NextValue
            /\ segRet' = <<>>
            /\ UNCHANGED <<evalRet, log>>
  /\ UNCHANGED <<stores, context, scopes, result, events, consults>>

------------------------------------------------------------------------------
(***************************************************************************)
(* Entering a segment, before its rules.                                   *)
(***************************************************************************)
Entering == Walking /\ Walk.rule = 0
\* Mutant: a context that is excluded may still match a rule.
DecidedIfIncluded(verdict) ==
  \/ /\ verdict = <<TRUE>>
     /\ SegmentReturns(Matched(TRUE))
  \/ /\ verdict # <<TRUE>>
     /\ walks' = NextRule
     /\ UNCHANGED segRet

Decided(verdict) ==
  \/ /\ IsDefined(verdict)
     /\ SegmentReturns(Matched(verdict[1]))
  \/ /\ verdict = <<>>
     /\ walks' = NextRule
     /\ UNCHANGED segRet

ListedSegment ==
  /\ Entering
  /\ ~Walk.src.unbounded
  /\ Decided(SegmentListsVerdict(Walk.src))
  /\ UNCHANGED <<stores, context, scopes, evalRet, result, events, consults, log>>

\* The data came from a store that dropped the generation: neither query nor rules.
BigSegmentWithoutGeneration ==
  /\ Entering
  /\ Walk.src.unbounded /\ Walk.src.generation = <<>>
  /\ scopes' = SetStatus("NOT_CONFIGURED")
  /\ Consulted(<<>>, "NOT_CONFIGURED")
  /\ SegmentReturns(Matched(FALSE))
  /\ UNCHANGED <<stores, context, evalRet, result, events, log>>

BigSegmentKey == GetApplicableContextKeyByKind(context, Walk.src.unboundedContextKind)
AtBigSegment == Entering /\ Walk.src.unbounded /\ IsDefined(Walk.src.generation)

BigSegmentOfOtherKind ==
  /\ AtBigSegment
  /\ BigSegmentKey = <<>>
  /\ SegmentReturns(Matched(FALSE))
  /\ UNCHANGED <<stores, context, scopes, evalRet, result, events, consults, log>>

MembershipCached ==
  /\ AtBigSegment /\ IsDefined(BigSegmentKey)
  /\ BigSegmentKey[1] \in DOMAIN Scope.bigSegmentsMemberships
  /\ Decided(CheckMembership(Scope.bigSegmentsMemberships[BigSegmentKey[1]],
                             MakeBigSegmentRef(Walk.src)))
  /\ UNCHANGED <<stores, context, scopes, evalRet, result, events, consults, log>>

\* Mutant: a nil membership is not cached.
CacheUnlessNil(memberships, key, membership) ==
  IF IsDefined(membership) THEN key :> membership @@ memberships ELSE memberships
CacheMembership(memberships, key, membership) ==
  [k \in DOMAIN memberships \cup {key} |->
     IF k = key THEN membership ELSE memberships[k]]

\* Mutant: the status stays as it was.
BigSegmentsNotConfiguredUnseen ==
  /\ AtBigSegment /\ IsDefined(BigSegmentKey)
  /\ BigSegmentKey[1] \notin DOMAIN Scope.bigSegmentsMemberships
  /\ ~ProviderConfigured
  /\ Consulted(<<>>, "NOT_CONFIGURED")
  /\ walks' = NextRule
  /\ UNCHANGED <<stores, context, scopes, evalRet, segRet, result, events, log>>

BigSegmentsNotConfigured ==
  /\ AtBigSegment /\ IsDefined(BigSegmentKey)
  /\ BigSegmentKey[1] \notin DOMAIN Scope.bigSegmentsMemberships
  /\ ~ProviderConfigured
  /\ scopes' = SetStatus("NOT_CONFIGURED")
  /\ Consulted(<<>>, "NOT_CONFIGURED")
  /\ walks' = NextRule
  /\ UNCHANGED <<stores, context, evalRet, segRet, result, events, log>>

QueryMembership ==
  /\ AtBigSegment /\ IsDefined(BigSegmentKey)
  /\ BigSegmentKey[1] \notin DOMAIN Scope.bigSegmentsMemberships
  /\ ProviderConfigured
  /\ LET key    == BigSegmentKey[1]
         answer == bigSegmentData[key]
     IN  /\ scopes' = [SetStatus(ComputeUpdatedBigSegmentsStatus(
                          Scope.bigSegmentsStatus, answer.status))
                         EXCEPT ![Len(scopes)].bigSegmentsMemberships =
                           CacheMembership(@, key, answer.membership)]
         /\ Consulted(<<key>>, answer.status)
         /\ Decided(CheckMembership(answer.membership, MakeBigSegmentRef(Walk.src)))
  /\ UNCHANGED <<stores, context, evalRet, result, events, log>>

------------------------------------------------------------------------------
(***************************************************************************)
(* The environment: other goroutines put new versions of flags, segments   *)
(* and memberships in the stores while the evaluation runs.                *)
(***************************************************************************)
MayChange(store) == store \in Changing /\ scopes # <<>>
evaluation == <<context, scopes, walks, evalRet, segRet, result, events, consults, log>>

FlagVersions(key) == {<<>>} \cup {<<f>> : f \in {g \in Flags : g.key = key}}
SegmentVersions(key) == {<<>>} \cup {<<s>> : s \in {t \in Segments : t.key = key}}

UpdateFlag(key) ==
  /\ MayChange("flags")
  /\ \E f \in FlagVersions(key) \ {flagData[key]} : flagData' = [flagData EXCEPT ![key] = f]
  /\ updated' = TRUE
  /\ UNCHANGED <<segmentData, bigSegmentData, evaluation>>

UpdateSegment(key) ==
  /\ MayChange("segments")
  /\ \E s \in SegmentVersions(key) \ {segmentData[key]} :
       segmentData' = [segmentData EXCEPT ![key] = s]
  /\ updated' = TRUE
  /\ UNCHANGED <<flagData, bigSegmentData, evaluation>>

UpdateBigSegments(key) ==
  /\ MayChange("bigSegments")
  /\ \E a \in BigSegmentAnswers \ {bigSegmentData[key]} :
       bigSegmentData' = [bigSegmentData EXCEPT ![key] = a]
  /\ updated' = TRUE
  /\ UNCHANGED <<flagData, segmentData, evaluation>>

------------------------------------------------------------------------------
(***************************************************************************)
(* The specification.                                                      *)
(***************************************************************************)
Init ==
  /\ flagData \in {d \in [FlagKeys -> {<<>>} \cup {<<f>> : f \in Flags}] :
                     /\ \A key \in FlagKeys : d[key] \in FlagVersions(key)
                     /\ \E key \in FlagKeys : IsDefined(d[key])}
  /\ segmentData \in {d \in [SegmentKeys -> {<<>>} \cup {<<s>> : s \in Segments}] :
                        \A key \in SegmentKeys : d[key] \in SegmentVersions(key)}
  /\ bigSegmentData \in [ContextKeys -> BigSegmentAnswers]
  /\ updated = FALSE
  /\ context \in Contexts
  /\ scopes = <<>> /\ walks = <<>>
  /\ evalRet = <<>> /\ segRet = <<>> /\ result = <<>>
  /\ events = <<>> /\ consults = <<>> /\ log = <<>>

EvaluateSome == \E key \in FlagKeys : IsDefined(flagData[key]) /\ Evaluate(flagData[key][1])

FlagStep ==
  \/ FlagIsOff \/ PrerequisiteMissing \/ PrerequisiteCircular \/ EvaluatePrerequisite
  \/ PrerequisiteInvalid \/ PrerequisitePassed \/ PrerequisiteFailed
  \/ TargetsMatch \/ StartRules \/ ReturnResult

RuleStep ==
  \/ FlagRuleMatches \/ Fallthrough \/ SegmentRuleMatches \/ SegmentRulesExhausted
  \/ PlainClause \/ NoSuchSegment \/ SegmentCircular \/ EnterSegment
  \/ SegmentClauseExhausted \/ SegmentReturned

BigSegmentStep ==
  \/ ListedSegment \/ BigSegmentWithoutGeneration \/ BigSegmentOfOtherKind
  \/ MembershipCached \/ BigSegmentsNotConfigured \/ QueryMembership

Step == FlagStep \/ RuleStep \/ BigSegmentStep

StoreUpdate ==
  \/ \E key \in FlagKeys : UpdateFlag(key)
  \/ \E key \in SegmentKeys : UpdateSegment(key)
  \/ \E key \in ContextKeys : UpdateBigSegments(key)

\* Evaluate has returned; the call is over.
Returned == result # <<>> /\ UNCHANGED vars

Next == RejectContext \/ EvaluateSome \/ Step \/ StoreUpdate \/ Returned

\* Evaluate runs in one goroutine that the scheduler keeps running.
Spec == Init /\ [][Next]_vars /\ WF_vars(Step)

------------------------------------------------------------------------------
(***************************************************************************)
(* Types.                                                                  *)
(***************************************************************************)
Memberships == {a.membership : a \in BigSegmentAnswers}
ScopeRecord ==
  [flag: Flags, prerequisiteFlagChain: Seq(FlagKeys), prereq: Nat \ {0},
   bigSegmentsStatus: BigSegmentsStatus,
   bigSegmentsMemberships: UNION {[K -> Memberships] : K \in SUBSET ContextKeys}]
WalkRecord ==
  [src: Flags \cup Segments, segmentChain: Seq(SegmentKeys), rule: Nat,
   clause: Nat \ {0}, value: Nat \ {0}]
EventRecord ==
  [targetFlagKey: FlagKeys, prerequisiteFlag: Flags, detail: Detail, isExperiment: BOOLEAN,
   path: Seq(Nat)]
ConsultRecord ==
  [path: Seq(Nat), contextKey: Optional(ContextKeys), status: ProviderStatus]

\* Every variable holds the kind of value that the code's types allow.
TypeOK ==
  /\ flagData \in [FlagKeys -> Optional(Flags)]
  /\ segmentData \in [SegmentKeys -> Optional(Segments)]
  /\ bigSegmentData \in [ContextKeys -> BigSegmentAnswers]
  /\ updated \in BOOLEAN
  /\ context \in Contexts
  /\ scopes \in Seq(ScopeRecord)
  /\ walks \in Seq(WalkRecord)
  /\ evalRet \in Optional([detail: Detail, ok: BOOLEAN])
  /\ segRet \in Optional(MatchResult)
  /\ result \in Optional([detail: Detail, isExperiment: BOOLEAN])
  /\ events \in Seq(EventRecord)
  /\ consults \in Seq(ConsultRecord)
  /\ log \in Seq([flag: FlagKeys, err: Errors])
==============================================================================
