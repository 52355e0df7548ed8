---------------------------- MODULE MeaningProofs ----------------------------
(***************************************************************************)
(* What an evaluation means.  What it says of prerequisites, that one was  *)
(* met, that one failed, or that they go round in a circle; that a call of *)
(* Evaluate, with its stack of scopes and walks, implements                *)
(* EvaluationContract; that the members of segments follow from their      *)
(* lists, big segment memberships and rules; and that a flag returns what  *)
(* its prerequisites, targets and rules declare under that reading.        *)
(***************************************************************************)
EXTENDS EvaluatorProofs, RecursionFacts

------------------------------------------------------------------------------
(***************************************************************************)
(* Where verdicts come from.  Only a few steps say that a prerequisite     *)
(* failed or that there is a circle.                                       *)
(***************************************************************************)
\* The off value is returned for the reason that was given, or there is an error.
LEMMA OffValueReasons ==
  ASSUME NEW flag, NEW key
  PROVE  LET outcome == GetOffValue(flag, PrerequisiteFailedReason(key))
         IN  /\ outcome.err \in {NoError, "badVariation"}
             /\ outcome.detail.reason.kind = "PREREQUISITE_FAILED" =>
                  outcome.detail.reason.prerequisiteKey = key
<1>1. /\ PrerequisiteFailedReason(key).kind = "PREREQUISITE_FAILED"
      /\ PrerequisiteFailedReason(key).prerequisiteKey = key
  BY DEF PrerequisiteFailedReason, NewReason
<1>2. ErrorOutcome("badVariation").detail.reason.kind = "ERROR"
  BY DEF ErrorOutcome, ErrorDetail, DefaultDetail, ErrorReason, NewReason
<1> QED BY <1>1, <1>2 DEF GetOffValue, GetVariation, Outcome, NewDetail, DefaultDetail, ErrorOutcome

\* The outcome of a return.
LEMMA ReturnedOutcome ==
  ASSUME TypeInv, NEW outcome, NEW ok, Return(outcome, ok)
  PROVE  /\ evalRet'[1].detail = outcome.detail
         /\ outcome.err = NoError => UNCHANGED log
         /\ outcome.err # NoError =>
              \E entry : log' = Append(log, entry) /\ entry.err = outcome.err
BY DEF Return

AddsOnly(errs) ==
  UNCHANGED log \/ \E entry : log' = Append(log, entry) /\ entry.err \in errs
OtherErrors == EvalErrors \ {"circularPrereq"}

\* Every step is one of these, as far as verdicts are concerned.
LEMMA VerdictCases ==
  ASSUME EvaluationInv, [Next]_vars
  PROVE  \/ PrerequisiteMissing /\ AddsOnly(OtherErrors)
         \/ PrerequisiteFailed /\ AddsOnly(OtherErrors)
         \/ PrerequisiteCircular
         \/ /\ \/ UNCHANGED evalRet \/ evalRet' = <<>>
               \/ evalRet'[1].detail.reason.kind # "PREREQUISITE_FAILED"
            /\ AddsOnly(OtherErrors)
<1>1. TypeInv /\ SegmentNesting /\ ErrorInv
  BY DEF EvaluationInv
<1>2. "badVariation" \in OtherErrors
  BY DEF OtherErrors, EvalErrors
<1>3. CASE ReturnsNoVerdict
  <2>1. PICK outcome, ok : /\ SoundOutcome(Scope.flag, outcome, ok) /\ NoVerdict(outcome)
                           /\ Return(outcome, ok)
    BY <1>3 DEF ReturnsNoVerdict
  <2>2. evalRet'[1].detail.reason.kind # "PREREQUISITE_FAILED"
    BY <1>1, <2>1, ReturnedOutcome DEF NoVerdict
  <2>3. outcome.err # NoError => outcome.err \in OtherErrors
    BY <2>1 DEF SoundOutcome, NoVerdict, OtherErrors
  <2>4. AddsOnly(OtherErrors)
    BY <1>1, <2>1, <2>3, ReturnedOutcome DEF AddsOnly
  <2> QED BY <2>2, <2>4
<1>4. CASE GoesOn
  BY <1>4 DEF GoesOn, AddsOnly
<1>5. CASE RuleStep \/ FlagIsOff \/ TargetsMatch \/ StartRules
  BY <1>1, <1>3, <1>4, <1>5, RuleStepsInside, PlainFlagSteps
<1>6. CASE PrerequisiteMissing
  <2> DEFINE outcome == GetOffValue(Scope.flag, PrerequisiteFailedReason(Prereq.key))
  <2>1. Return(outcome, TRUE)
    BY <1>6 DEF PrerequisiteMissing
  <2>2. outcome.err \in {NoError, "badVariation"}
    BY OffValueReasons
  <2> HIDE DEF outcome
  <2>3. AddsOnly(OtherErrors)
    BY <1>1, <1>2, <2>1, <2>2, ReturnedOutcome DEF AddsOnly
  <2> QED BY <1>6, <2>3
<1>7. CASE PrerequisiteFailed
  <2> DEFINE outcome == GetOffValue(Caller.flag, PrerequisiteFailedReason(CallerPrereq.key))
  <2>1. log' = IF outcome.err = NoError
               THEN log
               ELSE Append(log, [flag |-> Caller.flag.key, err |-> outcome.err])
    BY <1>7 DEF PrerequisiteFailed
  <2>2. outcome.err \in {NoError, "badVariation"}
    BY OffValueReasons
  <2> HIDE DEF outcome
  <2>3. AddsOnly(OtherErrors)
    BY <1>2, <2>1, <2>2 DEF AddsOnly
  <2> QED BY <1>7, <2>3
<1>8. CASE PrerequisiteInvalid
  <2>1. /\ evalRet'[1].detail = ErrorDetail("MALFORMED_FLAG")
        /\ UNCHANGED log
    BY <1>8 DEF PrerequisiteInvalid
  <2>2. ErrorDetail("MALFORMED_FLAG").reason.kind = "ERROR"
    BY DEF ErrorDetail, DefaultDetail, ErrorReason, NewReason
  <2>3. evalRet'[1].detail.reason.kind # "PREREQUISITE_FAILED"
    BY <2>1, <2>2
  <2> QED BY <2>1, <2>3 DEF AddsOnly
<1>9. CASE BigSegmentStep
  BY <1>1, <1>9, BigSegmentStepsInside DEF AddsOnly
<1>10. CASE EvaluatePrerequisite \/ PrerequisitePassed \/ ReturnResult
  BY <1>10 DEF EvaluatePrerequisite, PrerequisitePassed, ReturnResult, AddsOnly
<1>11. CASE ~Step
  <2>1. UNCHANGED <<evalRet, log>>
    BY <1>11 DEF Next, RejectContext, EvaluateSome, Evaluate, StoreUpdate, UpdateFlag,
                 UpdateSegment, UpdateBigSegments, Returned, vars, evaluation
  <2> QED BY <2>1 DEF AddsOnly
<1> QED BY <1>5, <1>6, <1>7, <1>8, <1>9, <1>10, <1>11 DEF Step, FlagStep

------------------------------------------------------------------------------
(***************************************************************************)
(* The stack and the data store.  Every scope but the running one waits    *)
(* for the flag of the next scope, which its current prerequisite names.   *)
(* As long as nobody updates a store, the flags on the stack are those the *)
(* data store holds.                                                       *)
(***************************************************************************)
StoreIsKeyed == \A key \in FlagKeys : IsDefined(flagData[key]) => flagData[key][1].key = key
WaitsForNext ==
  \A i \in 1..(Len(scopes) - 1) :
    /\ scopes[i].flag.on
    /\ scopes[i].flag.prerequisites[scopes[i].prereq].key = scopes[i + 1].flag.key
StackIsCurrent ==
  ~updated => \A i \in 1..Len(scopes) : flagData[scopes[i].flag.key] = <<scopes[i].flag>>
StackInv == StoreIsKeyed /\ WaitsForNext /\ StackIsCurrent

\* An update of a store is noted, and keeps flags under their own keys.
LEMMA FlagDataStep ==
  ASSUME TypeInv, StoreIsKeyed, [Next]_vars
  PROVE  /\ StoreIsKeyed'
         /\ ~updated' => ~updated /\ UNCHANGED flagData
<1>1. flagData \in [FlagKeys -> Optional(Flags)]
  BY DEF TypeInv, TypeOK
<1>2. CASE \E key \in FlagKeys : UpdateFlag(key)
  <2>1. PICK key \in FlagKeys : UpdateFlag(key)
    BY <1>2
  <2>2. PICK f \in FlagVersions(key) : flagData' = [flagData EXCEPT ![key] = f] /\ updated' = TRUE
    BY <2>1 DEF UpdateFlag
  <2>3. IsDefined(f) => f[1].key = key
    BY DEF FlagVersions, IsDefined
  <2> QED BY <1>1, <2>2, <2>3 DEF StoreIsKeyed
<1>3. CASE UNCHANGED <<flagData, updated>>
  BY <1>3 DEF StoreIsKeyed
<1>4. CASE UNCHANGED flagData /\ updated'
  BY <1>4 DEF StoreIsKeyed
<1>5. \/ \E key \in FlagKeys : UpdateFlag(key)
      \/ UNCHANGED <<flagData, updated>>
      \/ UNCHANGED flagData /\ updated'
  <2>1. StoreUpdate => \/ \E key \in FlagKeys : UpdateFlag(key)
                       \/ UNCHANGED flagData /\ updated'
    BY DEF StoreUpdate, UpdateSegment, UpdateBigSegments
  <2>2. ~StoreUpdate => UNCHANGED <<flagData, updated>>
    <3>1. FlagStep => UNCHANGED <<flagData, updated>>
      BY DEF FlagStep, stores, FlagIsOff, PrerequisiteMissing, PrerequisiteCircular,
             EvaluatePrerequisite, PrerequisiteInvalid, PrerequisitePassed, PrerequisiteFailed,
             TargetsMatch, StartRules, ReturnResult
    <3>2. RuleStep => UNCHANGED <<flagData, updated>>
      BY DEF RuleStep, stores, FlagRuleMatches, Fallthrough, SegmentRuleMatches,
             SegmentRulesExhausted, PlainClause, NoSuchSegment, SegmentCircular, EnterSegment,
             SegmentClauseExhausted, SegmentReturned
    <3>3. BigSegmentStep => UNCHANGED <<flagData, updated>>
      BY DEF BigSegmentStep, stores, ListedSegment, BigSegmentWithoutGeneration,
             BigSegmentOfOtherKind, MembershipCached, BigSegmentsNotConfigured, QueryMembership
    <3> QED BY <3>1, <3>2, <3>3
            DEF Next, Step, RejectContext, EvaluateSome, Evaluate, Returned, vars, stores
  <2> QED BY <2>1, <2>2
<1> QED BY <1>2, <1>3, <1>4, <1>5

\* No deeper stack with the same flags, of which all but the last are where they were.
StackOfSame ==
  /\ Len(scopes') \in Nat /\ Len(scopes') <= Len(scopes)
  /\ \A i \in 1..Len(scopes') : scopes'[i].flag = scopes[i].flag
  /\ \A i \in 1..(Len(scopes') - 1) : scopes'[i].prereq = scopes[i].prereq

\* The other steps start the evaluation of a flag.
LEMMA StackCases ==
  ASSUME EvaluationInv, [Next]_vars
  PROVE  StackOfSame \/ EvaluatePrerequisite \/ EvaluateSome
<1>1. TypeInv /\ scopes \in Seq(ScopeRecord) /\ Len(scopes) \in Nat
  BY DEF EvaluationInv, TypeInv, TypeOK
<1>2. CASE SameStack
  BY <1>1, <1>2 DEF SameStack, StackOfSame
<1>3. CASE BigSegmentStep
  BY <1>1, <1>3, PositionsStay DEF StackOfSame
<1>4. ASSUME NEW step \in {0, 1}, Popped(step) PROVE StackOfSame
  <2>1. /\ Len(scopes') \in Nat \ {0} /\ Len(scopes) = Len(scopes') + 1
        /\ \A i \in 1..Len(scopes') : scopes'[i].flag = scopes[i].flag
        /\ \A i \in 1..(Len(scopes') - 1) : scopes'[i] = scopes[i]
    BY <1>1, <1>4, PositionsPopped DEF Popped
  <2> QED BY <1>1, <2>1 DEF StackOfSame
<1>5. CASE ReturnResult \/ RejectContext
  <2>1. scopes' = <<>>
    BY <1>5 DEF ReturnResult, RejectContext
  <2> QED BY <1>1, <2>1 DEF StackOfSame
<1> QED BY <1>2, <1>3, <1>4, <1>5, TourCases

\* Prerequisites are looked up by their keys, one after the other.
LEMMA StackStep ==
  ASSUME EvaluationInv, [Next]_vars, StackInv
  PROVE  StackInv'
<1>1. /\ TypeInv /\ scopes \in Seq(ScopeRecord) /\ Len(scopes) \in Nat
      /\ flagData \in [FlagKeys -> Optional(Flags)]
  BY DEF EvaluationInv, TypeInv, TypeOK
<1>2. StoreIsKeyed' /\ (~updated' => ~updated /\ UNCHANGED flagData)
  BY <1>1, FlagDataStep DEF StackInv
<1>3. CASE StackOfSame
  <2>1. \A i \in 1..(Len(scopes') - 1) : /\ i \in 1..(Len(scopes) - 1)
                                         /\ i \in 1..Len(scopes') /\ i + 1 \in 1..Len(scopes')
    BY <1>1, <1>3 DEF StackOfSame
  <2>2. \A i \in 1..Len(scopes') : i \in 1..Len(scopes)
    BY <1>1, <1>3 DEF StackOfSame
  <2>3. WaitsForNext'
    <3>1. ASSUME NEW i \in 1..(Len(scopes') - 1)
          PROVE  /\ scopes'[i].flag.on
                 /\ scopes'[i].flag.prerequisites[scopes'[i].prereq].key = scopes'[i + 1].flag.key
      <4>1. /\ scopes'[i].flag = scopes[i].flag /\ scopes'[i].prereq = scopes[i].prereq
            /\ scopes'[i + 1].flag = scopes[i + 1].flag
        BY <1>3, <2>1 DEF StackOfSame
      <4> QED BY <2>1, <4>1 DEF StackInv, WaitsForNext
    <3> QED BY <3>1 DEF WaitsForNext
  <2>4. StackIsCurrent'
    <3>1. ASSUME ~updated', NEW i \in 1..Len(scopes')
          PROVE  flagData'[scopes'[i].flag.key] = <<scopes'[i].flag>>
      BY <1>2, <1>3, <2>2, <3>1 DEF StackInv, StackIsCurrent, StackOfSame
    <3> QED BY <3>1 DEF StackIsCurrent
  <2> QED BY <1>2, <2>3, <2>4 DEF StackInv
<1>4. CASE EvaluatePrerequisite
  <2> DEFINE n == Len(scopes)
             flag == flagData[Prereq.key][1]
  <2>1. /\ n \in Nat \ {0} /\ Len(scopes') = n + 1
        /\ \A i \in 1..n : scopes'[i] = scopes[i]
        /\ scopes'[n + 1].flag = flag
    BY <1>1, <1>4, PositionsPushed
  <2>2. /\ Prereq.key \in FlagKeys /\ IsDefined(flagData[Prereq.key])
        /\ Scope = scopes[n] /\ scopes[n].flag.on
    BY <1>1, <1>4, PrereqTypes, ScopeTypes
       DEF EvaluatePrerequisite, AtPrerequisite, BeforeRules, TypeInv
  <2>3. flag.key = Prereq.key /\ flagData[flag.key] = <<flag>>
    <3>1. flagData[Prereq.key] = <<flag>>
      BY <1>1, <2>2, OptionalValues
    <3> QED BY <2>2, <3>1 DEF StackInv, StoreIsKeyed
  <2>4. Prereq.key = scopes[n].flag.prerequisites[scopes[n].prereq].key
    BY <2>2 DEF Prereq
  <2> HIDE DEF flag
  <2>5. \A i \in 1..(Len(scopes') - 1) : i = n \/ (i \in 1..(n - 1) /\ i + 1 \in 1..n)
    BY <2>1
  <2>6. \A i \in 1..Len(scopes') : i = n + 1 \/ i \in 1..n
    BY <2>1
  <2>7. WaitsForNext'
    <3>1. ASSUME NEW i \in 1..(Len(scopes') - 1)
          PROVE  /\ scopes'[i].flag.on
                 /\ scopes'[i].flag.prerequisites[scopes'[i].prereq].key = scopes'[i + 1].flag.key
      <4>1. CASE i = n
        <5>1. n \in 1..n
          BY <2>1
        <5> QED BY <2>1, <2>2, <2>3, <2>4, <4>1, <5>1
      <4>2. CASE i \in 1..(n - 1) /\ i + 1 \in 1..n
        <5>1. i \in 1..n
          BY <2>1, <4>2
        <5> QED BY <2>1, <4>2, <5>1 DEF StackInv, WaitsForNext
      <4> QED BY <2>5, <4>1, <4>2
    <3> QED BY <3>1 DEF WaitsForNext
  <2>8. StackIsCurrent'
    <3>1. ASSUME ~updated', NEW i \in 1..Len(scopes')
          PROVE  flagData'[scopes'[i].flag.key] = <<scopes'[i].flag>>
      BY <1>2, <2>1, <2>3, <2>6, <3>1 DEF StackInv, StackIsCurrent
    <3> QED BY <3>1 DEF StackIsCurrent
  <2> QED BY <1>2, <2>7, <2>8 DEF StackInv
<1>5. CASE EvaluateSome
  <2>1. PICK key \in FlagKeys :
          /\ IsDefined(flagData[key])
          /\ scopes' = <<NewScope(flagData[key][1], <<>>, NoStatus, NoMemberships)>>
    BY <1>5 DEF EvaluateSome, Evaluate
  <2> DEFINE flag == flagData[key][1]
  <2>2. Len(scopes') = 1 /\ scopes'[1].flag = flag
    BY <2>1 DEF NewScope
  <2>3. flagData[key] = <<flag>> /\ flag.key = key
    BY <1>1, <2>1, OptionalValues DEF StackInv, StoreIsKeyed
  <2> HIDE DEF flag
  <2>4. WaitsForNext'
    BY <2>2 DEF WaitsForNext
  <2>5. StackIsCurrent'
    BY <1>2, <2>2, <2>3 DEF StackIsCurrent
  <2> QED BY <1>2, <2>4, <2>5 DEF StackInv
<1> QED BY <1>3, <1>4, <1>5, StackCases

LEMMA InitStack == Init => StackInv
BY DEF Init, StackInv, StoreIsKeyed, WaitsForNext, StackIsCurrent, FlagVersions, IsDefined

------------------------------------------------------------------------------
(***************************************************************************)
(* What the events say.  A requirement of some scope is met if an event at *)
(* its place shows it: the path of that event is the positions of the      *)
(* scopes below, then the position of the requirement.                     *)
(***************************************************************************)
PlaceOf(stack, i, n) == [k \in 1..i |-> IF k < i THEN stack[k].prereq ELSE n]
MetAt(stack, history, i, n) ==
  \E k \in 1..Len(history) :
    /\ history[k].path = PlaceOf(stack, i, n)
    /\ history[k].targetFlagKey = stack[i].flag.key
    /\ history[k].prerequisiteFlag.key = stack[i].flag.prerequisites[n].key
    /\ history[k].prerequisiteFlag.on
    /\ history[k].detail.variation = <<stack[i].flag.prerequisites[n].variation>>

\* This is how the property says it.
LEMMA PlacesArePaths ==
  ASSUME TypeInv, NEW i \in 1..Len(scopes), NEW n \in Nat
  PROVE  RecordedAsMet(i, n) <=> MetAt(scopes, events, i, n)
<1>1. /\ scopes \in Seq(ScopeRecord) /\ Len(scopes) \in Nat /\ scopes # <<>>
      /\ \A j \in 1..Len(scopes) : scopes[j].prereq \in Nat
  <2>1. scopes \in Seq(ScopeRecord)
    BY DEF TypeInv, TypeOK
  <2>2. \A r \in ScopeRecord : r.prereq \in Nat
    BY DEF ScopeRecord
  <2> QED BY <2>1, <2>2, ElementOfSeq
<1>2. /\ Path \in Seq(Nat) /\ Len(Path) = Len(scopes) - 1
      /\ \A k \in 1..(Len(scopes) - 1) : Path[k] = scopes[k].prereq
  BY <1>1, PathTypes DEF Path
<1>3. i - 1 \in Nat /\ \A k \in 1..(i - 1) : k \in 1..(Len(scopes) - 1) /\ k \in 1..i /\ k < i
  BY <1>1
<1>4. /\ PathTo(i) \in Seq(Nat) /\ Len(PathTo(i)) = i - 1
      /\ \A k \in 1..(i - 1) : PathTo(i)[k] = Path[k]
  BY <1>1, <1>2, <1>3 DEF PathTo
<1>5. /\ Append(PathTo(i), n) \in Seq(Nat) /\ Len(Append(PathTo(i), n)) = i
      /\ \A k \in 1..(i - 1) : Append(PathTo(i), n)[k] = Path[k]
      /\ Append(PathTo(i), n)[i] = n
  BY <1>3, <1>4, AppendProperties
<1>6. \A k \in 1..i : k = i \/ k \in 1..(i - 1)
  BY <1>1
<1>7. Append(PathTo(i), n) = PlaceOf(scopes, i, n)
  <2> DEFINE place == Append(PathTo(i), n)
  <2>1. /\ place \in Seq(Nat) /\ Len(place) = i /\ place[i] = n
        /\ \A k \in 1..(i - 1) : place[k] = scopes[k].prereq
    BY <1>2, <1>3, <1>5
  <2> HIDE DEF place
  <2>2. place \in [1..i -> Nat]
    <3>1. DOMAIN place = 1..i /\ \A k \in 1..i : place[k] \in Nat
      BY <2>1, PlaceTypes
    <3> QED BY <2>1, <3>1, SeqDef
  <2>3. ASSUME NEW k \in 1..i PROVE place[k] = IF k < i THEN scopes[k].prereq ELSE n
    <3>1. CASE k = i
      BY <2>1, <3>1
    <3>2. CASE k \in 1..(i - 1)
      BY <1>3, <2>1, <3>2
    <3> QED BY <1>6, <3>1, <3>2
  <2>4. place = PlaceOf(scopes, i, n)
    BY <2>2, <2>3 DEF PlaceOf
  <2> QED BY <2>4 DEF place
<1>8. DOMAIN events = 1..Len(events)
  BY HistoryTypes
<1> QED BY <1>7, <1>8 DEF RecordedAsMet, MetAt, Requirement

\* Whatever the loops have passed was met.  What failed is the current prerequisite, and no
\* event shows it met.
PassedIsMet ==
  \A i \in 1..Len(scopes) : \A n \in 1..(scopes[i].prereq - 1) : MetAt(scopes, events, i, n)
FailedIsNotMet ==
  IsDefined(evalRet) /\ evalRet[1].detail.reason.kind = "PREREQUISITE_FAILED" =>
    LET running == Len(scopes)
        current == scopes[running].prereq
    IN  /\ scopes[running].flag.prerequisites[current].key
             = evalRet[1].detail.reason.prerequisiteKey
        /\ ~MetAt(scopes, events, running, current)
VerdictInv == RecorderProvided => PassedIsMet /\ FailedIsNotMet

\* An event that shows a requirement met keeps showing it.
LEMMA MetStays ==
  ASSUME NEW stack, NEW later, NEW history, NEW longer, NEW i \in Nat, NEW n,
         later[i].flag = stack[i].flag,
         \A k \in 1..(i - 1) : later[k].prereq = stack[k].prereq,
         Len(history) \in Nat, Len(longer) \in Nat,
         \A k \in 1..Len(history) : k \in 1..Len(longer) /\ longer[k] = history[k],
         MetAt(stack, history, i, n)
  PROVE  MetAt(later, longer, i, n)
<1>1. PlaceOf(later, i, n) = PlaceOf(stack, i, n)
  <2>1. \A k \in 1..i : k < i => k \in 1..(i - 1)
    OBVIOUS
  <2> QED BY <2>1 DEF PlaceOf
<1> QED BY <1>1 DEF MetAt

\* The events that there were are kept.
LEMMA EventsKept ==
  ASSUME TypeInv, TypeInv', EvaluationInv, [Next]_vars
  PROVE  /\ Len(events) \in Nat /\ Len(events') \in Nat
         /\ \A k \in 1..Len(events) : k \in 1..Len(events') /\ events'[k] = events[k]
<1>1. Len(events) \in Nat /\ Len(events') \in Nat
  BY DEF TypeInv, TypeOK
<1>2. UNCHANGED events \/ RecordEvent
  BY TourCases, BigSegmentStepsInside
     DEF SameStack, EvaluatePrerequisite, PrerequisitePassed, PrerequisiteFailed,
         PrerequisiteInvalid, ReturnResult, RejectContext, EvaluateSome, Evaluate
<1> QED BY <1>1, <1>2, RecordedEvent

\* The scope that waits for a prerequisite, its current prerequisite, and the place of both.
LEMMA WaitingPlace ==
  ASSUME TypeInv, NEW step \in {0, 1}, Popped(step), NEW stack, NEW n,
         n = Len(scopes) - 1,
         \A k \in 1..(n - 1) : stack[k].prereq = scopes[k].prereq
  PROVE  /\ n \in Nat \ {0} /\ Caller = scopes[n]
         /\ CallerPrereq = scopes[n].flag.prerequisites[scopes[n].prereq]
         /\ PlaceOf(stack, n, scopes[n].prereq) = Path
<1>1. Len(scopes) \in Nat /\ Len(scopes) > 1
  BY DEF TypeInv, TypeOK, Popped, PrerequisiteReturns
<1>2. n \in Nat \ {0}
  <2>1. \A k \in Nat : k > 1 => k - 1 \in Nat \ {0}
    OBVIOUS
  <2> QED BY <1>1, <2>1, Zenon
<1>3. \A k \in 1..n : k = n \/ (k < n /\ k \in 1..(n - 1))
  BY <1>2
<1>4. PlaceOf(stack, n, scopes[n].prereq) = [k \in 1..n |-> scopes[k].prereq]
  BY <1>2, <1>3 DEF PlaceOf
<1> QED BY <1>2, <1>4 DEF Caller, CallerPrereq, Path

\* A prerequisite that was met leaves an event that shows it.
LEMMA PassedLeavesEvent ==
  ASSUME TypeInv, TypeInv', WaitsForNext, RecorderProvided, PrerequisitePassed, Popped(1),
         NEW n, n = Len(scopes')
  PROVE  MetAt(scopes', events', n, scopes[n].prereq)
<1>1. /\ n \in Nat \ {0} /\ Len(scopes) = n + 1 /\ scopes # <<>>
      /\ \A i \in 1..n : scopes'[i].flag = scopes[i].flag
      /\ \A i \in 1..(n - 1) : scopes'[i] = scopes[i]
  BY PositionsPopped DEF Popped
<1>2. n = Len(scopes) - 1
  BY <1>1
<1>3. /\ Caller = scopes[n] /\ PlaceOf(scopes', n, scopes[n].prereq) = Path
      /\ CallerPrereq = scopes[n].flag.prerequisites[scopes[n].prereq]
  BY <1>1, <1>2, WaitingPlace
<1>4. Scope = scopes[n + 1] /\ Scope.flag.key = CallerPrereq.key
  <2>1. n \in 1..(Len(scopes) - 1)
    BY <1>1
  <2> QED BY <1>1, <1>3, <2>1, ScopeTypes DEF WaitsForNext, TypeInv
<1>5. /\ Scope.flag.on
      /\ evalRet[1].detail.variation = <<CallerPrereq.variation>>
  <2>1. evalRet[1].detail.variation \in Optional(Int)
    <3>1. evalRet \in Optional(EvalReturn) /\ IsDefined(evalRet)
      BY DEF TypeInv, TypeOK, EvalReturn, Popped, PrerequisiteReturns
    <3> QED BY <3>1, OptionalValues DEF EvalReturn, Detail
  <2>2. /\ Scope.flag.on /\ IsDefined(evalRet[1].detail.variation)
        /\ evalRet[1].detail.variation[1] = CallerPrereq.variation
    BY DEF PrerequisitePassed, PrerequisiteMet, IsDefaultValue
  <2> QED BY <2>1, <2>2, OptionalValues
<1>6. /\ Len(events) + 1 \in 1..Len(events')
      /\ events'[Len(events) + 1] = PrerequisiteFlagEvent
  <2>1. Len(events) \in Nat
    BY DEF TypeInv, TypeOK
  <2> QED BY <2>1, RecordedEvent DEF PrerequisitePassed
<1>7. /\ PrerequisiteFlagEvent.path = Path
      /\ PrerequisiteFlagEvent.targetFlagKey = scopes[n].flag.key
      /\ PrerequisiteFlagEvent.prerequisiteFlag = Scope.flag
      /\ PrerequisiteFlagEvent.detail = evalRet[1].detail
  BY <1>3 DEF PrerequisiteFlagEvent
<1>8. scopes'[n].flag = scopes[n].flag
  BY <1>1
<1> HIDE DEF PrerequisiteFlagEvent
<1> QED BY <1>3, <1>4, <1>5, <1>6, <1>7, <1>8 DEF MetAt

\* The loops pass what is met and nothing else.
LEMMA PassedStep ==
  ASSUME EvaluationInv, TypeInv', [Next]_vars, StackInv, RecorderProvided, PassedIsMet
  PROVE  PassedIsMet'
<1>1. /\ TypeInv /\ scopes \in Seq(ScopeRecord) /\ Len(scopes) \in Nat
      /\ scopes' \in Seq(ScopeRecord) /\ Len(scopes') \in Nat
  BY DEF EvaluationInv, TypeInv, TypeOK
<1>2. /\ Len(events) \in Nat /\ Len(events') \in Nat
      /\ \A k \in 1..Len(events) : k \in 1..Len(events') /\ events'[k] = events[k]
  BY <1>1, EventsKept
<1>3. ASSUME NEW i \in 1..Len(scopes'), i \in 1..Len(scopes),
             scopes'[i].flag = scopes[i].flag,
             \A k \in 1..(i - 1) : scopes'[k].prereq = scopes[k].prereq,
             NEW n \in 1..(scopes[i].prereq - 1)
      PROVE  MetAt(scopes', events', i, n)
  <2>1. MetAt(scopes, events, i, n)
    BY <1>3 DEF PassedIsMet
  <2>2. i \in Nat
    BY <1>1
  <2>3. /\ scopes'[i].flag = scopes[i].flag
        /\ \A k \in 1..(i - 1) : scopes'[k].prereq = scopes[k].prereq
    BY <1>3
  <2> QED BY <1>2, <2>1, <2>2, <2>3, MetStays
<1>4. ASSUME Len(scopes') = Len(scopes),
             \A i \in 1..Len(scopes) : /\ scopes'[i].flag = scopes[i].flag
                                       /\ scopes'[i].prereq = scopes[i].prereq
      PROVE  PassedIsMet'
  <2>1. ASSUME NEW i \in 1..Len(scopes'), NEW n \in 1..(scopes'[i].prereq - 1)
        PROVE  MetAt(scopes', events', i, n)
    <3>1. \A k \in 1..(i - 1) : k \in 1..Len(scopes)
      BY <1>1, <1>4
    <3> QED BY <1>3, <1>4, <3>1
  <2> QED BY <2>1 DEF PassedIsMet
<1>5. CASE SameStack
  BY <1>4, <1>5 DEF SameStack
<1>6. CASE BigSegmentStep
  BY <1>1, <1>4, <1>6, PositionsStay
<1>7. CASE EvaluatePrerequisite
  <2>1. /\ Len(scopes') = Len(scopes) + 1
        /\ \A i \in 1..Len(scopes) : scopes'[i] = scopes[i]
        /\ scopes'[Len(scopes')].prereq = 1
    BY <1>1, <1>7, PositionsPushed
  <2>2. ASSUME NEW i \in 1..Len(scopes'), NEW n \in 1..(scopes'[i].prereq - 1)
        PROVE  MetAt(scopes', events', i, n)
    <3>1. i # Len(scopes')
      BY <2>1, <2>2
    <3>2. i \in 1..Len(scopes) /\ \A k \in 1..(i - 1) : k \in 1..Len(scopes)
      BY <1>1, <2>1, <3>1
    <3> QED BY <1>3, <2>1, <2>2, <3>2
  <2> QED BY <2>2 DEF PassedIsMet
<1>8. ASSUME NEW step \in {0, 1}, Popped(step), step = 1 => PrerequisitePassed
      PROVE  PassedIsMet'
  <2> DEFINE m == Len(scopes')
  <2>1. /\ m \in Nat \ {0} /\ Len(scopes) = m + 1
        /\ \A i \in 1..m : scopes'[i].flag = scopes[i].flag
        /\ \A i \in 1..(m - 1) : scopes'[i] = scopes[i]
        /\ scopes'[m].prereq = scopes[m].prereq + step
    BY <1>1, <1>8, PositionsPopped DEF Popped
  <2>2. ASSUME NEW i \in 1..m, NEW n \in 1..(scopes'[i].prereq - 1)
        PROVE  MetAt(scopes', events', i, n)
    <3>1. i \in 1..Len(scopes) /\ \A k \in 1..(i - 1) : k \in 1..(m - 1)
      BY <2>1
    <3>2. CASE n \in 1..(scopes[i].prereq - 1)
      BY <1>3, <2>1, <3>1, <3>2
    <3>3. CASE n \notin 1..(scopes[i].prereq - 1)
      <4>1. i = m
        <5>1. i # m => i \in 1..(m - 1)
          BY <2>1
        <5> QED BY <2>1, <2>2, <3>3, <5>1
      <4>2. scopes[m].prereq \in Nat \ {0}
        <5>1. scopes[m] \in ScopeRecord
          BY <1>1, <3>1, <4>1, ElementOfSeq
        <5> QED BY <5>1 DEF ScopeRecord
      <4>3. scopes'[i].prereq \in Nat /\ scopes'[i].prereq = scopes[m].prereq + step
        BY <2>1, <4>1, <4>2
      <4>4. \A p, q \in Nat : q = p + step /\ n \in 1..(q - 1) /\ n \notin 1..(p - 1) =>
                              n = p /\ step = 1
        OBVIOUS
      <4>5. n = scopes[m].prereq /\ step = 1
        BY <3>3, <4>1, <4>2, <4>3, <4>4
      <4> QED BY <1>1, <1>8, <4>1, <4>5, PassedLeavesEvent DEF StackInv
    <3> QED BY <3>2, <3>3
  <2> QED BY <2>2 DEF PassedIsMet
<1>9. CASE ReturnResult \/ RejectContext
  <2>1. scopes' = <<>>
    BY <1>9 DEF ReturnResult, RejectContext
  <2> QED BY <2>1 DEF PassedIsMet
<1>10. CASE EvaluateSome
  <2>1. PICK flag : scopes' = <<NewScope(flag, <<>>, NoStatus, NoMemberships)>>
    BY <1>10 DEF EvaluateSome, Evaluate
  <2>2. Len(scopes') = 1 /\ scopes'[1].prereq = 1
    BY <2>1 DEF NewScope
  <2> QED BY <2>2 DEF PassedIsMet
<1> QED BY <1>5, <1>6, <1>7, <1>8, <1>9, <1>10, TourCases

\* A prerequisite that is not in the store has not been evaluated at its place.
LEMMA MissingIsNotMet ==
  ASSUME TypeInv, EventsAreOver, evalRet = <<>>, scopes # <<>>
  PROVE  ~MetAt(scopes, events, Len(scopes), scopes[Len(scopes)].prereq)
<1> DEFINE n == Len(scopes)
           place == PlaceOf(scopes, n, scopes[n].prereq)
<1>1. /\ scopes \in Seq(ScopeRecord) /\ n \in Nat \ {0}
  BY ScopeTypes DEF TypeInv, TypeOK
<1>2. place = Positions
  <2>1. \A k \in 1..n : (IF k < n THEN scopes[k].prereq ELSE scopes[n].prereq) = scopes[k].prereq
    BY <1>1
  <2> QED BY <2>1 DEF PlaceOf, Positions, PositionsOf
<1>3. Positions \in Seq(Nat)
  BY <1>1, PositionTypes DEF Positions
<1>4. ~Over(Positions)
  BY <1>3, PlaceTypes DEF Over, OverFor, Passed
<1> QED BY <1>2, <1>4 DEF MetAt, EventsAreOver

\* A prerequisite that has been evaluated is recorded at its place only once, as it was.
LEMMA FailedLeavesNoEvent ==
  ASSUME TypeInv, EventsAreOver, RecordEvent, Popped(0), ~PrerequisiteMet,
         NEW n, n = Len(scopes')
  PROVE  /\ scopes'[n].flag.prerequisites[scopes'[n].prereq] = CallerPrereq
         /\ ~MetAt(scopes', events', n, scopes'[n].prereq)
<1>1. /\ n \in Nat \ {0} /\ Len(scopes) = n + 1 /\ scopes # <<>>
      /\ \A i \in 1..n : scopes'[i].flag = scopes[i].flag
      /\ \A i \in 1..(n - 1) : scopes'[i] = scopes[i]
      /\ scopes'[n].prereq = scopes[n].prereq + 0
  BY PositionsPopped DEF Popped
<1>2. n = Len(scopes) - 1
  BY <1>1
<1>3. /\ Caller = scopes[n] /\ PlaceOf(scopes', n, scopes[n].prereq) = Path
      /\ CallerPrereq = scopes[n].flag.prerequisites[scopes[n].prereq]
  BY <1>1, <1>2, WaitingPlace
<1>4. scopes'[n].prereq = scopes[n].prereq /\ scopes'[n].flag = scopes[n].flag
  <2>1. scopes[n] \in ScopeRecord
    BY <1>1, <1>3, ScopeTypes DEF TypeInv
  <2>2. scopes[n].prereq \in Nat
    BY <2>1 DEF ScopeRecord
  <2>3. n \in 1..n
    BY <1>1
  <2> QED BY <1>1, <2>2, <2>3
<1>5. \A k \in 1..Len(events) : events[k].path # Path
  BY <1>1, EventsComeBefore
<1>6. PrerequisiteFlagEvent.prerequisiteFlag.on =>
        PrerequisiteFlagEvent.detail.variation # <<CallerPrereq.variation>>
  BY DEF PrerequisiteFlagEvent, PrerequisiteMet, IsDefaultValue, IsDefined
<1>7. ASSUME NEW k \in 1..Len(events'), events'[k].path = Path
      PROVE  events'[k] = PrerequisiteFlagEvent
  BY <1>5, <1>7, RecordedEvent
<1> HIDE DEF PrerequisiteFlagEvent
<1> QED BY <1>3, <1>4, <1>6, <1>7 DEF MetAt

\* What fails has not been met.
LEMMA FailedStep ==
  ASSUME EvaluationInv, TypeInv', [Next]_vars, EventsAreOver, FailedIsNotMet
  PROVE  FailedIsNotMet'
<1>1. TypeInv
  BY DEF EvaluationInv
<1>2. CASE PrerequisiteMissing
  <2> DEFINE outcome == GetOffValue(Scope.flag, PrerequisiteFailedReason(Prereq.key))
  <2>1. /\ UNCHANGED <<scopes, events>> /\ evalRet = <<>> /\ scopes # <<>>
        /\ Return(outcome, TRUE)
    BY <1>2 DEF PrerequisiteMissing, AtPrerequisite, BeforeRules
  <2>2. ~MetAt(scopes, events, Len(scopes), scopes[Len(scopes)].prereq)
    BY <1>1, <2>1, MissingIsNotMet
  <2>3. Prereq = scopes[Len(scopes)].flag.prerequisites[scopes[Len(scopes)].prereq]
    BY <1>1, <2>1, ScopeTypes DEF Prereq, TypeInv
  <2>4. outcome.detail.reason.kind = "PREREQUISITE_FAILED" =>
          outcome.detail.reason.prerequisiteKey = Prereq.key
    BY OffValueReasons
  <2> HIDE DEF outcome
  <2>5. evalRet'[1].detail = outcome.detail
    BY <1>1, <2>1, ReturnedOutcome
  <2> QED BY <2>1, <2>2, <2>3, <2>4, <2>5 DEF FailedIsNotMet
<1>3. CASE PrerequisiteFailed
  <2> DEFINE outcome == GetOffValue(Caller.flag, PrerequisiteFailedReason(CallerPrereq.key))
             n == Len(scopes')
  <2>1. /\ RecordEvent /\ ~PrerequisiteMet /\ Popped(0)
        /\ evalRet' = <<[detail |-> outcome.detail, ok |-> TRUE]>>
    BY <1>3 DEF PrerequisiteFailed, Popped
  <2>2. outcome.detail.reason.kind = "PREREQUISITE_FAILED" =>
          outcome.detail.reason.prerequisiteKey = CallerPrereq.key
    BY OffValueReasons
  <2> HIDE DEF outcome
  <2>3. evalRet'[1].detail = outcome.detail
    BY <2>1
  <2>4. /\ scopes'[n].flag.prerequisites[scopes'[n].prereq] = CallerPrereq
        /\ ~MetAt(scopes', events', n, scopes'[n].prereq)
    BY <1>1, <2>1, FailedLeavesNoEvent
  <2> QED BY <2>2, <2>3, <2>4 DEF FailedIsNotMet
<1>4. CASE evalRet' = <<>> \/ evalRet'[1].detail.reason.kind # "PREREQUISITE_FAILED"
  BY <1>4 DEF FailedIsNotMet, IsDefined
<1>5. CASE PrerequisiteCircular \/ PrerequisiteInvalid
  <2>1. \/ evalRet'[1].detail = ErrorOutcome("circularPrereq").detail
        \/ evalRet'[1].detail = ErrorDetail("MALFORMED_FLAG")
    <3>1. PrerequisiteCircular => Return(ErrorOutcome("circularPrereq"), FALSE)
      BY DEF PrerequisiteCircular
    <3>2. PrerequisiteInvalid => evalRet'[1].detail = ErrorDetail("MALFORMED_FLAG")
      BY DEF PrerequisiteInvalid
    <3> QED BY <1>1, <1>5, <3>1, <3>2, ReturnedOutcome
  <2>2. \A kind : ErrorDetail(kind).reason.kind = "ERROR"
    BY DEF ErrorDetail, DefaultDetail, ErrorReason, NewReason
  <2>3. ErrorOutcome("circularPrereq").detail.reason.kind = "ERROR"
    BY <2>2 DEF ErrorOutcome
  <2>4. evalRet'[1].detail.reason.kind # "PREREQUISITE_FAILED"
    BY <2>1, <2>2, <2>3
  <2> QED BY <1>4, <2>4
<1>6. CASE SameStack /\ UNCHANGED evalRet
  BY <1>6 DEF SameStack, FailedIsNotMet
<1>7. CASE UNCHANGED evalRet /\ ~PrerequisiteFailed /\ ~PrerequisiteInvalid
  <2>1. CASE evalRet = <<>>
    BY <1>4, <1>7, <2>1
  <2>2. CASE evalRet # <<>>
    <3>1. scopes # <<>>
      BY <2>2, ResultEndsAll
    <3> QED BY <1>1, <1>4, <1>6, <1>7, <2>2, <3>1, TourCases, BigSegmentStepsInside
            DEF EvaluatePrerequisite, AtPrerequisite, BeforeRules, PrerequisitePassed,
                ReturnResult, RejectContext, EvaluateSome, Evaluate
  <2> QED BY <2>1, <2>2
<1> QED BY <1>2, <1>3, <1>4, <1>5, <1>7, VerdictCases

------------------------------------------------------------------------------
(***************************************************************************)
(* A circle.  When a prerequisite is already in the chain, the flags from  *)
(* there up to the running one require each other in turn.                 *)
(***************************************************************************)
LEMMA CircleIsInData ==
  ASSUME TypeInv, StackInv, FlagNesting, PrerequisiteCircular, ~updated
  PROVE  FlagsAreCyclic
<1> DEFINE n == Len(scopes)
<1>1. /\ n \in Nat \ {0} /\ Scope = scopes[n] /\ scopes # <<>>
      /\ \A i \in 1..n : scopes[i] \in ScopeRecord
      /\ \A i \in 1..n : scopes[i].flag.key \in FlagKeys /\ scopes[i].prereq \in Nat \ {0}
                         /\ scopes[i].flag.prerequisites \in Seq(Prerequisite)
  <2>1. scopes \in Seq(ScopeRecord) /\ scopes # <<>>
    BY DEF TypeInv, TypeOK, PrerequisiteCircular, AtPrerequisite, BeforeRules
  <2>2. \A r \in ScopeRecord : /\ r.flag.key \in FlagKeys /\ r.prereq \in Nat \ {0}
                               /\ r.flag.prerequisites \in Seq(Prerequisite)
    BY EvaluatorAssumption DEF ScopeRecord, Flag
  <2> QED BY <2>1, <2>2, ScopeTypes, ElementOfSeq DEF TypeInv
<1>2. /\ Scope.flag.on /\ Scope.prereq <= Len(Scope.flag.prerequisites)
      /\ Prereq.key \in FlagKeys /\ IsDefined(flagData[Prereq.key])
  BY PrereqTypes DEF PrerequisiteCircular, AtPrerequisite
<1>3. PICK j \in 1..n : scopes[j].flag.key = Prereq.key
  <2>1. PICK j \in DOMAIN ExtendedChain : ExtendedChain[j] = Prereq.key
    BY <1>2 DEF PrerequisiteCircular, ToSet, StackInv, StoreIsKeyed
  <2> QED BY <1>1, <2>1, ChainOfThisFlag
<1> DEFINE keys == {scopes[i].flag.key : i \in j..n}
<1>4. keys \subseteq FlagKeys /\ keys # {}
  <2>1. j \in j..n /\ \A i \in j..n : i \in 1..n
    BY <1>1
  <2> QED BY <1>1, <2>1
<1>5. ASSUME NEW i \in j..n
      PROVE  LET flag == scopes[i].flag
             IN  /\ flagData[flag.key] = <<flag>>
                 /\ flag.on
                 /\ scopes[i].prereq \in DOMAIN flag.prerequisites
                 /\ flag.prerequisites[scopes[i].prereq].key \in keys
  <2>1. i \in 1..n /\ (i = n \/ (i \in 1..(n - 1) /\ i + 1 \in j..n))
    BY <1>1
  <2>2. flagData[scopes[i].flag.key] = <<scopes[i].flag>>
    BY <2>1 DEF StackInv, StackIsCurrent
  <2>3. scopes[i].prereq <= Len(scopes[i].flag.prerequisites) => 
          scopes[i].prereq \in DOMAIN scopes[i].flag.prerequisites
    <3>1. scopes[i].prereq \in Nat \ {0} /\ scopes[i].flag.prerequisites \in Seq(Prerequisite)
      BY <1>1, <2>1
    <3> QED BY <3>1, LenProperties
  <2>4. CASE i = n
    <3>1. j \in j..n
      BY <1>1
    <3> QED BY <1>1, <1>2, <1>3, <2>2, <2>3, <2>4, <3>1 DEF Prereq
  <2>5. CASE i \in 1..(n - 1) /\ i + 1 \in j..n
    BY <2>2, <2>3, <2>5 DEF StackInv, WaitsForNext, TypeInv, CallersWait
  <2> QED BY <2>1, <2>4, <2>5
<1>6. ASSUME NEW key \in keys
      PROVE  /\ IsDefined(flagData[key])
             /\ flagData[key][1].on
             /\ \E i \in DOMAIN flagData[key][1].prerequisites :
                  flagData[key][1].prerequisites[i].key \in keys
  <2>1. PICK i \in j..n : key = scopes[i].flag.key
    OBVIOUS
  <2> HIDE DEF keys
  <2>2. IsDefined(flagData[key]) /\ flagData[key][1] = scopes[i].flag
    BY <1>5, <2>1 DEF IsDefined
  <2> QED BY <1>5, <2>2
<1> HIDE DEF keys
<1> QED BY <1>4, <1>6 DEF FlagsAreCyclic

\* No other step reports one, and no update goes unnoticed.
LEMMA CircularStep ==
  ASSUME EvaluationInv, [Next]_vars, StackInv, FlagNesting, CircularOnlyIfCyclic
  PROVE  CircularOnlyIfCyclic'
<1>1. TypeInv /\ StoreIsKeyed /\ log \in Seq(LogRecord)
  BY DEF EvaluationInv, StackInv, TypeInv, TypeOK, LogRecord
<1>2. SUFFICES ASSUME ~updated', Logged({"circularPrereq"})' PROVE FlagsAreCyclic'
  BY DEF CircularOnlyIfCyclic
<1>3. ~updated /\ UNCHANGED flagData
  BY <1>1, <1>2, FlagDataStep
<1>4. SUFFICES FlagsAreCyclic
  BY <1>3 DEF FlagsAreCyclic
<1>5. CASE PrerequisiteCircular
  BY <1>1, <1>3, <1>5, CircleIsInData
<1>6. CASE AddsOnly(OtherErrors)
  <2>1. Logged({"circularPrereq"})
    <3>1. CASE UNCHANGED log
      BY <1>2, <3>1 DEF Logged
    <3>2. CASE \E entry : log' = Append(log, entry) /\ entry.err \in OtherErrors
      <4>1. PICK entry : log' = Append(log, entry) /\ entry.err \in OtherErrors
        BY <3>2
      <4>2. entry.err # "circularPrereq"
        BY <4>1 DEF OtherErrors
      <4>3. /\ DOMAIN log' = 1..(Len(log) + 1) /\ log'[Len(log) + 1] = entry
            /\ DOMAIN log = 1..Len(log) /\ Len(log) \in Nat
            /\ \A i \in 1..Len(log) : log'[i] = log[i]
        BY <1>1, <4>1
      <4>4. \A i \in 1..(Len(log) + 1) : i = Len(log) + 1 \/ i \in 1..Len(log)
        BY <4>3
      <4> QED BY <1>2, <4>2, <4>3, <4>4 DEF Logged
    <3> QED BY <1>6, <3>1, <3>2 DEF AddsOnly
  <2> QED BY <1>3, <2>1 DEF CircularOnlyIfCyclic
<1> QED BY <1>5, <1>6, VerdictCases

------------------------------------------------------------------------------
\* Everything that the verdicts rest on.
VerdictStateInv ==
  TourStateInv /\ StackInv /\ FlagNesting /\ VerdictInv /\ CircularOnlyIfCyclic

\* It holds throughout an evaluation.
LEMMA EvaluationKeepsVerdicts == Spec => []VerdictStateInv
<1>1. Init => StackInv /\ FlagNesting /\ VerdictInv /\ CircularOnlyIfCyclic
  <2>1. Init => FlagNesting
    BY DEF Init, FlagNesting, ChainsAreFlagsBelow, FlagsDiffer
  <2> QED BY <2>1, InitStack DEF Init, VerdictInv, PassedIsMet, FailedIsNotMet, IsDefined,
                                 CircularOnlyIfCyclic, Logged
<1>2. /\ TourStateInv /\ TourStateInv' /\ [Next]_vars
      /\ StackInv /\ FlagNesting /\ VerdictInv /\ CircularOnlyIfCyclic
      => (StackInv /\ FlagNesting /\ VerdictInv /\ CircularOnlyIfCyclic)'
  <2> SUFFICES ASSUME TourStateInv, TourStateInv', [Next]_vars, StackInv, FlagNesting,
                      VerdictInv, CircularOnlyIfCyclic
               PROVE  (StackInv /\ FlagNesting /\ VerdictInv /\ CircularOnlyIfCyclic)'
    OBVIOUS
  <2>1. EvaluationInv /\ TypeInv /\ TypeInv' /\ EventsAreOver
    BY DEF TourStateInv, TourInv, EvaluationInv
  <2>2. StackInv' /\ CircularOnlyIfCyclic'
    BY <2>1, StackStep, CircularStep
  <2>3. FlagNesting'
    BY <2>1, FlagNestingStep
  <2>4. RecorderProvided' = RecorderProvided
    OBVIOUS
  <2>5. VerdictInv'
    BY <2>1, PassedStep, FailedStep DEF VerdictInv
  <2> QED BY <2>2, <2>3, <2>5
<1> QED BY <1>1, <1>2, EvaluationKeepsTour, PTL DEF Spec, VerdictStateInv

\* What the events say of a prerequisite agrees with what the evaluation makes of it.
THEOREM VerdictsMatchEvents == Spec => []PrerequisiteVerdictsMatchEvents
<1>1. VerdictStateInv => PrerequisiteVerdictsMatchEvents
  <2> SUFFICES ASSUME VerdictStateInv, RecorderProvided
               PROVE  /\ \A i \in DOMAIN scopes : \A n \in 1..(scopes[i].prereq - 1) :
                           RecordedAsMet(i, n)
                      /\ IsDefined(evalRet)
                           /\ evalRet[1].detail.reason.kind = "PREREQUISITE_FAILED" =>
                         /\ Requirement(Len(scopes), Scope.prereq).key
                              = evalRet[1].detail.reason.prerequisiteKey
                         /\ ~RecordedAsMet(Len(scopes), Scope.prereq)
    BY DEF PrerequisiteVerdictsMatchEvents
  <2>1. /\ TypeInv /\ PassedIsMet /\ FailedIsNotMet /\ scopes \in Seq(ScopeRecord)
    BY DEF VerdictStateInv, VerdictInv, TourStateInv, EvaluationInv, TypeInv, TypeOK
  <2>2. DOMAIN scopes = 1..Len(scopes) /\ Len(scopes) \in Nat
    BY <2>1
  <2>3. \A i \in 1..Len(scopes) : \A n \in 1..(scopes[i].prereq - 1) : RecordedAsMet(i, n)
    <3> TAKE i \in 1..Len(scopes)
    <3> TAKE n \in 1..(scopes[i].prereq - 1)
    <3>1. n \in Nat
      OBVIOUS
    <3> QED BY <2>1, <3>1, PlacesArePaths DEF PassedIsMet
  <2>4. ASSUME IsDefined(evalRet), evalRet[1].detail.reason.kind = "PREREQUISITE_FAILED"
        PROVE  /\ Requirement(Len(scopes), Scope.prereq).key
                    = evalRet[1].detail.reason.prerequisiteKey
               /\ ~RecordedAsMet(Len(scopes), Scope.prereq)
    <3>1. scopes # <<>>
      BY <2>1, <2>4 DEF TypeInv, ControlOK, IsDefined
    <3>2. /\ Len(scopes) \in 1..Len(scopes) /\ Scope = scopes[Len(scopes)]
          /\ Scope.prereq \in Nat
      BY <2>1, <3>1, ScopeTypes DEF TypeInv, ScopeRecord
    <3> QED BY <2>1, <2>4, <3>2, PlacesArePaths DEF FailedIsNotMet, Requirement
  <2> QED BY <2>2, <2>3, <2>4
<1> QED BY <1>1, EvaluationKeepsVerdicts, PTL

\* A circle that is reported is one of the data, unless the data changed meanwhile.
THEOREM CirclesAreReal == Spec => []CircularOnlyIfCyclic
BY EvaluationKeepsVerdicts, PTL DEF VerdictStateInv

------------------------------------------------------------------------------
(***************************************************************************)
(* The refinement mapping.                                                 *)
(***************************************************************************)
\* The phase, and the status so far, before and after a step.
LEMMA PhaseCases ==
  /\ result # <<>> => Phase = "returned"
  /\ result = <<>> /\ scopes = <<>> => Phase = "idle" /\ StatusSoFar = NoStatus
  /\ result = <<>> /\ scopes # <<>> => Phase = IF GivingUp THEN "failing" ELSE "running"
  /\ scopes # <<>> => StatusSoFar = Scope.bigSegmentsStatus
  /\ scopes = <<>> /\ result # <<>> => StatusSoFar = result[1].detail.reason.bigSegmentsStatus
BY DEF Phase, StatusSoFar

LEMMA LaterPhaseCases ==
  /\ result' # <<>> => Phase' = "returned"
  /\ result' = <<>> /\ scopes' = <<>> => Phase' = "idle" /\ StatusSoFar' = NoStatus
  /\ result' = <<>> /\ scopes' # <<>> => Phase' = IF GivingUp' THEN "failing" ELSE "running"
  /\ scopes' # <<>> => StatusSoFar' = Scope'.bigSegmentsStatus
  /\ scopes' = <<>> /\ result' # <<>> =>
       StatusSoFar' = result'[1].detail.reason.bigSegmentsStatus
BY DEF Phase, StatusSoFar

\* The last scope on the stack has the status.
LEMMA StatusOfLast ==
  ASSUME TypeInv, TypeInv'
  PROVE  /\ scopes # <<>> => StatusSoFar = scopes[Len(scopes)].bigSegmentsStatus
         /\ scopes' # <<>> => StatusSoFar' = scopes'[Len(scopes')].bigSegmentsStatus
BY PhaseCases, LaterPhaseCases DEF Scope, Last

\* Statuses and errors mean the same to the contract.
LEMMA SharedReasons ==
  /\ Contract!NoStatus = NoStatus
  /\ \A old, new : Contract!ComputeUpdatedBigSegmentsStatus(old, new)
                    = ComputeUpdatedBigSegmentsStatus(old, new)
  /\ \A err : Contract!ErrorKindForError(err) = ErrorKindForError(err)
  /\ \A kind : Contract!ErrorDetail(kind) = ErrorDetail(kind)
BY DEF Contract!NoStatus, NoStatus,
       Contract!ComputeUpdatedBigSegmentsStatus, ComputeUpdatedBigSegmentsStatus,
       Contract!GetBigSegmentsStatusPriority, GetBigSegmentsStatusPriority,
       Contract!ErrorKindForError, ErrorKindForError, Contract!EvalErrors, EvalErrors,
       Contract!ErrorDetail, ErrorDetail, Contract!DefaultDetail, DefaultDetail,
       Contract!ErrorReason, ErrorReason, Contract!NewReason, NewReason

\* One message more.
LEMMA LoggedMessage ==
  ASSUME TypeInv, NEW key, NEW err, log' = Append(log, [flag |-> key, err |-> err])
  PROVE  /\ Contract!OneMore(log, log')
         /\ log'[Len(log')].err = err
<1> DEFINE message == [flag |-> key, err |-> err]
<1>1. log \in Seq(LogRecord) /\ log' = Append(log, message) /\ message.err = err
  BY DEF TypeInv, TypeOK, LogRecord
<1> HIDE DEF message
<1>2. /\ Len(log') = Len(log) + 1 /\ \A i \in 1..Len(log) : log'[i] = log[i]
      /\ log'[Len(log')] = message
  BY <1>1
<1> QED BY <1>1, <1>2 DEF Contract!OneMore, Contract!Kept

------------------------------------------------------------------------------
(***************************************************************************)
(* Every step is one that the contract allows, or the caller sees nothing. *)
(***************************************************************************)
ContractStep == [Contract!Next]_(Contract!vars)
Unseen == UNCHANGED <<Phase, StatusSoFar, events, consults, log, result>>

LEMMA UnseenSteps == Unseen => ContractStep
BY DEF Unseen, ContractStep, Contract!vars

\* evaluate() returns an outcome: the caller may see a message.
LEMMA InnerStepSeen ==
  ASSUME EvaluationInv, TypeInv', InnerStep
  PROVE  ContractStep
<1>1. /\ TypeInv /\ scopes # <<>> /\ evalRet = <<>> /\ result = <<>>
      /\ UNCHANGED <<scopes, result, events, consults>>
  BY ResultEndsAll DEF EvaluationInv, InnerStep
<1>2. /\ Phase = "running" /\ UNCHANGED StatusSoFar
      /\ Phase' = IF GivingUp' THEN "failing" ELSE "running"
  BY <1>1, PhaseCases, LaterPhaseCases, StatusOfLast DEF GivingUp, IsDefined
<1>3. CASE GoesOn
  <2>1. ~GivingUp'
    BY <1>1, <1>3 DEF GoesOn, GivingUp, IsDefined
  <2> QED BY <1>1, <1>2, <1>3, <2>1, UnseenSteps DEF GoesOn, Unseen
<1>4. CASE Returns
  <2>1. PICK outcome, ok : SoundOutcome(Scope.flag, outcome, ok) /\ Return(outcome, ok)
    BY <1>4 DEF Returns
  <2>2. evalRet' = <<[detail |-> outcome.detail, ok |-> ok]>>
    BY <2>1 DEF Return
  <2>3. GivingUp' <=> ~ok
    <3>1. IsDefined(evalRet') /\ evalRet'[1].ok = ok
      BY <2>2 DEF IsDefined
    <3> QED BY <3>1 DEF GivingUp
  <2>4. CASE outcome.err = NoError
    <3>1. ok /\ UNCHANGED log
      BY <2>1, <2>4 DEF SoundOutcome, Return
    <3> QED BY <1>1, <1>2, <2>3, <3>1, UnseenSteps DEF Unseen
  <2>5. CASE outcome.err # NoError
    <3>1. log' = Append(log, [flag |-> Scope.flag.key, err |-> outcome.err])
      BY <2>1, <2>5 DEF Return
    <3>2. Contract!OneMore(log, log') /\ log'[Len(log')].err = outcome.err
      BY <1>1, <3>1, LoggedMessage
    <3>3. ErrorKindForError(log'[Len(log')].err) = "MALFORMED_FLAG"
      BY <2>1, <2>5, <3>2 DEF SoundOutcome, ErrorKindForError
    <3>4. CASE ok
      <4>1. Contract!LogError
        BY <1>1, <1>2, <2>3, <3>2, <3>4 DEF Contract!LogError
      <4> QED BY <4>1 DEF ContractStep, Contract!Next
    <3>5. CASE ~ok
      <4>1. Contract!GiveUp
        BY <1>1, <1>2, <2>3, <3>2, <3>3, <3>5, SharedReasons DEF Contract!GiveUp
      <4> QED BY <4>1 DEF ContractStep, Contract!Next
    <3> QED BY <3>4, <3>5
  <2> QED BY <2>4, <2>5
<1> QED BY <1>3, <1>4 DEF InnerStep

\* The big segment store is asked, or only a list is looked at.
LEMMA BigSegmentStepSeen ==
  ASSUME EvaluationInv, TypeInv', BigSegmentStep
  PROVE  ContractStep
<1> DEFINE n == Len(scopes)
<1>1. /\ TypeInv /\ scopes # <<>> /\ evalRet = <<>> /\ result = <<>>
      /\ UNCHANGED <<evalRet, log, events, result>>
  BY BigSegmentStepsInside, ResultEndsAll DEF EvaluationInv
<1>2. scopes' # <<>> /\ Len(scopes') = n
  BY <1>1, PositionsStay
<1>3. /\ scopes \in Seq(ScopeRecord) /\ n \in Nat \ {0} /\ Scope = scopes[n]
      /\ scopes[n] \in ScopeRecord
      /\ StatusSoFar = scopes[n].bigSegmentsStatus
      /\ StatusSoFar' = scopes'[n].bigSegmentsStatus
      /\ scopes[n].bigSegmentsStatus \in BigSegmentsStatus
  BY <1>1, <1>2, ScopeTypes, StatusOfLast DEF TypeInv, TypeOK
<1>4. Phase = "running" /\ Phase' = "running"
  BY <1>1, <1>2, PhaseCases, LaterPhaseCases DEF GivingUp, IsDefined
<1>5. ASSUME NEW status, scopes' = SetStatus(status)
      PROVE  scopes'[n].bigSegmentsStatus = status
  BY <1>3, <1>5 DEF SetStatus, ScopeRecord
<1>6. ASSUME NEW key, NEW status, Consulted(key, status),
             scopes'[n].bigSegmentsStatus
               = ComputeUpdatedBigSegmentsStatus(scopes[n].bigSegmentsStatus, status)
      PROVE  ContractStep
  <2>1. /\ Contract!OneMore(consults, consults')
        /\ consults'[Len(consults')].status = status
    BY <1>1, <1>6, AddedConsult DEF Contract!OneMore, Contract!Kept
  <2>2. Contract!Consult
    BY <1>1, <1>3, <1>4, <1>6, <2>1, SharedReasons DEF Contract!Consult
  <2> QED BY <2>2 DEF ContractStep, Contract!Next
<1>7. \A status \in BigSegmentsStatus :
        ComputeUpdatedBigSegmentsStatus(status, "NOT_CONFIGURED") = "NOT_CONFIGURED"
  BY DEF ComputeUpdatedBigSegmentsStatus, GetBigSegmentsStatusPriority
<1>8. CASE BigSegmentWithoutGeneration \/ BigSegmentsNotConfigured
  <2>1. scopes' = SetStatus("NOT_CONFIGURED") /\ Consulted(<<>>, "NOT_CONFIGURED")
    BY <1>8 DEF BigSegmentWithoutGeneration, BigSegmentsNotConfigured
  <2>2. scopes'[n].bigSegmentsStatus
          = ComputeUpdatedBigSegmentsStatus(scopes[n].bigSegmentsStatus, "NOT_CONFIGURED")
    BY <1>3, <1>5, <1>7, <2>1
  <2> QED BY <1>6, <2>1, <2>2
<1>9. CASE QueryMembership
  <2> DEFINE status == ComputeUpdatedBigSegmentsStatus(
                         Scope.bigSegmentsStatus, bigSegmentData[BigSegmentKey[1]].status)
  <2>1. /\ \E key, membership :
             scopes' = [SetStatus(status) EXCEPT ![n].bigSegmentsMemberships =
                          CacheMembership(@, key, membership)]
        /\ Consulted(<<BigSegmentKey[1]>>, bigSegmentData[BigSegmentKey[1]].status)
    BY <1>9 DEF QueryMembership
  <2> HIDE DEF status
  <2>2. PICK key, membership :
          scopes' = [SetStatus(status) EXCEPT ![n].bigSegmentsMemberships =
                       CacheMembership(@, key, membership)]
    BY <2>1
  <2>3. SetStatus(status)[n] = [scopes[n] EXCEPT !.bigSegmentsStatus = status]
        /\ DOMAIN SetStatus(status) = 1..n
    BY <1>3 DEF SetStatus
  <2>4. scopes'[n] = [SetStatus(status)[n] EXCEPT !.bigSegmentsMemberships =
                        CacheMembership(@, key, membership)]
    BY <1>3, <2>2, <2>3
  <2>5. scopes'[n].bigSegmentsStatus = status
    BY <1>3, <2>3, <2>4 DEF ScopeRecord
  <2> QED BY <1>3, <1>6, <2>1, <2>5 DEF status
<1>10. CASE ListedSegment \/ BigSegmentOfOtherKind \/ MembershipCached
  <2>1. UNCHANGED <<scopes, consults>>
    BY <1>10 DEF ListedSegment, BigSegmentOfOtherKind, MembershipCached
  <2> QED BY <1>1, <1>3, <1>4, <2>1, UnseenSteps DEF Unseen
<1> QED BY <1>8, <1>9, <1>10 DEF BigSegmentStep

\* The status of the scope that a prerequisite gives way to is that of the prerequisite.
LEMMA StatusOfPopped ==
  ASSUME TypeInv, TypeInv', StatusInv, NEW step \in {0, 1}, Popped(step)
  PROVE  UNCHANGED StatusSoFar
<1> DEFINE n == Len(scopes)
<1>1. n \in Nat /\ n > 1 /\ scopes # <<>> /\ scopes' # <<>>
  BY PositionsPopped DEF TypeInv, TypeOK, Popped, PrerequisiteReturns
<1>2. /\ Len(scopes') = n - 1
      /\ scopes'[n - 1] = [Caller EXCEPT !.bigSegmentsStatus = MergedStatus, !.prereq = @ + step]
      /\ Caller \in ScopeRecord /\ Caller = scopes[n - 1] /\ Scope = scopes[n]
  BY <1>1, PopTypes, ScopeTypes DEF Popped, TypeInv, Caller
<1>3. scopes'[n - 1].bigSegmentsStatus = MergedStatus
  BY <1>2 DEF ScopeRecord
<1>4. StatusesSeen \in SUBSET ProviderStatus
  <2>1. consults \in Seq(ConsultRecord)
    BY DEF TypeInv, TypeOK
  <2>2. \A i \in DOMAIN consults : consults[i] \in ConsultRecord
    BY <2>1, LenProperties, ElementOfSeq
  <2> QED BY <2>2 DEF StatusesSeen, ConsultRecord
<1>5. /\ scopes[n].bigSegmentsStatus \in WorstOf(StatusesSeen)
      /\ scopes[n - 1].bigSegmentsStatus \in StatusesSeen \cup {NoStatus}
  <2>1. n - 1 \in 1..n
    BY <1>1
  <2> QED BY <1>1, <2>1 DEF StatusInv, RunningScopeHasWorst, WaitingScopesHaveSeen
<1>6. MergedStatus = scopes[n].bigSegmentsStatus
  <2>1. \A old \in StatusesSeen \cup {NoStatus} :
          ComputeUpdatedBigSegmentsStatus(old, scopes[n].bigSegmentsStatus)
            = scopes[n].bigSegmentsStatus
    BY <1>4, <1>5, WorstStatus
  <2> QED BY <1>2, <1>5, <2>1 DEF MergedStatus
<1> QED BY <1>1, <1>2, <1>3, <1>6, StatusOfLast

\* A prerequisite has been evaluated and recorded, once and for all.
LEMMA PrerequisiteSeen ==
  ASSUME EvaluationInv, TypeInv', StatusInv, EventsAreOver,
         NEW step \in {0, 1}, Popped(step), RecordEvent, ~GivingUp, ~GivingUp',
         UNCHANGED <<consults, result>>,
         UNCHANGED log \/ \E key, err : log' = Append(log, [flag |-> key, err |-> err])
  PROVE  ContractStep
<1>1. /\ TypeInv /\ scopes # <<>> /\ scopes' # <<>> /\ result = <<>> /\ UNCHANGED StatusSoFar
  BY PositionsPopped, ResultEndsAll, StatusOfPopped DEF EvaluationInv, Popped
<1>2. Phase = "running" /\ Phase' = "running"
  BY <1>1, PhaseCases, LaterPhaseCases
<1>3. UNCHANGED log \/ Contract!OneMore(log, log')
  BY <1>1, LoggedMessage
<1>4. CASE RecorderProvided
  <2>1. /\ Len(events') = Len(events) + 1
        /\ \A i \in 1..Len(events) : events'[i] = events[i]
        /\ events'[Len(events')] = PrerequisiteFlagEvent
    BY <1>1, <1>4, RecordedEvent
  <2>2. \A i \in 1..Len(events) : events[i].path # events'[Len(events')].path
    BY <1>1, <2>1, EventsComeBefore DEF PrerequisiteFlagEvent
  <2>3. Contract!Record
    BY <1>1, <1>2, <1>3, <2>1, <2>2
       DEF Contract!Record, Contract!OneMore, Contract!Kept, Contract!AtMostOneMore
  <2> QED BY <2>3 DEF ContractStep, Contract!Next
<1>5. CASE ~RecorderProvided
  <2>1. UNCHANGED events
    BY <1>1, <1>5, RecordedEvent
  <2>2. CASE UNCHANGED log
    BY <1>1, <1>2, <2>1, <2>2, UnseenSteps DEF Unseen
  <2>3. CASE Contract!OneMore(log, log')
    <3>1. Contract!LogError
      BY <1>1, <1>2, <2>1, <2>3 DEF Contract!LogError
    <3> QED BY <3>1 DEF ContractStep, Contract!Next
  <2> QED BY <1>3, <2>2, <2>3
<1> QED BY <1>4, <1>5

\* The result is sound and has the status.
LEMMA ReturnResultSeen ==
  ASSUME EvaluationInv, TypeInv', ReturnResult
  PROVE  ContractStep
<1> DEFINE detail == [evalRet[1].detail EXCEPT !.reason.bigSegmentsStatus = Scope.bigSegmentsStatus]
<1>1. /\ TypeInv /\ IsDefined(evalRet) /\ scopes # <<>> /\ result = <<>>
      /\ scopes' = <<>>
      /\ result' = <<[detail |-> detail, isExperiment |-> IsExperiment(Scope.flag, detail.reason)]>>
      /\ UNCHANGED <<events, consults, log>>
  BY ResultEndsAll DEF ReturnResult, EvaluationInv, IsDefined
<1>2. evalRet[1].detail \in Detail
  BY <1>1, OptionalValues DEF TypeInv, TypeOK, EvalReturn
<1>3. /\ detail.variation = evalRet[1].detail.variation
      /\ detail.reason.kind = evalRet[1].detail.reason.kind
      /\ detail.reason.errorKind = evalRet[1].detail.reason.errorKind
      /\ detail.reason.bigSegmentsStatus = Scope.bigSegmentsStatus
  BY <1>2 DEF Detail, Reason
<1> HIDE DEF detail
<1>4. Len(result') = 1 /\ result'[1].detail = detail /\ result' # <<>>
  BY <1>1
<1>5. /\ Phase = IF GivingUp THEN "failing" ELSE "running"
      /\ Phase' = "returned"
      /\ StatusSoFar = Scope.bigSegmentsStatus
      /\ StatusSoFar' = detail.reason.bigSegmentsStatus
  BY <1>1, <1>4, PhaseCases, LaterPhaseCases
<1>6. /\ detail.reason.kind = "ERROR" =>
           MalformedDetail(evalRet[1].detail) /\ log # <<>>
      /\ GivingUp => MalformedDetail(evalRet[1].detail)
  BY <1>1, <1>3 DEF EvaluationInv, AnswerInv, ReturnIsSound, SoundDetail, PlainDetail,
                    PlainReason, GivingUp
<1>7. Contract!Answer
  BY <1>1, <1>3, <1>4, <1>5, <1>6 DEF Contract!Answer, Contract!IsMalformed, MalformedDetail
<1> QED BY <1>7 DEF ContractStep, Contract!Next

\* Every step of an evaluation.
LEMMA EveryStepSeen ==
  ASSUME EvaluationInv, TypeInv', StatusInv, EventsAreOver, [Next]_vars
  PROVE  ContractStep
<1>1. TypeInv
  BY DEF EvaluationInv
<1>2. CASE StoreUpdate \/ Returned \/ UNCHANGED vars
  <2>1. UNCHANGED <<scopes, evalRet, result, events, consults, log>>
    BY <1>2 DEF StoreUpdate, UpdateFlag, UpdateSegment, UpdateBigSegments, Returned, vars,
                evaluation
  <2>2. UNCHANGED <<Phase, StatusSoFar>>
    BY <2>1 DEF Phase, StatusSoFar, GivingUp, Scope
  <2> QED BY <2>1, <2>2, UnseenSteps DEF Unseen
<1>3. CASE EvaluatePrerequisite
  <2>1. /\ scopes # <<>> /\ scopes' # <<>> /\ evalRet = <<>> /\ result = <<>>
        /\ UNCHANGED <<evalRet, result, events, consults, log>>
    BY <1>1, <1>3, PositionsPushed, ResultEndsAll
       DEF EvaluatePrerequisite, AtPrerequisite, BeforeRules
  <2> DEFINE scope == NewScope(flagData[Prereq.key][1], ExtendedChain,
                               Scope.bigSegmentsStatus, Scope.bigSegmentsMemberships)
  <2>2. scopes' = Append(scopes, scope) /\ scope.bigSegmentsStatus = Scope.bigSegmentsStatus
    BY <1>3 DEF EvaluatePrerequisite, NewScope
  <2> HIDE DEF scope
  <2>3. scopes'[Len(scopes')] = scope
    BY <1>1, <2>2 DEF TypeInv, TypeOK
  <2>4. UNCHANGED StatusSoFar
    BY <1>1, <2>1, <2>2, <2>3, PhaseCases, StatusOfLast
  <2>5. UNCHANGED Phase
    BY <2>1, PhaseCases, LaterPhaseCases DEF GivingUp, IsDefined
  <2> QED BY <2>1, <2>4, <2>5, UnseenSteps DEF Unseen
<1>4. CASE PrerequisitePassed
  <2>1. /\ Popped(1) /\ RecordEvent /\ ~GivingUp /\ ~GivingUp'
        /\ UNCHANGED <<consults, result, log>>
    BY <1>4 DEF PrerequisitePassed, Popped, PrerequisiteValid, GivingUp, IsDefined
  <2> QED BY <2>1, PrerequisiteSeen
<1>5. CASE PrerequisiteFailed
  <2> DEFINE outcome == GetOffValue(Caller.flag, PrerequisiteFailedReason(CallerPrereq.key))
  <2>1. /\ Popped(0) /\ RecordEvent /\ ~GivingUp
        /\ evalRet' = <<[detail |-> outcome.detail, ok |-> TRUE]>>
        /\ log' = IF outcome.err = NoError THEN log
                  ELSE Append(log, [flag |-> Caller.flag.key, err |-> outcome.err])
        /\ UNCHANGED <<consults, result>>
    BY <1>5 DEF PrerequisiteFailed, Popped, PrerequisiteValid, GivingUp
  <2> HIDE DEF outcome
  <2>2. ~GivingUp'
    BY <2>1 DEF GivingUp
  <2>3. UNCHANGED log \/ \E key, err : log' = Append(log, [flag |-> key, err |-> err])
    BY <2>1
  <2> QED BY <2>1, <2>2, <2>3, PrerequisiteSeen
<1>6. CASE PrerequisiteInvalid
  <2>1. /\ Popped(0) /\ GivingUp /\ scopes # <<>> /\ scopes' # <<>> /\ result = <<>>
        /\ evalRet' = <<[detail |-> ErrorDetail("MALFORMED_FLAG"), ok |-> FALSE]>>
        /\ UNCHANGED <<events, consults, result, log>>
    BY <1>1, <1>6, PositionsPopped, ResultEndsAll
       DEF PrerequisiteInvalid, Popped, PrerequisiteReturns, PrerequisiteValid, GivingUp
  <2>2. GivingUp'
    BY <2>1 DEF GivingUp, IsDefined
  <2>3. UNCHANGED Phase
    BY <2>1, <2>2, PhaseCases, LaterPhaseCases
  <2>4. UNCHANGED StatusSoFar
    BY <1>1, <2>1, StatusOfPopped
  <2> QED BY <2>1, <2>3, <2>4, UnseenSteps DEF Unseen
<1>7. CASE RejectContext
  <2>1. /\ scopes = <<>> /\ result = <<>> /\ UNCHANGED <<scopes, events, consults, log>>
        /\ result' = <<[detail |-> ErrorDetail("USER_NOT_SPECIFIED"), isExperiment |-> FALSE]>>
    BY <1>7 DEF RejectContext
  <2>2. ErrorDetail("USER_NOT_SPECIFIED").reason.bigSegmentsStatus = NoStatus
    BY DEF ErrorDetail, DefaultDetail, ErrorReason, NewReason
  <2>3. Phase = "idle" /\ Phase' = "returned" /\ UNCHANGED StatusSoFar
    BY <2>1, <2>2, PhaseCases, LaterPhaseCases
  <2>4. Contract!Reject
    BY <2>1, <2>3, SharedReasons DEF Contract!Reject
  <2> QED BY <2>4 DEF ContractStep, Contract!Next
<1>8. CASE EvaluateSome
  <2>1. PICK flag : /\ scopes' = <<NewScope(flag, <<>>, NoStatus, NoMemberships)>>
                    /\ scopes = <<>> /\ result = <<>>
                    /\ UNCHANGED <<evalRet, result, events, consults, log>>
    BY <1>8 DEF EvaluateSome, Evaluate
  <2>2. scopes' # <<>> /\ scopes'[Len(scopes')].bigSegmentsStatus = NoStatus
    BY <2>1 DEF NewScope
  <2>3. evalRet = <<>>
    BY <2>1, ResultEndsAll
  <2>4. Phase = "idle" /\ Phase' = "running" /\ UNCHANGED StatusSoFar
    BY <1>1, <2>1, <2>2, <2>3, PhaseCases, LaterPhaseCases, StatusOfLast
       DEF GivingUp, IsDefined
  <2>5. Contract!Start
    BY <2>1, <2>4 DEF Contract!Start
  <2> QED BY <2>5 DEF ContractStep, Contract!Next
<1>9. CASE InnerStep \/ BigSegmentStep \/ ReturnResult
  BY <1>9, InnerStepSeen, BigSegmentStepSeen, ReturnResultSeen
<1> QED BY <1>1, <1>2, <1>3, <1>4, <1>5, <1>6, <1>7, <1>8, <1>9, StepCases DEF Next, EvaluationInv

\* Whatever data an evaluation meets, its caller sees what the contract says: Evaluate
\* implements EvaluationContract.
THEOREM EvaluationMeetsContract == Spec => KeepsTheContract
<1>1. Init => Contract!Init
  BY PhaseCases, SharedReasons DEF Init, Contract!Init
<1>2. TourStateInv /\ TourStateInv' /\ [Next]_vars => ContractStep
  BY EveryStepSeen DEF TourStateInv, TourInv, EvaluationInv
<1>3. TourStateInv /\ TourStateInv' /\ [Next]_vars => [Contract!Next]_(Contract!vars)
  BY <1>2 DEF ContractStep
<1> QED BY <1>1, <1>3, EvaluationKeepsTour, PTL DEF Spec, KeepsTheContract, Contract!Spec

------------------------------------------------------------------------------
(***************************************************************************)
(* The members of segments that do not refer to one another in a circle.   *)
(***************************************************************************)
\* What ConsistentMembers says of one segment, and the segments that its rules name.
SegmentContains(key, members) ==
  /\ IsDefined(segmentData[key])
  /\ LET s == segmentData[key][1]
         verdict == DeclaredVerdict(s)
     IN  IF IsDefined(verdict) THEN verdict[1] = TRUE
         ELSE \E r \in DOMAIN s.rules :
                /\ RuleHolds(s.rules[r], members)
                /\ SegmentRuleWeightMatches(s.rules[r], context, s.key, s.salt).match
NamedBy(key) ==
  {k \in SegmentKeys :
     /\ IsDefined(segmentData[key])
     /\ \E r \in DOMAIN segmentData[key][1].rules :
          LET clauses == segmentData[key][1].rules[r].clauses
          IN  \E i \in DOMAIN clauses :
                clauses[i].op = "segmentMatch" /\ k \in NamedSegments(clauses[i])}

\* Whether a rule holds depends on the segments that its clauses name.
LEMMA RulesDependOnNames ==
  ASSUME NEW rule, NEW a, NEW b, NEW names,
         \A i \in DOMAIN rule.clauses :
           rule.clauses[i].op = "segmentMatch" => NamedSegments(rule.clauses[i]) \subseteq names,
         a \cap names = b \cap names
  PROVE  RuleHolds(rule, a) <=> RuleHolds(rule, b)
<1>1. ASSUME NEW i \in DOMAIN rule.clauses
      PROVE  ClauseHolds(rule.clauses[i], a) <=> ClauseHolds(rule.clauses[i], b)
  <2>1. CASE rule.clauses[i].op = "segmentMatch"
    <3>1. NamedSegments(rule.clauses[i]) \subseteq names
      BY <1>1, <2>1
    <3>2. NamedSegments(rule.clauses[i]) \cap a = NamedSegments(rule.clauses[i]) \cap b
      BY <3>1
    <3> QED BY <3>2, <2>1 DEF ClauseHolds
  <2>2. CASE rule.clauses[i].op # "segmentMatch"
    BY <2>2 DEF ClauseHolds
  <2> QED BY <2>1, <2>2
<1> QED BY <1>1 DEF RuleHolds

\* And so does what a segment contains.
LEMMA ContainsDependsOnNames ==
  ASSUME NEW key \in SegmentKeys, NEW a \in SUBSET SegmentKeys, NEW b \in SUBSET SegmentKeys,
         a \cap NamedBy(key) = b \cap NamedBy(key), SegmentContains(key, a)
  PROVE  SegmentContains(key, b)
<1> DEFINE s == segmentData[key][1]
<1>1. IsDefined(segmentData[key])
  BY DEF SegmentContains
<1>2. CASE IsDefined(DeclaredVerdict(s))
  BY <1>2 DEF SegmentContains
<1>3. CASE ~IsDefined(DeclaredVerdict(s))
  <2>1. PICK r \in DOMAIN s.rules :
          /\ RuleHolds(s.rules[r], a)
          /\ SegmentRuleWeightMatches(s.rules[r], context, s.key, s.salt).match
    BY <1>3 DEF SegmentContains
  <2> DEFINE rule == s.rules[r]
  <2>2. \A i \in DOMAIN rule.clauses :
          rule.clauses[i].op = "segmentMatch" =>
            NamedSegments(rule.clauses[i]) \subseteq NamedBy(key)
    <3>1. \A c : NamedSegments(c) \subseteq SegmentKeys
      BY DEF NamedSegments
    <3> QED BY <1>1, <3>1 DEF NamedBy
  <2>3. RuleHolds(rule, b)
    <3> HIDE DEF rule
    <3>1. RuleHolds(rule, a)
      BY <2>1 DEF rule
    <3> QED BY <3>1, <2>2, RulesDependOnNames
  <2> QED BY <1>1, <1>3, <2>1, <2>3 DEF SegmentContains
<1> QED BY <1>2, <1>3

\* Segments without a circle have a set of members.
LEMMA MembersExist ==
  ASSUME ~SegmentsAreCyclic
  PROVE  \E members \in SUBSET SegmentKeys :
           \A key \in SegmentKeys : key \in members <=> SegmentContains(key, members)
<1> DEFINE refs == [key \in SegmentKeys |-> NamedBy(key)]
           defined == {p \in SegmentKeys \X SUBSET SegmentKeys : SegmentContains(p[1], p[2])}
<1>1. \A key \in SegmentKeys : refs[key] \subseteq SegmentKeys
  BY DEF NamedBy
<1>2. DependsOnRefs(SegmentKeys, refs, defined)
  <2>1. SUFFICES ASSUME NEW k \in SegmentKeys,
                        NEW a \in SUBSET SegmentKeys, NEW b \in SUBSET SegmentKeys,
                        a \cap NamedBy(k) = b \cap NamedBy(k)
                 PROVE  SegmentContains(k, a) <=> SegmentContains(k, b)
    BY DEF DependsOnRefs
  <2> QED BY <2>1, ContainsDependsOnNames
<1>3. WellFounded(SegmentKeys, refs)
  <2>1. SUFFICES ASSUME NEW X \in SUBSET SegmentKeys, X # {}
                 PROVE  \E k \in X : NamedBy(k) \cap X = {}
    BY DEF WellFounded
  <2>2. PICK k \in X : ~(/\ IsDefined(segmentData[k])
                         /\ \E r \in DOMAIN segmentData[k][1].rules :
                              LET clauses == segmentData[k][1].rules[r].clauses
                              IN  \E i \in DOMAIN clauses :
                                    /\ clauses[i].op = "segmentMatch"
                                    /\ NamedSegments(clauses[i]) \cap X # {})
    BY <2>1 DEF SegmentsAreCyclic
  <2> QED BY <2>2 DEF NamedBy
<1> HIDE DEF refs
<1>4. PICK members \in SUBSET SegmentKeys :
        \A k \in SegmentKeys : k \in members <=> <<k, members>> \in defined
  <2> HIDE DEF defined
  <2> QED BY <1>1, <1>2, <1>3, SolutionExists
<1>5. \A k \in SegmentKeys : <<k, members>> \in defined <=> SegmentContains(k, members)
  OBVIOUS
<1> QED BY <1>4, <1>5

\* Such a set is what MeaningOfEvaluation calls consistent.
LEMMA ConsistentMembersContain ==
  ASSUME NEW members
  PROVE  ConsistentMembers(members) <=>
           \A key \in SegmentKeys : key \in members <=> SegmentContains(key, members)
BY DEF ConsistentMembers, SegmentContains

------------------------------------------------------------------------------
(***************************************************************************)
(* What the lists of a segment say, and what the state of an evaluation says *)
(* about the members of segments.                                          *)
(***************************************************************************)
\* Lists of keys for the default kind and for other kinds say together what ListedIn says.
LEMMA TargetListsAgree ==
  ASSUME NEW keys, NEW targets,
         \A i \in DOMAIN targets : targets[i].contextKind \notin {"", DefaultKind}
  PROVE  LET userKey == GetApplicableContextKeyByKind(context, DefaultKind)
         IN  ListedIn(keys, targets) <=>
               \/ IsDefined(userKey) /\ userKey[1] \in keys
               \/ /\ ~IsOnlyDefaultKind(context)
                  /\ \E i \in DOMAIN targets : ContainsKeyOfKind(targets[i])
<1> DEFINE userKey == GetApplicableContextKeyByKind(context, DefaultKind)
           OfDefault == IsDefined(userKey) /\ userKey[1] \in keys
           OfOther == \E i \in DOMAIN targets :
                        /\ targets[i].contextKind \in DOMAIN context.individuals
                        /\ context.individuals[targets[i].contextKind].key \in targets[i].values
<1>1. userKey = IF DefaultKind \in DOMAIN context.individuals
                THEN <<context.individuals[DefaultKind].key>> ELSE <<>>
  BY DEF GetApplicableContextKeyByKind, HasKind, IndividualContextByKind, KindOrDefault
<1>2. OfDefault <=> /\ DefaultKind \in DOMAIN context.individuals
                    /\ context.individuals[DefaultKind].key \in keys
  <2> HIDE DEF userKey
  <2>1. CASE DefaultKind \in DOMAIN context.individuals
    <3>1. userKey = <<context.individuals[DefaultKind].key>>
      BY <1>1, <2>1
    <3>2. userKey # <<>> /\ userKey[1] = context.individuals[DefaultKind].key
      BY <3>1
    <3> QED BY <2>1, <3>2 DEF IsDefined
  <2>2. CASE DefaultKind \notin DOMAIN context.individuals
    BY <1>1, <2>2 DEF IsDefined
  <2> QED BY <2>1, <2>2
<1>3. \A i \in DOMAIN targets : ContainsKeyOfKind(targets[i]) <=>
        /\ targets[i].contextKind \in DOMAIN context.individuals
        /\ context.individuals[targets[i].contextKind].key \in targets[i].values
  <2>1. ASSUME NEW i \in DOMAIN targets
        PROVE  KindOrDefault(targets[i].contextKind) = targets[i].contextKind
    BY <2>1 DEF KindOrDefault
  <2> QED BY <2>1 DEF ContainsKeyOfKind, GetApplicableContextKeyByKind, HasKind,
                      IndividualContextByKind, IsDefined
<1>4. OfOther => ~IsOnlyDefaultKind(context)
  BY DEF IsOnlyDefaultKind
<1>5. ListedIn(keys, targets) <=>
        \/ /\ DefaultKind \in DOMAIN context.individuals
           /\ context.individuals[DefaultKind].key \in keys
        \/ OfOther
  BY DEF ListedIn
<1> QED BY <1>2, <1>3, <1>4, <1>5

\* The lists of a segment decide what its declaration says.
LEMMA ListsDecide ==
  ASSUME ListsAreForOtherKinds, NEW s \in Segments, ~s.unbounded
  PROVE  SegmentListsVerdict(s) = DeclaredVerdict(s)
<1>1. /\ \A i \in DOMAIN s.includedContexts :
           s.includedContexts[i].contextKind \notin {"", DefaultKind}
      /\ \A i \in DOMAIN s.excludedContexts :
           s.excludedContexts[i].contextKind \notin {"", DefaultKind}
  BY DEF ListsAreForOtherKinds
<1> DEFINE userKey == GetApplicableContextKeyByKind(context, DefaultKind)
           In(keys, targets) ==
             \/ IsDefined(userKey) /\ userKey[1] \in keys
             \/ /\ ~IsOnlyDefaultKind(context)
                /\ \E i \in DOMAIN targets : ContainsKeyOfKind(targets[i])
<1>2. ListedIn(s.included, s.includedContexts) <=> In(s.included, s.includedContexts)
  BY <1>1, TargetListsAgree
<1>3. ListedIn(s.excluded, s.excludedContexts) <=> In(s.excluded, s.excludedContexts)
  BY <1>1, TargetListsAgree
<1>4. SegmentListsVerdict(s) = IF In(s.included, s.includedContexts) THEN <<TRUE>>
                               ELSE IF In(s.excluded, s.excludedContexts) THEN <<FALSE>> ELSE <<>>
  BY DEF SegmentListsVerdict
<1>5. DeclaredVerdict(s) = IF ListedIn(s.included, s.includedContexts) THEN <<TRUE>>
                           ELSE IF ListedIn(s.excluded, s.excludedContexts) THEN <<FALSE>> ELSE <<>>
  BY DEF DeclaredVerdict
<1> HIDE DEF In
<1> QED BY <1>2, <1>3, <1>4, <1>5
------------------------------------------------------------------------------
\* The clause and the value that a walk has come to, and that it has come to a value that
\* may name a segment.
ClauseOf(w) == w.src.rules[w.rule].clauses[w.clause]
ValueOf(w) == ClauseOf(w).values[w.value]
AtSegment(w) ==
  /\ w.rule \in 1..Len(w.src.rules)
  /\ w.clause \in 1..Len(w.src.rules[w.rule].clauses)
  /\ ClauseOf(w).op = "segmentMatch"
  /\ w.value \in 1..Len(ClauseOf(w).values)
\* A value of a segment clause names a member.
NamesMember(v, members) == IsString(v) /\ v[2] \in members
\* w walks over the rules of the segment that its caller has come to, in its version of now.
Entered(caller, w) ==
  /\ AtSegment(caller)
  /\ IsString(ValueOf(caller)) /\ ValueOf(caller)[2] \in SegmentKeys
  /\ segmentData[ValueOf(caller)[2]] = <<w.src>>
\* Rules of a segment are only walked if its lists and memberships say nothing.
Undecided(w) == w.rule >= 1 => DeclaredVerdict(w.src) = <<>>
\* The first walk is over the flag's rules, and each other one is for the value before it.
WalksAreCurrent ==
  /\ walks # <<>> => walks[1].src = scopes[Len(scopes)].flag
  /\ \A i \in 2..Len(walks) : Entered(walks[i - 1], walks[i]) /\ Undecided(walks[i])
  /\ segRet # <<>> => AtSegment(walks[Len(walks)])

\* The r-th rule of a flag or segment holds, its weight included.
HoldsIn(src, isSegment, r, members) ==
  /\ RuleHolds(src.rules[r], members)
  /\ isSegment => SegmentRuleWeightMatches(src.rules[r], context, src.key, src.salt).match
\* What a walk has passed: rules that do not hold, then clauses of the rule it has come to
\* that hold, then values of its clause that name no member.
WalkedSoFar(w, isSegment, members) ==
  /\ \A r \in 1..(w.rule - 1) : ~HoldsIn(w.src, isSegment, r, members)
  /\ \A c \in 1..(w.clause - 1) : ClauseHolds(w.src.rules[w.rule].clauses[c], members)
  /\ \A n \in 1..(w.value - 1) : ~NamesMember(ClauseOf(w).values[n], members)

\* What the scopes have cached is what the store would answer now.
CacheIsCurrent ==
  \A i \in 1..Len(scopes) : \A key \in DOMAIN scopes[i].bigSegmentsMemberships :
    /\ ProviderConfigured
    /\ scopes[i].bigSegmentsMemberships[key] = bigSegmentData[key].membership
\* The invariant for one set of members: of what the walks have passed, and of what a segment
\* has returned to the value that names it.
WalksMean(members) == \A i \in 1..Len(walks) : WalkedSoFar(walks[i], i > 1, members)
SegmentMeans(members) ==
  segRet # <<>> /\ segRet[1].err = NoError =>
    /\ segRet[1].match => NamesMember(ValueOf(walks[Len(walks)]), members)
    /\ ~segRet[1].match => ~NamesMember(ValueOf(walks[Len(walks)]), members)
MeantSoFar(members) == WalksMean(members) /\ SegmentMeans(members)
\* As long as no update has disturbed the evaluation, that holds for every consistent set.
Meaning ==
  /\ WalksAreCurrent
  /\ \A members \in SUBSET SegmentKeys : ConsistentMembers(members) => MeantSoFar(members)
MeaningInv == ~updated => CacheIsCurrent /\ Meaning

\* Nothing moves under an evaluation that no update has disturbed.
SameData == UNCHANGED <<context, flagData, segmentData, bigSegmentData>>

\* A step that leaves no update behind leaves the data alone.
LEMMA SameDataStep ==
  ASSUME [Next]_vars, ~updated', TypeInv
  PROVE  ~updated /\ ~StoreUpdate /\ SameData
<1>1. ~StoreUpdate
  BY DEF StoreUpdate, UpdateFlag, UpdateSegment, UpdateBigSegments
<1>2. FlagStep => UNCHANGED <<stores, context>>
  BY DEF FlagStep, FlagIsOff, PrerequisiteMissing, PrerequisiteCircular,
         EvaluatePrerequisite, PrerequisiteInvalid, PrerequisitePassed, PrerequisiteFailed,
         TargetsMatch, StartRules, ReturnResult
<1>3. RuleStep => UNCHANGED <<stores, context>>
  BY DEF RuleStep, FlagRuleMatches, Fallthrough, SegmentRuleMatches, SegmentRulesExhausted,
         PlainClause, NoSuchSegment, SegmentCircular, EnterSegment, SegmentClauseExhausted,
         SegmentReturned
<1>4. BigSegmentStep => UNCHANGED <<stores, context>>
  BY DEF BigSegmentStep, ListedSegment, BigSegmentWithoutGeneration, BigSegmentOfOtherKind,
         MembershipCached, BigSegmentsNotConfigured, QueryMembership
<1>5. RejectContext \/ EvaluateSome \/ Returned \/ UNCHANGED vars => UNCHANGED <<stores, context>>
  BY DEF RejectContext, EvaluateSome, Evaluate, Returned, vars
<1>6. UNCHANGED <<stores, context>>
  BY <1>1, <1>2, <1>3, <1>4, <1>5 DEF Next, Step
<1> QED BY <1>1, <1>6 DEF stores, SameData

\* What the same data means stays the same.
LEMMA SameMeaning ==
  ASSUME SameData
  PROVE  /\ \A members : ConsistentMembers(members)' <=> ConsistentMembers(members)
         /\ \A s : DeclaredVerdict(s)' = DeclaredVerdict(s)
         /\ \A rule, members : RuleHolds(rule, members)' <=> RuleHolds(rule, members)
         /\ \A c, members : ClauseHolds(c, members)' <=> ClauseHolds(c, members)
<1>1. \A s : DeclaredVerdict(s)' = DeclaredVerdict(s)
  <2>1. \A keys, targets : ListedIn(keys, targets)' <=> ListedIn(keys, targets)
    BY DEF ListedIn, SameData
  <2> QED BY <2>1 DEF DeclaredVerdict, SameData
<1>2. \A c, members : ClauseHolds(c, members)' <=> ClauseHolds(c, members)
  BY DEF ClauseHolds, SameData
<1>3. \A rule, members : RuleHolds(rule, members)' <=> RuleHolds(rule, members)
  BY <1>2 DEF RuleHolds
<1>4. \A members : ConsistentMembers(members)' <=> ConsistentMembers(members)
  BY <1>1, <1>3 DEF ConsistentMembers, SameData
<1> QED BY <1>1, <1>2, <1>3, <1>4

------------------------------------------------------------------------------
(***************************************************************************)
(* How the stack of walks may change without losing what it says.          *)
(***************************************************************************)
SameFlag == scopes'[Len(scopes')].flag = scopes[Len(scopes)].flag

\* What a walk has passed means the same under the same data.
LEMMA SameWalk ==
  ASSUME SameData, NEW w, NEW isSegment, NEW members
  PROVE  WalkedSoFar(w, isSegment, members)' <=> WalkedSoFar(w, isSegment, members)
<1>1. context' = context
  BY DEF SameData
<1>2. \A r : HoldsIn(w.src, isSegment, r, members)' <=> HoldsIn(w.src, isSegment, r, members)
  BY <1>1, SameMeaning DEF HoldsIn
<1> QED BY <1>2, SameMeaning DEF WalkedSoFar, NamesMember

\* The walks up to the n-th one are the same, but that the last of them may have moved on.
TopChanges(n) ==
  /\ n \in 1..Len(walks) /\ Len(walks') = n
  /\ \A i \in 1..(n - 1) : walks'[i] = walks[i]
  /\ walks'[n].src = walks[n].src
\* Such a change keeps the walks where they belong,
LEMMA TopChangesCurrent ==
  ASSUME TypeInv, SameData, SameFlag, WalksAreCurrent, NEW n, TopChanges(n),
         n > 1 => Undecided(walks'[n]), segRet' # <<>> => AtSegment(walks'[n])
  PROVE  WalksAreCurrent'
<1>0. PICK later : later = walks'
  OBVIOUS
<1>1. Len(walks) \in Nat /\ n \in Nat \ {0} /\ n <= Len(walks) /\ Len(walks') = n /\ walks # <<>>
  BY DEF TypeInv, TypeOK, TopChanges
<1>2. later[1].src = walks[1].src
  BY <1>0, <1>1 DEF TopChanges
<1>3. ASSUME NEW i \in 2..n
      PROVE  Entered(later[i - 1], later[i])' /\ Undecided(later[i])'
  <2>1. i \in 2..Len(walks) /\ i - 1 \in 1..(n - 1)
    BY <1>1
  <2>2. Entered(walks[i - 1], walks[i]) /\ Undecided(walks[i])
    BY <2>1 DEF WalksAreCurrent
  <2>3. later[i - 1] = walks[i - 1] /\ later[i].src = walks[i].src
    BY <1>0, <1>1, <2>1 DEF TopChanges
  <2>4. Undecided(later[i])
    <3>1. CASE i = n
      BY <1>0, <1>1, <3>1
    <3>2. CASE i # n
      <4>1. i \in 1..(n - 1)
        BY <1>1, <3>2
      <4> QED BY <1>0, <2>2, <4>1 DEF TopChanges
    <3> QED BY <3>1, <3>2
  <2>5. Entered(later[i - 1], later[i])
    BY <2>2, <2>3 DEF Entered
  <2>6. Entered(later[i - 1], later[i])'
    BY <2>5 DEF Entered, SameData
  <2>7. Undecided(later[i])'
    BY <2>4, SameMeaning DEF Undecided
  <2> QED BY <2>6, <2>7
<1>4. segRet' # <<>> => AtSegment(later[n])
  BY <1>0
<1>5. later[1].src = scopes'[Len(scopes')].flag
  BY <1>1, <1>2 DEF WalksAreCurrent, SameFlag
<1> QED BY <1>0, <1>1, <1>3, <1>4, <1>5 DEF WalksAreCurrent

\* and what they have passed, if the last of them has passed what it says.
LEMMA TopChangesMean ==
  ASSUME TypeInv, SameData, NEW members, WalksMean(members), NEW n, TopChanges(n),
         WalkedSoFar(walks'[n], n > 1, members)
  PROVE  WalksMean(members)'
<1>0. PICK later : later = walks'
  OBVIOUS
<1>1. Len(walks) \in Nat /\ n \in Nat \ {0} /\ n <= Len(walks) /\ Len(later) = n
  BY <1>0 DEF TypeInv, TypeOK, TopChanges
<1>2. ASSUME NEW i \in 1..n PROVE WalkedSoFar(later[i], i > 1, members)
  <2>1. CASE i = n
    BY <1>0, <2>1
  <2>2. CASE i # n
    <3>1. i \in 1..(n - 1) /\ i \in 1..Len(walks)
      BY <1>1, <2>2
    <3> QED BY <1>0, <3>1 DEF TopChanges, WalksMean
  <2> QED BY <2>1, <2>2
<1>3. \A i \in 1..n : WalkedSoFar(later[i], i > 1, members)'
  BY <1>2, SameWalk
<1> QED BY <1>0, <1>1, <1>3 DEF WalksMean

\* The innermost walk has moved on.
LEMMA WalkMoved ==
  ASSUME TypeInv, SameData, SameFlag, Meaning, walks # <<>>,
         NEW w, w.src = Walk.src, walks' = [walks EXCEPT ![Len(walks)] = w],
         segRet' = <<>>,
         Len(walks) > 1 => Undecided(w),
         \A members \in SUBSET SegmentKeys :
           ConsistentMembers(members) => WalkedSoFar(w, Len(walks) > 1, members)
  PROVE  Meaning'
<1> DEFINE n == Len(walks)
<1>1. walks \in Seq(WalkRecord) /\ n \in Nat \ {0} /\ Walk = walks[n]
  BY WalkTypes DEF TypeInv, TypeOK
<1>2. walks'[n] = w /\ TopChanges(n)
  BY <1>1 DEF TopChanges
<1> HIDE DEF n
<1>3. WalksAreCurrent'
  BY <1>2, TopChangesCurrent DEF Meaning, n
<1>4. ASSUME NEW members \in SUBSET SegmentKeys, ConsistentMembers(members)
      PROVE  MeantSoFar(members)'
  <2>1. WalksMean(members)
    BY <1>4 DEF Meaning, MeantSoFar
  <2>2. WalksMean(members)'
    BY <1>2, <1>4, <2>1, TopChangesMean DEF n
  <2> QED BY <2>2 DEF MeantSoFar, SegmentMeans
<1> QED BY <1>3, <1>4, SameMeaning DEF Meaning

\* A segment has returned to the walk before.
LEMMA WalkPopped ==
  ASSUME TypeInv, SameData, SameFlag, Meaning, walks # <<>>, Len(walks) > 1,
         NEW r \in MatchResult, SegmentReturns(r),
         \A members \in SUBSET SegmentKeys : ConsistentMembers(members) /\ r.err = NoError =>
           (r.match <=> NamesMember(ValueOf(walks[Len(walks) - 1]), members))
  PROVE  Meaning'
<1> DEFINE n == Len(walks) - 1
<1>1. walks \in Seq(WalkRecord) /\ Len(walks) \in Nat \ {0, 1}
  BY WalkTypes DEF TypeInv, TypeOK
<1>2. /\ Len(walks') = n /\ n \in 1..Len(walks) /\ n + 1 \in 2..Len(walks)
      /\ \A i \in 1..n : walks'[i] = walks[i]
  <2>1. walks' = Front(walks)
    BY DEF SegmentReturns
  <2>2. \A k \in Nat \ {0, 1} : k - 1 \in 1..k /\ k - 1 + 1 \in 2..k
    OBVIOUS
  <2>3. walks # <<>> /\ n \in 1..Len(walks) /\ n + 1 \in 2..Len(walks)
    BY <1>1, <2>2
  <2> QED BY <1>1, <2>1, <2>3, Stacks
<1>3. TopChanges(n) /\ walks'[n] = walks[n]
  BY <1>2 DEF TopChanges
<1>4. segRet' = <<r>> /\ segRet' # <<>> /\ segRet'[1] = r
  BY DEF SegmentReturns
<1>5. Entered(walks[n], walks[n + 1])
  BY <1>1, <1>2 DEF Meaning, WalksAreCurrent
<1>6. AtSegment(walks'[n])
  BY <1>3, <1>5 DEF Entered
<1>7. n > 1 => Undecided(walks'[n])
  BY <1>2, <1>3 DEF Meaning, WalksAreCurrent
<1>8. WalksAreCurrent'
  <2> HIDE DEF n
  <2> QED BY <1>3, <1>6, <1>7, TopChangesCurrent DEF Meaning
<1>9. ASSUME NEW members \in SUBSET SegmentKeys, ConsistentMembers(members)
      PROVE  MeantSoFar(members)'
  <2>1. WalksMean(members)
    BY <1>9 DEF Meaning, MeantSoFar
  <2>2. WalkedSoFar(walks'[n], n > 1, members)
    BY <1>2, <1>3, <2>1 DEF WalksMean
  <2>3. WalksMean(members)'
    <3> HIDE DEF n
    <3> QED BY <1>3, <2>1, <2>2, TopChangesMean
  <2>4. SegmentMeans(members)'
    <3>1. PICK later : later = walks'[Len(walks')]
      OBVIOUS
    <3>2. r.err = NoError => (r.match <=> NamesMember(ValueOf(later), members))
      BY <1>2, <1>3, <1>9, <3>1
    <3> QED BY <1>4, <3>1, <3>2 DEF SegmentMeans
  <2> QED BY <2>3, <2>4 DEF MeantSoFar
<1> QED BY <1>8, <1>9, SameMeaning DEF Meaning

\* No rules are being walked.
LEMMA Stopped ==
  ASSUME SameData, walks' = <<>>, segRet' = <<>>
  PROVE  Meaning'
<1>1. Len(walks') = 0
  OBVIOUS
<1>2. WalksAreCurrent'
  BY <1>1 DEF WalksAreCurrent
<1>3. \A members : WalksMean(members)' /\ SegmentMeans(members)'
  BY <1>1 DEF WalksMean, SegmentMeans
<1> QED BY <1>2, <1>3, SameMeaning DEF Meaning, MeantSoFar

------------------------------------------------------------------------------
(***************************************************************************)
(* The innermost walk moves on.                                            *)
(***************************************************************************)
\* The innermost walk moves on to the next value, clause or rule.
LEMMA Moves ==
  ASSUME TypeInv, walks # <<>>
  PROVE  /\ \E w : /\ NextValue = [walks EXCEPT ![Len(walks)] = w]
                   /\ w.src = Walk.src /\ w.rule = Walk.rule
                   /\ w.clause = Walk.clause /\ w.value = Walk.value + 1
         /\ \E w : /\ NextClause = [walks EXCEPT ![Len(walks)] = w]
                   /\ w.src = Walk.src /\ w.rule = Walk.rule
                   /\ w.clause = Walk.clause + 1 /\ w.value = 1
         /\ \E w : /\ NextRule = [walks EXCEPT ![Len(walks)] = w]
                   /\ w.src = Walk.src /\ w.rule = Walk.rule + 1
                   /\ w.clause = 1 /\ w.value = 1
         /\ Walk.rule \in Nat /\ Walk.clause \in Nat \ {0} /\ Walk.value \in Nat \ {0}
         /\ Walk.src \in Flags \cup Segments
<1>1. walks \in Seq(WalkRecord)
  BY DEF TypeInv, TypeOK
<1> DEFINE n == Len(walks)
           w == walks[n]
<1>2. n \in 1..Len(walks) /\ Walk = w /\ w \in WalkRecord
  BY WalkTypes
<1>3. /\ NextClause = [walks EXCEPT ![n] = [w EXCEPT !.clause = @ + 1, !.value = 1]]
      /\ NextRule = [walks EXCEPT ![n] = [w EXCEPT !.rule = @ + 1, !.clause = 1, !.value = 1]]
      /\ NextValue = [walks EXCEPT ![n] = [w EXCEPT !.value = @ + 1]]
  BY <1>1, <1>2 DEF NextClause, NextRule, NextValue
<1> HIDE DEF n, w
<1>4. /\ w.rule \in Nat /\ w.clause \in Nat \ {0} /\ w.value \in Nat \ {0}
      /\ w.src \in Flags \cup Segments
  BY <1>2 DEF WalkRecord
<1>5. \E x : /\ NextValue = [walks EXCEPT ![n] = x]
             /\ x.src = w.src /\ x.rule = w.rule /\ x.clause = w.clause /\ x.value = w.value + 1
  <2> DEFINE x == [w EXCEPT !.value = @ + 1]
  <2>1. x.src = w.src /\ x.rule = w.rule /\ x.clause = w.clause /\ x.value = w.value + 1
    BY <1>2 DEF WalkRecord
  <2> QED BY <1>3, <2>1
<1>6. \E x : /\ NextClause = [walks EXCEPT ![n] = x]
             /\ x.src = w.src /\ x.rule = w.rule /\ x.clause = w.clause + 1 /\ x.value = 1
  <2> DEFINE x == [w EXCEPT !.clause = @ + 1, !.value = 1]
  <2>1. x.src = w.src /\ x.rule = w.rule /\ x.clause = w.clause + 1 /\ x.value = 1
    BY <1>2 DEF WalkRecord
  <2> QED BY <1>3, <2>1
<1>7. \E x : /\ NextRule = [walks EXCEPT ![n] = x]
             /\ x.src = w.src /\ x.rule = w.rule + 1 /\ x.clause = 1 /\ x.value = 1
  <2> DEFINE x == [w EXCEPT !.rule = @ + 1, !.clause = 1, !.value = 1]
  <2>1. x.src = w.src /\ x.rule = w.rule + 1 /\ x.clause = 1 /\ x.value = 1
    BY <1>2 DEF WalkRecord
  <2> QED BY <1>3, <2>1
<1> QED BY <1>2, <1>4, <1>5, <1>6, <1>7 DEF n

\* What is known of the innermost walk.
LEMMA InnermostWalk ==
  ASSUME TypeInv, Meaning, walks # <<>>
  PROVE  /\ Len(walks) > 1 => Entered(walks[Len(walks) - 1], Walk) /\ Undecided(Walk)
         /\ Len(walks) = 1 => Walk.src = scopes[Len(scopes)].flag
         /\ Len(walks) \in Nat \ {0}
         /\ \A members \in SUBSET SegmentKeys :
              ConsistentMembers(members) => WalkedSoFar(Walk, Len(walks) > 1, members)
<1>1. Len(walks) \in Nat \ {0} /\ Walk = walks[Len(walks)]
  BY WalkTypes
<1> QED BY <1>1 DEF Meaning, WalksAreCurrent, MeantSoFar, WalksMean

\* A rule that fails ends the walk, or returns an error from its segment.
LEMMA RuleFailed ==
  ASSUME TypeInv, SameData, SameFlag, Meaning, walks # <<>>, NEW err, RuleFails(err)
  PROVE  Meaning'
<1>1. CASE Len(walks) = 1
  <2>1. walks' = <<>> /\ segRet' = <<>>
    BY <1>1 DEF RuleFails
  <2> QED BY <2>1, Stopped
<1>2. CASE Len(walks) # 1
  <2>1. Len(walks) > 1 /\ SegmentReturns(Failed("malformedSegment"))
    BY <1>2, InnermostWalk DEF RuleFails
  <2>2. Failed("malformedSegment").err # NoError /\ Failed("malformedSegment") \in MatchResult
    BY DEF Failed, NoError, MatchResult, Errors, EvalErrors
  <2> QED BY <2>1, <2>2, WalkPopped
<1> QED BY <1>1, <1>2

\* A value of a segment clause that names no member: on to the next one.
LEMMA ValuePassed ==
  ASSUME TypeInv, SameData, SameFlag, Meaning, walks # <<>>, segRet' = <<>>,
         walks' = NextValue, Walk.rule >= 1,
         \A members \in SUBSET SegmentKeys :
           ConsistentMembers(members) => ~NamesMember(ValueOf(Walk), members)
  PROVE  Meaning'
<1>1. PICK w : /\ NextValue = [walks EXCEPT ![Len(walks)] = w]
               /\ w.src = Walk.src /\ w.rule = Walk.rule
               /\ w.clause = Walk.clause /\ w.value = Walk.value + 1
  BY Moves
<1>3. Len(walks) > 1 => Undecided(w)
  BY <1>1, InnermostWalk DEF Undecided
<1>4. ASSUME NEW members \in SUBSET SegmentKeys, ConsistentMembers(members)
      PROVE  WalkedSoFar(w, Len(walks) > 1, members)
  <2>1. WalkedSoFar(Walk, Len(walks) > 1, members)
    BY <1>4, InnermostWalk
  <2>2. \A n \in 1..(w.value - 1) : n \in 1..(Walk.value - 1) \/ n = Walk.value
    BY <1>1, Moves
  <2>3. ClauseOf(w) = ClauseOf(Walk)
    BY <1>1 DEF ClauseOf
  <2>4. \A n \in 1..(w.value - 1) : ~NamesMember(ClauseOf(w).values[n], members)
    BY <1>4, <2>1, <2>2, <2>3 DEF WalkedSoFar, ValueOf
  <2> QED BY <1>1, <2>1, <2>4 DEF WalkedSoFar
<1> QED BY <1>1, <1>3, <1>4, WalkMoved

\* A rule that does not hold: on to the next one.
LEMMA RulePassed ==
  ASSUME TypeInv, SameData, SameFlag, Meaning, walks # <<>>, segRet' = <<>>,
         walks' = NextRule,
         Len(walks) > 1 => DeclaredVerdict(Walk.src) = <<>>,
         Walk.rule >= 1 =>
           \A members \in SUBSET SegmentKeys :
             ConsistentMembers(members) => ~HoldsIn(Walk.src, Len(walks) > 1, Walk.rule, members)
  PROVE  Meaning'
<1>1. PICK w : /\ NextRule = [walks EXCEPT ![Len(walks)] = w]
               /\ w.src = Walk.src /\ w.rule = Walk.rule + 1
               /\ w.clause = 1 /\ w.value = 1
  BY Moves
<1>3. Len(walks) > 1 => Undecided(w)
  BY <1>1 DEF Undecided
<1>4. ASSUME NEW members \in SUBSET SegmentKeys, ConsistentMembers(members)
      PROVE  WalkedSoFar(w, Len(walks) > 1, members)
  <2>1. WalkedSoFar(Walk, Len(walks) > 1, members)
    BY <1>4, InnermostWalk
  <2>2. \A r \in 1..(w.rule - 1) : r \in 1..(Walk.rule - 1) \/ (r = Walk.rule /\ Walk.rule >= 1)
    BY <1>1, Moves
  <2>3. \A r \in 1..(w.rule - 1) : ~HoldsIn(w.src, Len(walks) > 1, r, members)
    BY <1>1, <1>4, <2>1, <2>2 DEF WalkedSoFar
  <2>4. 1..(w.clause - 1) = {} /\ 1..(w.value - 1) = {}
    BY <1>1
  <2> QED BY <2>3, <2>4 DEF WalkedSoFar
<1> QED BY <1>1, <1>3, <1>4, WalkMoved

\* A clause that holds: on to the next one.
LEMMA ClausePassed ==
  ASSUME TypeInv, SameData, SameFlag, Meaning, walks # <<>>, segRet' = <<>>,
         walks' = NextClause, Walk.rule >= 1,
         \A members \in SUBSET SegmentKeys :
           ConsistentMembers(members) => ClauseHolds(ClauseOf(Walk), members)
  PROVE  Meaning'
<1>1. PICK w : /\ NextClause = [walks EXCEPT ![Len(walks)] = w]
               /\ w.src = Walk.src /\ w.rule = Walk.rule
               /\ w.clause = Walk.clause + 1 /\ w.value = 1
  BY Moves
<1>3. Len(walks) > 1 => Undecided(w)
  BY <1>1, InnermostWalk DEF Undecided
<1>4. ASSUME NEW members \in SUBSET SegmentKeys, ConsistentMembers(members)
      PROVE  WalkedSoFar(w, Len(walks) > 1, members)
  <2>1. WalkedSoFar(Walk, Len(walks) > 1, members)
    BY <1>4, InnermostWalk
  <2>2. \A c \in 1..(w.clause - 1) : c \in 1..(Walk.clause - 1) \/ c = Walk.clause
    BY <1>1, Moves
  <2>3. \A c \in 1..(w.clause - 1) : ClauseHolds(w.src.rules[w.rule].clauses[c], members)
    BY <1>1, <1>4, <2>1, <2>2 DEF WalkedSoFar, ClauseOf
  <2>4. 1..(w.value - 1) = {}
    BY <1>1
  <2> QED BY <1>1, <2>1, <2>3, <2>4 DEF WalkedSoFar
<1> QED BY <1>1, <1>3, <1>4, WalkMoved

\* A clause has been tried, with the right outcome.
LEMMA ClauseTried ==
  ASSUME TypeInv, SameData, SameFlag, Meaning, walks # <<>>,
         Walk.rule >= 1, Walk.clause \in DOMAIN Rule.clauses,
         NEW r \in MatchResult, ClauseReturns(r),
         \A members \in SUBSET SegmentKeys : ConsistentMembers(members) /\ r.err = NoError =>
           (r.match <=> ClauseHolds(ClauseOf(Walk), members))
  PROVE  Meaning'
<1>1. CASE r.err # NoError
  <2>1. RuleFails(r.err)
    BY <1>1 DEF ClauseReturns
  <2> QED BY <2>1, RuleFailed
<1>2. CASE r.err = NoError /\ r.match
  <2>1. walks' = NextClause /\ segRet' = <<>>
    BY <1>2 DEF ClauseReturns
  <2> QED BY <1>2, <2>1, ClausePassed
<1>3. CASE r.err = NoError /\ ~r.match
  <2>1. walks' = NextRule /\ segRet' = <<>>
    BY <1>3 DEF ClauseReturns
  <2>2. ASSUME NEW members \in SUBSET SegmentKeys, ConsistentMembers(members)
        PROVE  ~HoldsIn(Walk.src, Len(walks) > 1, Walk.rule, members)
    <3>1. ~ClauseHolds(ClauseOf(Walk), members)
      BY <1>3, <2>2
    <3> QED BY <3>1 DEF HoldsIn, RuleHolds, ClauseOf, Rule
  <2>3. Len(walks) > 1 => DeclaredVerdict(Walk.src) = <<>>
    BY InnermostWalk DEF Undecided
  <2> QED BY <2>1, <2>2, <2>3, RulePassed
<1> QED BY <1>1, <1>2, <1>3 DEF MatchResult

------------------------------------------------------------------------------
(***************************************************************************)
(* What a segment returns, and its lists and memberships.                  *)
(***************************************************************************)
SegmentHolds(s, members) ==
  IF IsDefined(DeclaredVerdict(s)) THEN DeclaredVerdict(s)[1] = TRUE
  ELSE \E r \in DOMAIN s.rules : HoldsIn(s, TRUE, r, members)

\* The value that names a segment names a member exactly if the segment's definition holds.
LEMMA CallerNames ==
  ASSUME NEW members \in SUBSET SegmentKeys, ConsistentMembers(members),
         NEW caller, NEW w, Entered(caller, w)
  PROVE  NamesMember(ValueOf(caller), members) <=> SegmentHolds(w.src, members)
<1> DEFINE key == ValueOf(caller)[2]
<1>1. /\ IsString(ValueOf(caller)) /\ key \in SegmentKeys
      /\ segmentData[key] = <<w.src>>
  BY DEF Entered
<1>2. segmentData[key][1] = w.src /\ IsDefined(segmentData[key])
  BY <1>1 DEF IsDefined
<1>3. key \in members <=> SegmentContains(key, members)
  BY <1>1, ConsistentMembersContain
<1>4. SegmentContains(key, members) <=> SegmentHolds(w.src, members)
  <2> HIDE DEF key
  <2> QED BY <1>2 DEF SegmentContains, SegmentHolds, HoldsIn
<1> QED BY <1>1, <1>3, <1>4 DEF NamesMember

\* The first walk is over the rules of the flag, and segments are inside it.
LEMMA SegmentWalk ==
  ASSUME TypeInv, Meaning, walks # <<>>, Len(walks) # 1
  PROVE  /\ Len(walks) > 1 /\ Walk = walks[Len(walks)]
         /\ Entered(walks[Len(walks) - 1], Walk) /\ Undecided(Walk)
         /\ Walk.src \in Segments
<1>1. /\ Len(walks) > 1 /\ Walk = walks[Len(walks)]
      /\ Entered(walks[Len(walks) - 1], Walk) /\ Undecided(Walk)
  <2>1. Len(walks) \in Nat \ {0} /\ Walk = walks[Len(walks)]
    BY WalkTypes
  <2>0. \A n \in Nat \ {0} : n # 1 => n > 1
    OBVIOUS
  <2>2. Len(walks) > 1
    BY <2>0, <2>1
  <2> QED BY <2>1, <2>2, InnermostWalk
<1>2. PICK key \in SegmentKeys : segmentData[key] = <<Walk.src>>
  BY <1>1 DEF Entered
<1>3. segmentData[key] \in Optional(Segments)
  BY DEF TypeInv, TypeOK
<1>4. segmentData[key][1] \in Segments
  BY <1>2, <1>3, OptionalValues DEF IsDefined
<1>5. segmentData[key][1] = Walk.src
  BY <1>2
<1> QED BY <1>1, <1>4, <1>5

\* A segment returns what its definition says.
LEMMA SegmentReturnsRight ==
  ASSUME TypeInv, SameData, SameFlag, Meaning, walks # <<>>, Len(walks) # 1,
         NEW match \in BOOLEAN, SegmentReturns(Matched(match)),
         \A members \in SUBSET SegmentKeys :
           ConsistentMembers(members) => (match <=> SegmentHolds(Walk.src, members))
  PROVE  Meaning'
<1>1. Matched(match) \in MatchResult /\ Matched(match).match = match
  BY DEF Matched, MatchResult
<1>2. Len(walks) > 1 /\ Entered(walks[Len(walks) - 1], Walk)
  BY SegmentWalk, InnermostWalk
<1>3. \A members \in SUBSET SegmentKeys : ConsistentMembers(members) =>
        (match <=> NamesMember(ValueOf(walks[Len(walks) - 1]), members))
  BY <1>2, CallerNames
<1> QED BY <1>1, <1>2, <1>3, WalkPopped

\* Lists and memberships that decide say what the segment contains, or leave it to its rules.
LEMMA DecidedRight ==
  ASSUME TypeInv, SameData, SameFlag, Meaning, walks # <<>>, Walk.rule = 0, segRet = <<>>,
         NEW verdict \in Optional(BOOLEAN), verdict = DeclaredVerdict(Walk.src), Decided(verdict)
  PROVE  Meaning'
<1>1. Len(walks) # 1
  BY WalkTypes DEF TypeInv, ControlOK
<1>2. CASE IsDefined(verdict)
  <2>1. verdict[1] \in BOOLEAN
    BY <1>2, OptionalValues
  <2>2. SegmentReturns(Matched(verdict[1]))
    BY <1>2 DEF Decided, IsDefined
  <2>3. \A members : verdict[1] <=> SegmentHolds(Walk.src, members)
    BY <1>2, <2>1 DEF SegmentHolds
  <2> QED BY <1>1, <2>1, <2>2, <2>3, SegmentReturnsRight
<1>3. CASE verdict = <<>>
  <2>1. walks' = NextRule /\ segRet' = <<>>
    BY <1>3 DEF Decided, IsDefined
  <2> QED BY <1>3, <2>1, RulePassed
<1> QED BY <1>2, <1>3 DEF IsDefined

\* A big segment step replaces the running scope by one for the same flag.
LEMMA BigSegmentFlag ==
  ASSUME TypeInv, BigSegmentStep
  PROVE  SameFlag /\ walks # <<>> /\ Walk.rule = 0 /\ segRet = <<>>
<1>1. walks # <<>> /\ Walk.rule = 0 /\ segRet = <<>>
  BY DEF BigSegmentStep, ListedSegment, BigSegmentWithoutGeneration, BigSegmentOfOtherKind,
         MembershipCached, BigSegmentsNotConfigured, QueryMembership, AtBigSegment, Entering,
         Walking
<1>2. scopes # <<>> /\ scopes \in Seq(ScopeRecord) /\ Len(scopes) \in Nat \ {0}
  <2>1. scopes # <<>>
    BY <1>1 DEF TypeInv, ControlOK
  <2> QED BY <2>1, ScopeTypes DEF TypeInv, TypeOK
<1>3. CASE UNCHANGED scopes
  BY <1>1, <1>3 DEF SameFlag
<1>4. \A status : Len(SetStatus(status)) = Len(scopes)
                  /\ SetStatus(status)[Len(scopes)].flag = scopes[Len(scopes)].flag
  BY <1>2 DEF SetStatus, ScopeRecord
<1>5. CASE \E status : scopes' = SetStatus(status)
  BY <1>1, <1>4, <1>5 DEF SameFlag
<1>6. CASE QueryMembership
  <2> DEFINE key == BigSegmentKey[1]
             answer == bigSegmentData[key]
             status == ComputeUpdatedBigSegmentsStatus(Scope.bigSegmentsStatus, answer.status)
  <2>1. scopes' = [SetStatus(status) EXCEPT ![Len(scopes)].bigSegmentsMemberships =
                                       CacheMembership(@, key, answer.membership)]
    BY <1>6 DEF QueryMembership
  <2> HIDE DEF key, answer, status
  <2>2. Len(scopes') = Len(scopes) /\ scopes'[Len(scopes)].flag = scopes[Len(scopes)].flag
    BY <1>2, <2>1 DEF SetStatus, ScopeRecord
  <2> QED BY <1>1, <2>2 DEF SameFlag
<1> QED BY <1>3, <1>5, <1>6 DEF BigSegmentStep, ListedSegment, BigSegmentWithoutGeneration,
           BigSegmentOfOtherKind, MembershipCached, BigSegmentsNotConfigured

\* Entering a segment: its lists or a membership decide what they say they do.
LEMMA BigSegmentStepMeans ==
  ASSUME ListsAreForOtherKinds, TypeInv, CacheIsCurrent, Meaning, SameData, BigSegmentStep
  PROVE  Meaning'
<1>1. SameFlag /\ walks # <<>> /\ Walk.rule = 0 /\ segRet = <<>>
  BY BigSegmentFlag
<1>2. Len(walks) # 1
  BY <1>1, WalkTypes DEF TypeInv, ControlOK
<1>3. Walk.src \in Segments
  BY <1>1, <1>2, SegmentWalk
<1> DEFINE s == Walk.src
           verdict == DeclaredVerdict(s)
<1>4. ASSUME verdict \in Optional(BOOLEAN), Decided(verdict)
      PROVE  Meaning'
  BY <1>1, <1>4, DecidedRight
<1>5. ASSUME verdict = <<FALSE>>, SegmentReturns(Matched(FALSE))
      PROVE  Meaning'
  <2>1. \A members : ~SegmentHolds(s, members)
    BY <1>5 DEF SegmentHolds, IsDefined
  <2> QED BY <1>1, <1>2, <1>5, <2>1, SegmentReturnsRight
<1>6. CASE ListedSegment
  <2>1. ~s.unbounded /\ Decided(SegmentListsVerdict(s))
    BY <1>6 DEF ListedSegment
  <2>2. SegmentListsVerdict(s) = verdict
    BY <1>3, <2>1, ListsDecide
  <2>3. SegmentListsVerdict(s) \in {<<>>, <<TRUE>>, <<FALSE>>}
    BY DEF SegmentListsVerdict
  <2>4. SegmentListsVerdict(s) \in Optional(BOOLEAN)
    BY <2>3, OptionalValues
  <2> QED BY <1>4, <2>1, <2>2, <2>4
<1>7. CASE BigSegmentWithoutGeneration
  BY <1>5, <1>7 DEF BigSegmentWithoutGeneration, DeclaredVerdict
<1>8. CASE BigSegmentOfOtherKind
  BY <1>5, <1>8 DEF BigSegmentOfOtherKind, DeclaredVerdict, AtBigSegment, BigSegmentKey
<1>9. CASE MembershipCached
  <2> DEFINE key == BigSegmentKey[1]
             m == Scope.bigSegmentsMemberships[key]
  <2>1. /\ s.unbounded /\ s.generation # <<>> /\ BigSegmentKey # <<>>
        /\ key \in DOMAIN Scope.bigSegmentsMemberships
        /\ Decided(CheckMembership(m, MakeBigSegmentRef(s)))
    BY <1>9 DEF MembershipCached, AtBigSegment, IsDefined
  <2>2. scopes # <<>> /\ Len(scopes) \in Nat \ {0} /\ Scope = scopes[Len(scopes)]
        /\ Scope \in ScopeRecord
    <3>1. scopes # <<>>
      BY <1>1 DEF TypeInv, ControlOK
    <3> QED BY <3>1, ScopeTypes DEF TypeInv
  <2>3. ProviderConfigured /\ m = bigSegmentData[key].membership
    BY <2>1, <2>2 DEF CacheIsCurrent
  <2>4. verdict = CheckMembership(m, MakeBigSegmentRef(s))
    BY <2>1, <2>3 DEF DeclaredVerdict, BigSegmentKey
  <2>5. verdict \in Optional(BOOLEAN)
    <3>1. m \in Memberships
      BY <2>1, <2>2 DEF ScopeRecord
    <3>2. IsMembership(m)
      BY <3>1, EvaluatorAssumption DEF Memberships
    <3> HIDE DEF m
    <3> QED BY <2>4, <3>2, CheckMembershipTypes
  <2> QED BY <1>4, <2>1, <2>4, <2>5
<1>10. CASE BigSegmentsNotConfigured
  <2>1. /\ s.unbounded /\ s.generation # <<>> /\ BigSegmentKey # <<>>
        /\ ~ProviderConfigured /\ walks' = NextRule /\ segRet' = segRet
    BY <1>10 DEF BigSegmentsNotConfigured, AtBigSegment, IsDefined
  <2>2. verdict = <<>>
    BY <2>1 DEF DeclaredVerdict, BigSegmentKey
  <2> QED BY <1>1, <2>1, <2>2, RulePassed
<1>11. CASE QueryMembership
  <2> DEFINE key == BigSegmentKey[1]
             m == bigSegmentData[key].membership
  <2>1. /\ s.unbounded /\ s.generation # <<>> /\ BigSegmentKey # <<>>
        /\ ProviderConfigured
        /\ Decided(CheckMembership(m, MakeBigSegmentRef(s)))
    BY <1>11 DEF QueryMembership, AtBigSegment, IsDefined
  <2>2. verdict = CheckMembership(m, MakeBigSegmentRef(s))
    BY <2>1 DEF DeclaredVerdict, BigSegmentKey
  <2>3. verdict \in Optional(BOOLEAN)
    <3>1. bigSegmentData[key] \in BigSegmentAnswers
      BY <1>11, QueriedKeyTypes DEF TypeInv, TypeOK
    <3>2. IsMembership(m)
      BY <3>1, EvaluatorAssumption
    <3> HIDE DEF m
    <3> QED BY <2>2, <3>2, CheckMembershipTypes
  <2> QED BY <1>4, <2>1, <2>2, <2>3
<1> HIDE DEF verdict, s
<1> QED BY <1>6, <1>7, <1>8, <1>9, <1>10, <1>11 DEF BigSegmentStep

------------------------------------------------------------------------------
(***************************************************************************)
(* Clauses that match segments.                                            *)
(***************************************************************************)
\* A clause over segments holds according to the values that name members.
LEMMA SegmentClauseHolds ==
  ASSUME NEW c, c.op = "segmentMatch", NEW members \in SUBSET SegmentKeys
  PROVE  ClauseHolds(c, members) <=>
           (\E n \in DOMAIN c.values : NamesMember(c.values[n], members)) # c.negate
<1>1. NamedSegments(c) \cap members # {} <=>
        \E n \in DOMAIN c.values : NamesMember(c.values[n], members)
  BY DEF NamedSegments, NamesMember
<1> QED BY <1>1 DEF ClauseHolds

\* Where a walk is inside a clause.
LEMMA ClausePlace ==
  ASSUME TypeInv, AtClause
  PROVE  /\ walks # <<>> /\ segRet = <<>> /\ Walk.rule >= 1
         /\ Walk.rule \in 1..Len(Walk.src.rules) /\ Walk.clause \in DOMAIN Rule.clauses
         /\ Walk.clause \in 1..Len(Rule.clauses)
         /\ CurrentClause = ClauseOf(Walk) /\ CurrentClause \in Clause
         /\ Walk.value \in Nat \ {0}
<1>1. walks # <<>> /\ segRet = <<>> /\ Walk.rule >= 1
  BY DEF AtClause, AtRule, InRules, Walking
<1>2. Walk.rule \in Nat /\ Walk.clause \in Nat \ {0} /\ Walk.value \in Nat \ {0}
  BY <1>1, Moves
<1>3. Walk.src \in Flag \cup Segment
  BY <1>1, Moves, EvaluatorAssumption
<1>4. Walk.src.rules \in Seq(FlagRule) \cup Seq(SegmentRule)
  BY <1>3 DEF Flag, Segment
<1>5. Walk.rule <= Len(Walk.src.rules) /\ Walk.clause <= Len(Rule.clauses)
  BY DEF AtClause, AtRule
<1>6. Walk.rule \in 1..Len(Walk.src.rules)
  BY <1>1, <1>2, <1>4, <1>5
<1>7. Rule \in FlagRule \cup SegmentRule
  BY <1>4, <1>6 DEF Rule
<1>8. Rule.clauses \in Seq(Clause)
  BY <1>7 DEF FlagRule, SegmentRule
<1> QED BY <1>1, <1>2, <1>5, <1>6, <1>8, CurrentClauseTypes DEF CurrentClause, ClauseOf, Rule

\* A clause that is not about segments.
LEMMA PlainClauseMeans ==
  ASSUME TypeInv, SameData, Meaning, PlainClause
  PROVE  Meaning'
<1> DEFINE r == ClauseMatchesContextNoSegments(CurrentClause, context)
<1>1. AtClause /\ CurrentClause.op # "segmentMatch" /\ ClauseReturns(r) /\ UNCHANGED scopes
  BY DEF PlainClause
<1>2. r \in MatchResult
  BY ClauseTypes
<1>3. \A members : r.match = ClauseHolds(ClauseOf(Walk), members)
  BY <1>1, ClausePlace DEF ClauseHolds
<1> HIDE DEF r
<1> QED BY <1>1, <1>2, <1>3, ClausePlace, ClauseTried DEF SameFlag

\* No value of a segment clause names a member: it holds if it is negated.
LEMMA SegmentClauseExhaustedMeans ==
  ASSUME TypeInv, SameData, Meaning, SegmentClauseExhausted
  PROVE  Meaning'
<1> DEFINE c == CurrentClause
<1>1. /\ AtClause /\ c.op = "segmentMatch" /\ Walk.value > Len(c.values)
      /\ ClauseReturns(Matched(c.negate)) /\ UNCHANGED scopes
  BY DEF SegmentClauseExhausted, AtSegmentClause
<1>2. c \in Clause /\ c = ClauseOf(Walk) /\ Walk.value \in Nat
  BY <1>1, ClausePlace
<1> HIDE DEF c
<1>3. c.values \in Seq(Values) /\ c.negate \in BOOLEAN
  BY <1>2 DEF Clause
<1>4. Matched(c.negate) \in MatchResult /\ Matched(c.negate).match = c.negate
  BY <1>3 DEF Matched, MatchResult
<1>5. \A n \in DOMAIN c.values : n \in 1..(Walk.value - 1)
  BY <1>1, <1>2, <1>3
<1>6. ASSUME NEW members \in SUBSET SegmentKeys, ConsistentMembers(members)
      PROVE  c.negate <=> ClauseHolds(ClauseOf(Walk), members)
  <2>1. WalkedSoFar(Walk, Len(walks) > 1, members)
    BY <1>1, <1>6, ClausePlace, InnermostWalk
  <2>2. \A n \in DOMAIN c.values : ~NamesMember(c.values[n], members)
    BY <1>2, <1>5, <2>1 DEF WalkedSoFar
  <2>3. ClauseHolds(c, members) <=> FALSE # c.negate
    BY <1>1, <2>2, SegmentClauseHolds
  <2> QED BY <1>2, <1>3, <2>3
<1> QED BY <1>1, <1>4, <1>6, ClausePlace, ClauseTried DEF SameFlag

\* A segment has returned: the clause matches, or goes on with the next value.
LEMMA SegmentReturnedMeans ==
  ASSUME TypeInv, SameData, Meaning, SegmentReturned
  PROVE  Meaning'
<1> DEFINE r == segRet[1]
           c == ClauseOf(Walk)
<1>1. segRet # <<>> /\ walks # <<>> /\ UNCHANGED scopes /\ Walk = walks[Len(walks)]
  BY WalkTypes DEF SegmentReturned, IsDefined, TypeInv, ControlOK
<1>2. r \in MatchResult
  BY <1>1, OptionalValues DEF TypeInv, TypeOK, IsDefined
<1>3. AtSegment(Walk) /\ Walk.rule \in Nat /\ Walk.rule >= 1 /\ Walk.clause \in DOMAIN Rule.clauses
  <2>1. AtSegment(Walk)
    BY <1>1 DEF Meaning, WalksAreCurrent
  <2>2. Walk.src \in Flag \cup Segment /\ Walk.rule \in Nat
    BY <1>1, Moves, EvaluatorAssumption
  <2>3. Walk.src.rules \in Seq(FlagRule) \cup Seq(SegmentRule)
    BY <2>2 DEF Flag, Segment
  <2>4. Rule \in FlagRule \cup SegmentRule
    BY <2>1, <2>3 DEF AtSegment, Rule
  <2>5. Rule.clauses \in Seq(Clause)
    BY <2>4 DEF FlagRule, SegmentRule
  <2> QED BY <2>1, <2>2, <2>5 DEF AtSegment, Rule
<1>4. c = CurrentClause /\ c.op = "segmentMatch" /\ Walk.value \in 1..Len(c.values)
  BY <1>3 DEF AtSegment, ClauseOf, CurrentClause, Rule
<1>5. c \in Clause /\ Walk.value \in DOMAIN c.values
  <2>1. Walk.src \in Flag \cup Segment
    BY <1>1, Moves, EvaluatorAssumption
  <2>2. Walk.src.rules \in Seq(FlagRule) \cup Seq(SegmentRule)
    BY <2>1 DEF Flag, Segment
  <2>3. Rule \in FlagRule \cup SegmentRule
    BY <1>3, <2>2 DEF AtSegment, Rule
  <2>4. Rule.clauses \in Seq(Clause)
    BY <2>3 DEF FlagRule, SegmentRule
  <2>5. c \in Clause
    BY <1>3, <2>4 DEF ClauseOf, Rule
  <2>6. c.values \in Seq(Values)
    BY <2>5 DEF Clause
  <2> QED BY <1>4, <2>5, <2>6
<1>6. c.negate \in BOOLEAN
  BY <1>5 DEF Clause
<1> HIDE DEF r, c
<1>7. ASSUME NEW members \in SUBSET SegmentKeys, ConsistentMembers(members), r.err = NoError
      PROVE  /\ r.match => NamesMember(ValueOf(Walk), members)
             /\ ~r.match => ~NamesMember(ValueOf(Walk), members)
  <2>1. SegmentMeans(members)
    BY <1>7 DEF Meaning, MeantSoFar
  <2> QED BY <1>1, <1>7, <2>1 DEF SegmentMeans, r
<1>8. CASE r.err # NoError
  <2>1. ClauseReturns(r)
    BY <1>8 DEF SegmentReturned, r
  <2> QED BY <1>1, <1>2, <1>3, <1>8, <2>1, ClauseTried DEF SameFlag
<1>9. CASE r.err = NoError /\ r.match
  <2>1. ClauseReturns(Matched(~c.negate))
    BY <1>4, <1>9 DEF SegmentReturned, r
  <2>2. Matched(~c.negate) \in MatchResult /\ Matched(~c.negate).match = ~c.negate
    BY DEF Matched, MatchResult
  <2>3. ASSUME NEW members \in SUBSET SegmentKeys, ConsistentMembers(members)
        PROVE  ~c.negate <=> ClauseHolds(ClauseOf(Walk), members)
    <3>1. NamesMember(c.values[Walk.value], members)
      BY <1>7, <1>9, <2>3 DEF ValueOf, c
    <3>2. ClauseHolds(c, members) <=> TRUE # c.negate
      BY <1>4, <1>5, <3>1, SegmentClauseHolds
    <3> QED BY <1>6, <3>2 DEF c
  <2> QED BY <1>1, <1>3, <2>1, <2>2, <2>3, ClauseTried DEF SameFlag
<1>10. CASE r.err = NoError /\ ~r.match
  <2>1. walks' = NextValue /\ segRet' = <<>>
    BY <1>10 DEF SegmentReturned, r
  <2> QED BY <1>1, <1>3, <1>7, <1>10, <2>1, ValuePassed DEF SameFlag
<1> QED BY <1>2, <1>8, <1>9, <1>10 DEF MatchResult

\* A value that names no segment names no member.
LEMMA NoSuchSegmentMeans ==
  ASSUME TypeInv, SameData, Meaning, NoSuchSegment
  PROVE  Meaning'
<1>1. /\ AtClause /\ SegmentFound(CurrentValue) = <<>> /\ walks' = NextValue
      /\ UNCHANGED <<scopes, evalRet, segRet>>
  BY DEF NoSuchSegment, AtSegmentValue, AtSegmentClause
<1>2. CurrentValue = ValueOf(Walk) /\ walks # <<>> /\ Walk.rule >= 1 /\ segRet = <<>>
  BY <1>1, ClausePlace DEF CurrentValue, ValueOf
<1>3. ASSUME NEW members \in SUBSET SegmentKeys, ConsistentMembers(members),
             NamesMember(ValueOf(Walk), members)
      PROVE  FALSE
  <2>1. /\ IsString(CurrentValue) /\ CurrentValue[2] \in SegmentKeys /\ CurrentValue[2] \in members
    BY <1>2, <1>3 DEF NamesMember
  <2>2. SegmentContains(CurrentValue[2], members)
    BY <1>3, <2>1, ConsistentMembersContain
  <2> QED BY <1>1, <2>1, <2>2 DEF SegmentContains, SegmentFound, IsDefined
<1> QED BY <1>1, <1>2, <1>3, ValuePassed DEF SameFlag

\* A circle is an error, of which nothing is claimed.
LEMMA SegmentCircularMeans ==
  ASSUME TypeInv, SameData, Meaning, SegmentCircular
  PROVE  Meaning'
<1>1. AtClause /\ ClauseReturns(Failed("circularSegment")) /\ UNCHANGED scopes
  BY DEF SegmentCircular, AtSegmentValue, AtSegmentClause
<1>2. Failed("circularSegment") \in MatchResult /\ Failed("circularSegment").err # NoError
  BY DEF Failed, MatchResult, Errors, NoError
<1> QED BY <1>1, <1>2, ClausePlace, ClauseTried DEF SameFlag

------------------------------------------------------------------------------
(***************************************************************************)
(* The steps of rules and flags.                                           *)
(***************************************************************************)
\* A segment is entered: nothing is known of it yet.
LEMMA EnterSegmentMeans ==
  ASSUME TypeInv, SameData, Meaning, EnterSegment
  PROVE  Meaning'
<1> DEFINE found == SegmentFound(CurrentValue)
           w == NewWalk(found[1], Append(Walk.segmentChain, found[1].key), 0)
           n == Len(walks)
<1>0. PICK later : later = walks'
  OBVIOUS
<1>1. /\ AtClause /\ CurrentClause.op = "segmentMatch" /\ Walk.value <= Len(CurrentClause.values)
      /\ IsDefined(found) /\ walks' = Append(walks, w)
      /\ UNCHANGED <<scopes, evalRet, segRet>>
  BY DEF EnterSegment, AtSegmentValue, AtSegmentClause
<1>2. /\ walks \in Seq(WalkRecord) /\ n \in Nat \ {0} /\ Walk = walks[n] /\ segRet = <<>>
      /\ CurrentClause = ClauseOf(Walk) /\ CurrentClause \in Clause
      /\ Walk.rule \in 1..Len(Walk.src.rules) /\ Walk.clause \in 1..Len(Rule.clauses)
      /\ Walk.value \in Nat \ {0}
  BY <1>1, ClausePlace, WalkTypes DEF TypeInv, TypeOK
<1>3. AtSegment(Walk)
  <2>1. Len(CurrentClause.values) \in Nat
    BY <1>2 DEF Clause
  <2>2. Walk.value \in 1..Len(CurrentClause.values)
    BY <1>1, <1>2, <2>1
  <2> QED BY <1>1, <1>2, <2>2 DEF AtSegment, Rule
<1>4. /\ IsString(CurrentValue) /\ CurrentValue[2] \in SegmentKeys
      /\ found = segmentData[CurrentValue[2]]
  BY <1>1 DEF SegmentFound, IsDefined
<1>5. found = <<found[1]>>
  BY <1>1, <1>4, OptionalValues DEF TypeInv, TypeOK
<1>6. CurrentValue = ValueOf(Walk)
  BY <1>2 DEF CurrentValue, ValueOf
<1>7. w.src = found[1] /\ w.rule = 0 /\ w.clause = 1 /\ w.value = 1
  BY DEF NewWalk
<1> HIDE DEF found, w
<1>8. Entered(Walk, w) /\ Undecided(w)
  BY <1>3, <1>4, <1>5, <1>6, <1>7 DEF Entered, Undecided
<1>9. /\ Len(later) = n + 1 /\ later[n + 1] = w /\ later # <<>>
      /\ \A i \in 1..n : later[i] = walks[i]
  BY <1>0, <1>1, <1>2
<1>10. \A i \in 1..(n + 1) : i \in 1..n \/ i = n + 1
  BY <1>2
<1>11. WalksAreCurrent'
  <2>1. ASSUME NEW i \in 2..(n + 1)
        PROVE  Entered(later[i - 1], later[i])' /\ Undecided(later[i])'
    <3>1. Entered(later[i - 1], later[i]) /\ Undecided(later[i])
      <4>1. CASE i = n + 1
        <5>1. later[i] = w /\ later[i - 1] = Walk
          BY <1>2, <1>9, <4>1
        <5> QED BY <1>8, <5>1
      <4>2. CASE i # n + 1
        <5>1. i \in 2..n /\ i \in 1..n /\ i - 1 \in 1..n
          BY <1>2, <4>2
        <5>2. later[i] = walks[i] /\ later[i - 1] = walks[i - 1]
          BY <1>9, <5>1
        <5> QED BY <5>1, <5>2 DEF Meaning, WalksAreCurrent
      <4> QED BY <4>1, <4>2
    <3>2. Entered(later[i - 1], later[i])'
      BY <3>1 DEF Entered, SameData
    <3>3. Undecided(later[i])'
      BY <3>1, SameMeaning DEF Undecided
    <3> QED BY <3>2, <3>3
  <2>2. later[1].src = scopes[Len(scopes)].flag
    <3>1. later[1] = walks[1] /\ walks # <<>>
      BY <1>2, <1>9
    <3> QED BY <3>1 DEF Meaning, WalksAreCurrent
  <2>3. later[1].src = scopes'[Len(scopes')].flag /\ segRet' = <<>>
    BY <1>1, <1>2, <2>2
  <2> QED BY <1>0, <1>9, <2>1, <2>3 DEF WalksAreCurrent
<1>12. ASSUME NEW members \in SUBSET SegmentKeys, ConsistentMembers(members)
       PROVE  MeantSoFar(members)'
  <2>1. ASSUME NEW i \in 1..(n + 1)
        PROVE  WalkedSoFar(later[i], i > 1, members)
    <3>1. CASE i = n + 1
      <4>1. 1..(w.rule - 1) = {} /\ 1..(w.clause - 1) = {} /\ 1..(w.value - 1) = {}
        BY <1>7
      <4> QED BY <1>9, <3>1, <4>1 DEF WalkedSoFar
    <3>2. CASE i # n + 1
      <4>1. i \in 1..n
        BY <1>10, <3>2
      <4> QED BY <1>9, <1>12, <4>1 DEF Meaning, MeantSoFar, WalksMean
    <3> QED BY <3>1, <3>2
  <2>2. \A i \in 1..(n + 1) : WalkedSoFar(later[i], i > 1, members)'
    BY <2>1, SameWalk
  <2>3. WalksMean(members)'
    BY <1>0, <1>9, <2>2 DEF WalksMean
  <2>4. segRet' = <<>>
    BY <1>1, <1>2, ClausePlace, InnermostWalk
  <2> QED BY <2>3, <2>4 DEF MeantSoFar, SegmentMeans
<1> QED BY <1>11, <1>12, SameMeaning DEF Meaning

\* All clauses of a rule hold: so does the rule.
LEMMA ClausesPassed ==
  ASSUME TypeInv, Meaning, AtRule, Walk.clause > Len(Rule.clauses),
         NEW members \in SUBSET SegmentKeys, ConsistentMembers(members)
  PROVE  RuleHolds(Walk.src.rules[Walk.rule], members)
<1>1. walks # <<>> /\ Walk.rule >= 1 /\ Walk.rule <= Len(Walk.src.rules)
  BY DEF AtRule, InRules, Walking
<1>2. Walk.rule \in Nat /\ Walk.clause \in Nat \ {0} /\ Walk.src \in Flag \cup Segment
  BY <1>1, Moves, EvaluatorAssumption
<1>3. Walk.src.rules \in Seq(FlagRule) \cup Seq(SegmentRule)
  BY <1>2 DEF Flag, Segment
<1>4. Rule \in FlagRule \cup SegmentRule
  BY <1>1, <1>2, <1>3 DEF Rule
<1>5. Rule.clauses \in Seq(Clause)
  BY <1>4 DEF FlagRule, SegmentRule
<1>6. \A c \in DOMAIN Rule.clauses : c \in 1..(Walk.clause - 1)
  BY <1>2, <1>5
<1>7. WalkedSoFar(Walk, Len(walks) > 1, members)
  BY <1>1, InnermostWalk
<1> QED BY <1>6, <1>7 DEF WalkedSoFar, RuleHolds, Rule

\* All rules have been tried.
LEMMA RulesPassed ==
  ASSUME TypeInv, Meaning, InRules, Walk.rule > Len(Walk.src.rules),
         NEW members \in SUBSET SegmentKeys, ConsistentMembers(members)
  PROVE  \A r \in DOMAIN Walk.src.rules : ~HoldsIn(Walk.src, Len(walks) > 1, r, members)
<1>1. walks # <<>>
  BY DEF InRules, Walking
<1>2. Walk.rule \in Nat /\ Walk.src \in Flag \cup Segment
  BY <1>1, Moves, EvaluatorAssumption
<1>3. Walk.src.rules \in Seq(FlagRule) \cup Seq(SegmentRule)
  BY <1>2 DEF Flag, Segment
<1>4. \A r \in DOMAIN Walk.src.rules : r \in 1..(Walk.rule - 1)
  BY <1>2, <1>3
<1>5. WalkedSoFar(Walk, Len(walks) > 1, members)
  BY <1>1, InnermostWalk
<1> QED BY <1>4, <1>5 DEF WalkedSoFar

\* The clauses of a segment's rule hold: its weight decides.
LEMMA SegmentRuleMatchesMeans ==
  ASSUME TypeInv, SameData, Meaning, SegmentRuleMatches
  PROVE  Meaning'
<1> DEFINE r == SegmentRuleWeightMatches(Rule, context, Walk.src.key, Walk.src.salt)
<1>1. /\ AtRule /\ Walk.clause > Len(Rule.clauses) /\ Len(walks) # 1 /\ UNCHANGED scopes
      /\ \/ r.err # NoError /\ RuleFails(r.err)
         \/ /\ r.err = NoError /\ r.match /\ SegmentReturns(Matched(TRUE))
         \/ /\ r.err = NoError /\ ~r.match /\ walks' = NextRule /\ segRet' = segRet
  BY DEF SegmentRuleMatches, InFlagRules
<1>2. walks # <<>> /\ segRet = <<>> /\ Walk.rule >= 1
  BY <1>1 DEF AtRule, InRules, Walking
<1>3. Undecided(Walk) /\ DeclaredVerdict(Walk.src) = <<>> /\ Len(walks) > 1
  BY <1>1, <1>2, SegmentWalk DEF Undecided
<1>4. r.match <=> SegmentRuleWeightMatches(Walk.src.rules[Walk.rule], context,
                                            Walk.src.key, Walk.src.salt).match
  BY DEF Rule
<1> HIDE DEF r
<1>5. CASE r.err # NoError /\ RuleFails(r.err)
  BY <1>1, <1>2, <1>5, RuleFailed DEF SameFlag
<1>6. CASE r.match /\ SegmentReturns(Matched(TRUE))
  <2>1. ASSUME NEW members \in SUBSET SegmentKeys, ConsistentMembers(members)
        PROVE  SegmentHolds(Walk.src, members)
    <3>1. HoldsIn(Walk.src, TRUE, Walk.rule, members)
      BY <1>1, <1>4, <1>6, <2>1, ClausesPassed DEF HoldsIn
    <3>2. Walk.rule \in DOMAIN Walk.src.rules
      <4>1. Walk.rule \in Nat /\ Walk.src \in Segment
        BY <1>1, <1>2, Moves, SegmentWalk, EvaluatorAssumption
      <4>2. Walk.src.rules \in Seq(SegmentRule) /\ Walk.rule <= Len(Walk.src.rules)
        BY <1>1, <4>1 DEF Segment, AtRule
      <4> QED BY <1>2, <4>1, <4>2
    <3> QED BY <1>3, <3>1, <3>2 DEF SegmentHolds, IsDefined
  <2> QED BY <1>1, <1>2, <1>6, <2>1, SegmentReturnsRight DEF SameFlag
<1>7. CASE ~r.match /\ walks' = NextRule /\ segRet' = segRet
  <2>1. \A members : ~HoldsIn(Walk.src, Len(walks) > 1, Walk.rule, members)
    BY <1>3, <1>4, <1>7 DEF HoldsIn
  <2> QED BY <1>1, <1>2, <1>3, <1>7, <2>1, RulePassed DEF SameFlag
<1> QED BY <1>1, <1>5, <1>6, <1>7

\* No rule of a segment holds.
LEMMA SegmentRulesExhaustedMeans ==
  ASSUME TypeInv, SameData, Meaning, SegmentRulesExhausted
  PROVE  Meaning'
<1>1. /\ InRules /\ Walk.rule > Len(Walk.src.rules) /\ Len(walks) # 1
      /\ SegmentReturns(Matched(FALSE)) /\ UNCHANGED <<scopes, evalRet>>
  BY DEF SegmentRulesExhausted, InFlagRules
<1>2. walks # <<>> /\ Walk.rule >= 1
  BY <1>1 DEF InRules, Walking
<1>3. DeclaredVerdict(Walk.src) = <<>> /\ Len(walks) > 1
  BY <1>1, <1>2, SegmentWalk DEF Undecided
<1>4. ASSUME NEW members \in SUBSET SegmentKeys, ConsistentMembers(members)
      PROVE  ~SegmentHolds(Walk.src, members)
  BY <1>1, <1>3, <1>4, RulesPassed DEF SegmentHolds, IsDefined, HoldsIn
<1> QED BY <1>1, <1>2, <1>4, SegmentReturnsRight DEF SameFlag

\* The flag returns: its rules are no longer walked.
LEMMA FlagRuleReturnsMeans ==
  ASSUME TypeInv, SameData, Meaning, FlagRuleMatches \/ Fallthrough
  PROVE  Meaning'
<1>1. walks' = <<>> /\ segRet' = <<>>
  BY DEF FlagRuleMatches, Fallthrough, AtRule, InRules, Walking
<1> QED BY <1>1, Stopped

\* All steps of rules.
LEMMA RuleStepMeans ==
  ASSUME TypeInv, SameData, Meaning, RuleStep
  PROVE  Meaning'
BY FlagRuleReturnsMeans, SegmentRuleMatchesMeans, SegmentRulesExhaustedMeans,
   PlainClauseMeans, NoSuchSegmentMeans, SegmentCircularMeans, EnterSegmentMeans,
   SegmentClauseExhaustedMeans, SegmentReturnedMeans DEF RuleStep
------------------------------------------------------------------------------
\* The steps of evaluate() before its rules.
LEMMA FlagStepMeans ==
  ASSUME TypeInv, SameData, Meaning, FlagStep
  PROVE  Meaning'
<1>1. walks = <<>> /\ segRet = <<>>
  BY DEF FlagStep, FlagIsOff, PrerequisiteMissing, PrerequisiteCircular, EvaluatePrerequisite,
         PrerequisiteInvalid, PrerequisitePassed, PrerequisiteFailed, TargetsMatch, StartRules,
         ReturnResult, AtPrerequisite, AfterPrerequisites, BeforeRules, PrerequisiteReturns,
         IsDefined, TypeInv, ControlOK
<1>2. CASE UNCHANGED walks
  <2>1. segRet' = <<>>
    BY <1>1, <1>2 DEF FlagStep, FlagIsOff, PrerequisiteMissing, PrerequisiteCircular,
         EvaluatePrerequisite, PrerequisiteInvalid, PrerequisitePassed, PrerequisiteFailed,
         TargetsMatch, StartRules, ReturnResult
  <2> QED BY <1>1, <1>2, <2>1, Stopped
<1>3. CASE StartRules
  <2> DEFINE w == NewWalk(Scope.flag, <<>>, 1)
  <2>0. PICK later : later = walks'
    OBVIOUS
  <2>1. /\ walks' = <<w>> /\ UNCHANGED <<scopes, evalRet, segRet>>
        /\ evalRet = <<>> /\ scopes # <<>>
    BY <1>3 DEF StartRules, AfterPrerequisites, BeforeRules
  <2>2. w.src = scopes[Len(scopes)].flag
    BY <2>1, ScopeTypes DEF TypeInv, NewWalk
  <2>3. w.rule = 1 /\ w.clause = 1 /\ w.value = 1
    BY DEF NewWalk
  <2> HIDE DEF w
  <2>4. ASSUME NEW members PROVE WalkedSoFar(w, 1 > 1, members)
    <3>1. 1..(w.rule - 1) = {} /\ 1..(w.clause - 1) = {} /\ 1..(w.value - 1) = {}
      BY <2>3
    <3> QED BY <3>1 DEF WalkedSoFar
  <2>5. Len(later) = 1 /\ later[1] = w
    BY <2>0, <2>1
  <2>6. WalksAreCurrent'
    BY <1>1, <2>0, <2>1, <2>2, <2>5 DEF WalksAreCurrent
  <2>7. ASSUME NEW members PROVE MeantSoFar(members)'
    <3>1. WalkedSoFar(later[1], 1 > 1, members)'
      BY <2>4, <2>5, SameWalk
    <3>2. \A i \in 1..Len(later) : i = 1
      BY <2>5
    <3>3. WalksMean(members)'
      BY <2>0, <3>1, <3>2 DEF WalksMean
    <3> QED BY <1>1, <2>1, <3>3 DEF MeantSoFar, SegmentMeans
  <2> QED BY <2>6, <2>7 DEF Meaning
<1>4. UNCHANGED walks \/ StartRules
  BY DEF FlagStep, FlagIsOff, PrerequisiteMissing, PrerequisiteCircular, EvaluatePrerequisite,
         PrerequisiteInvalid, PrerequisitePassed, PrerequisiteFailed, TargetsMatch, ReturnResult
<1> QED BY <1>2, <1>3, <1>4

------------------------------------------------------------------------------
(***************************************************************************)
(* The invariant about segments.                                           *)
(***************************************************************************)
\* What the cache of a scope holds came from the store as it is now.
IsCurrentCache(memberships) ==
  \A key \in DOMAIN memberships :
    ProviderConfigured /\ memberships[key] = bigSegmentData[key].membership

\* What a query adds to the cache is what the store answers.
LEMMA CacheAfterQuery ==
  ASSUME TypeInv, SameData, BigSegmentStep,
         IsCurrentCache(scopes[Len(scopes)].bigSegmentsMemberships)
  PROVE  IsCurrentCache(scopes'[Len(scopes')].bigSegmentsMemberships)
<1> DEFINE n == Len(scopes)
           old == scopes[n].bigSegmentsMemberships
<1>1. scopes # <<>> /\ scopes \in Seq(ScopeRecord) /\ n \in Nat \ {0} /\ Scope = scopes[n]
      /\ scopes[n] \in ScopeRecord
  <2>1. scopes # <<>>
    BY BigSegmentFlag DEF TypeInv, ControlOK
  <2> QED BY <2>1, ScopeTypes DEF TypeInv, TypeOK
<1>2. Len(scopes') = n
  BY ScopeReplaced
<1>3. CASE QueryMembership
  <2> DEFINE key == BigSegmentKey[1]
             answer == bigSegmentData[key]
             status == ComputeUpdatedBigSegmentsStatus(Scope.bigSegmentsStatus, answer.status)
             new == CacheMembership(old, key, answer.membership)
  <2>1. /\ scopes' = [SetStatus(status) EXCEPT ![n].bigSegmentsMemberships =
                                         CacheMembership(@, key, answer.membership)]
        /\ ProviderConfigured
    BY <1>3 DEF QueryMembership
  <2>2. IsCurrentCache(new)
    BY <2>1 DEF IsCurrentCache, CacheMembership
  <2> HIDE DEF key, answer, status
  <2>3. scopes'[n].bigSegmentsMemberships = new
    BY <1>1, <2>1 DEF SetStatus, ScopeRecord
  <2> QED BY <1>2, <2>2, <2>3
<1>4. CASE \E status : scopes' = SetStatus(status)
  <2>1. scopes'[n].bigSegmentsMemberships = old
    BY <1>1, <1>4 DEF SetStatus, ScopeRecord
  <2> QED BY <1>2, <2>1
<1>5. CASE UNCHANGED scopes
  BY <1>5
<1> QED BY <1>3, <1>4, <1>5 DEF BigSegmentStep, ListedSegment, BigSegmentWithoutGeneration,
           BigSegmentOfOtherKind, MembershipCached, BigSegmentsNotConfigured

\* A copied scope copies what is cached, and one that returns brings nothing back.
LEMMA CacheStep ==
  ASSUME TypeInv, TypeInv', SameData, [Next]_vars, ~StoreUpdate, CacheIsCurrent
  PROVE  CacheIsCurrent'
<1>0. PICK later : later = scopes'
  OBVIOUS
<1>1. SUFFICES ASSUME NEW i \in 1..Len(later)
               PROVE  IsCurrentCache(later[i].bigSegmentsMemberships)
  <2>1. \A i \in 1..Len(later) : IsCurrentCache(later[i].bigSegmentsMemberships)
    BY <1>1
  <2> QED BY <1>0, <2>1 DEF CacheIsCurrent, IsCurrentCache, SameData
<1>2. Len(scopes) \in Nat /\ Len(later) \in Nat
  BY <1>0 DEF TypeInv, TypeOK
<1>3. \A j \in 1..Len(scopes) : IsCurrentCache(scopes[j].bigSegmentsMemberships)
  BY DEF CacheIsCurrent, IsCurrentCache
<1>4. CASE UNCHANGED scopes
  BY <1>0, <1>3, <1>4
<1>5. CASE EvaluatePrerequisite
  <2>1. CASE i = Len(later)
    BY <1>0, <1>3, <1>5, <2>1, ScopePushed
  <2>2. CASE i # Len(later)
    <3>1. i \in 1..Len(scopes) /\ later[i] = scopes[i]
      BY <1>0, <1>2, <1>5, <2>2, ScopePushed
    <3> QED BY <1>3, <3>1
  <2> QED BY <2>1, <2>2
<1>6. CASE PrerequisiteInvalid \/ PrerequisitePassed \/ PrerequisiteFailed
  <2>1. CASE i = Len(later)
    <3>1. i \in 1..Len(scopes)
      BY <1>0, <1>2, <1>6, ScopePopped
    <3> QED BY <1>0, <1>3, <1>6, <2>1, <3>1, ScopePopped
  <2>2. CASE i # Len(later)
    <3>1. i \in 1..(Len(scopes) - 2) /\ i \in 1..Len(scopes) /\ later[i] = scopes[i]
      BY <1>0, <1>2, <1>6, <2>2, ScopePopped
    <3> QED BY <1>3, <3>1
  <2> QED BY <2>1, <2>2
<1>7. CASE BigSegmentStep
  <2>1. CASE i = Len(later)
    <3>1. Len(scopes) \in 1..Len(scopes)
      BY <1>7, ScopeReplaced
    <3> QED BY <1>0, <1>3, <1>7, <2>1, <3>1, CacheAfterQuery
  <2>2. CASE i # Len(later)
    <3>1. i \in 1..(Len(scopes) - 1) /\ i \in 1..Len(scopes) /\ later[i] = scopes[i]
      BY <1>0, <1>2, <1>7, <2>2, ScopeReplaced
    <3> QED BY <1>3, <3>1
  <2> QED BY <2>1, <2>2
<1>8. CASE EvaluateSome
  <2>1. PICK flag : scopes' = <<NewScope(flag, <<>>, NoStatus, NoMemberships)>>
    BY <1>8 DEF EvaluateSome, Evaluate
  <2>2. later[i].bigSegmentsMemberships = NoMemberships
    BY <1>0, <2>1 DEF NewScope
  <2> QED BY <2>2 DEF IsCurrentCache, NoMemberships
<1>9. CASE ReturnResult
  BY <1>0, <1>9 DEF ReturnResult
<1> QED BY <1>4, <1>5, <1>6, <1>7, <1>8, <1>9, ScopesStay DEF Next, Step, FlagStep

\* The three facts of an inductive invariant.
LEMMA InitMeans == Init => MeaningInv
<1> SUFFICES ASSUME Init PROVE CacheIsCurrent /\ Meaning
  BY DEF MeaningInv
<1>1. Len(scopes) = 0 /\ Len(walks) = 0 /\ walks = <<>> /\ segRet = <<>> /\ evalRet = <<>>
  BY DEF Init
<1> QED BY <1>1 DEF CacheIsCurrent, Meaning, WalksAreCurrent, MeantSoFar, WalksMean, SegmentMeans

\* A step that changes nothing a walk is about.
LEMMA StutterMeans ==
  ASSUME SameData, Meaning, UNCHANGED <<scopes, walks, segRet>>
  PROVE  Meaning'
<1>0. PICK steps, returned, stack : steps = walks /\ returned = segRet /\ stack = scopes
  OBVIOUS
<1>1. steps = walks' /\ returned = segRet' /\ stack = scopes'
  BY <1>0
<1>2. WalksAreCurrent'
  <2>1. ASSUME NEW i \in 2..Len(steps)
        PROVE  Entered(steps[i - 1], steps[i])' /\ Undecided(steps[i])'
    <3>1. Entered(steps[i - 1], steps[i]) /\ Undecided(steps[i])
      BY <1>0 DEF Meaning, WalksAreCurrent
    <3>2. Entered(steps[i - 1], steps[i])'
      BY <3>1 DEF Entered, SameData
    <3>3. Undecided(steps[i])'
      BY <3>1, SameMeaning DEF Undecided
    <3> QED BY <3>2, <3>3
  <2>2. /\ steps # <<>> => steps[1].src = stack[Len(stack)].flag
        /\ returned # <<>> => AtSegment(steps[Len(steps)])
    BY <1>0 DEF Meaning, WalksAreCurrent
  <2> QED BY <1>1, <2>1, <2>2 DEF WalksAreCurrent
<1>3. ASSUME NEW members \in SUBSET SegmentKeys, ConsistentMembers(members)
      PROVE  MeantSoFar(members)'
  <2>1. WalksMean(members) /\ SegmentMeans(members)
    BY <1>3 DEF Meaning, MeantSoFar
  <2>2. WalksMean(members)'
    <3>1. \A i \in 1..Len(steps) : WalkedSoFar(steps[i], i > 1, members)
      BY <1>0, <2>1 DEF WalksMean
    <3>2. \A i \in 1..Len(steps) : WalkedSoFar(steps[i], i > 1, members)'
      BY <3>1, SameWalk
    <3> QED BY <1>1, <3>2 DEF WalksMean
  <2>3. SegmentMeans(members)'
    <3>1. PICK value : value = ValueOf(steps[Len(steps)])
      OBVIOUS
    <3>2. returned # <<>> /\ returned[1].err = NoError =>
            (returned[1].match <=> NamesMember(value, members))
      BY <1>0, <2>1, <3>1 DEF SegmentMeans
    <3>3. value = ValueOf(steps[Len(steps)])'
      BY <3>1 DEF ValueOf, ClauseOf
    <3> QED BY <1>1, <3>2, <3>3 DEF SegmentMeans, NamesMember
  <2> QED BY <2>2, <2>3 DEF MeantSoFar
<1> QED BY <1>2, <1>3, SameMeaning DEF Meaning

\* Every step keeps what the walks mean.
LEMMA MeaningStep ==
  ASSUME ListsAreForOtherKinds, TypeInv, TypeInv', MeaningInv, [Next]_vars
  PROVE  MeaningInv'
<1>1. SUFFICES ASSUME ~updated' PROVE CacheIsCurrent' /\ Meaning'
  BY DEF MeaningInv
<1>2. ~updated /\ ~StoreUpdate /\ SameData
  BY <1>1, SameDataStep
<1>3. CacheIsCurrent /\ Meaning
  BY <1>2 DEF MeaningInv
<1>4. CacheIsCurrent'
  BY <1>2, <1>3, CacheStep
<1>5. SUFFICES Meaning'
  BY <1>4
<1>6. CASE FlagStep
  BY <1>2, <1>3, <1>6, FlagStepMeans
<1>7. CASE RuleStep
  BY <1>2, <1>3, <1>7, RuleStepMeans
<1>8. CASE BigSegmentStep
  BY <1>2, <1>3, <1>8, BigSegmentStepMeans
<1>9. CASE RejectContext \/ EvaluateSome
  <2>1. scopes = <<>> /\ UNCHANGED <<walks, evalRet, segRet>>
    BY <1>9 DEF RejectContext, EvaluateSome, Evaluate
  <2>2. walks = <<>> /\ evalRet = <<>> /\ segRet = <<>>
    BY <2>1 DEF TypeInv, ControlOK
  <2> QED BY <1>2, <2>1, <2>2, Stopped
<1>10. CASE UNCHANGED vars
  BY <1>2, <1>3, <1>10, StutterMeans DEF vars
<1> QED BY <1>2, <1>6, <1>7, <1>8, <1>9, <1>10 DEF Next, Step, Returned

------------------------------------------------------------------------------
(***************************************************************************)
(* What a flag declares.                                                   *)
(***************************************************************************)
\* The first of some positions is one of them, and none is before it.
LEMMA FirstIs ==
  ASSUME NEW positions, NEW n \in positions, positions \subseteq Nat,
         \A m \in positions : n <= m
  PROVE  FirstOf(positions) = n
<1>1. FirstOf(positions) \in positions /\ \A m \in positions : FirstOf(positions) <= m
  BY DEF FirstOf
<1>2. FirstOf(positions) <= n /\ n <= FirstOf(positions)
  BY <1>1
<1>3. \A a, b \in Nat : a <= b /\ b <= a => a = b
  OBVIOUS
<1> QED BY <1>1, <1>2, <1>3, Zenon

\* The values that evaluate() returns are the declared ones.
LEMMA ReturnedValues ==
  ASSUME NEW flag, NEW reason, NEW variation
  PROVE  /\ GetOffValue(flag, reason).detail = DeclaredValue(flag, flag.offVariation, reason)
         /\ IsDefined(variation) =>
              GetVariation(flag, variation[1], reason).detail
                = DeclaredValue(flag, variation, reason)
<1>1. ErrorOutcome("badVariation").detail = ErrorDetail("MALFORMED_FLAG")
  BY DEF ErrorOutcome, ErrorKindForError, EvalErrors
<1> QED BY <1>1 DEF GetOffValue, GetVariation, DeclaredValue, Outcome

\* A flag that is off returns its off variation.
LEMMA DeclaredOff ==
  ASSUME NEW flag, ~flag.on, NEW members, NEW v
  PROVE  DeclaredDetail(flag, members, v)
           = DeclaredValue(flag, flag.offVariation, NewReason("OFF"))
BY DEF DeclaredDetail

\* So does a flag with a prerequisite that is not met.
LEMMA DeclaredUnmet ==
  ASSUME NEW flag \in Flag, flag.on, NEW members, NEW v,
         NEW n \in 1..Len(flag.prerequisites), ~RequirementMet(flag.prerequisites[n], v),
         \A m \in 1..(n - 1) : RequirementMet(flag.prerequisites[m], v)
  PROVE  DeclaredDetail(flag, members, v)
           = DeclaredValue(flag, flag.offVariation,
                           PrerequisiteFailedReason(flag.prerequisites[n].key))
<1>1. flag.prerequisites \in Seq(Prerequisite)
  BY DEF Flag
<1>2. /\ DOMAIN flag.prerequisites = 1..Len(flag.prerequisites)
      /\ Len(flag.prerequisites) \in Nat /\ n \in Nat
  BY <1>1
<1>3. n \in Unmet(flag, v) /\ Unmet(flag, v) \subseteq Nat
  BY <1>2 DEF Unmet
<1>4. \A m \in Unmet(flag, v) : n <= m
  <2>1. \A m \in Nat \ {0} : m \in 1..(n - 1) \/ n <= m
    BY <1>2
  <2> QED BY <1>2, <2>1 DEF Unmet
<1>5. FirstOf(Unmet(flag, v)) = n
  BY <1>3, <1>4, FirstIs
<1> QED BY <1>3, <1>5 DEF DeclaredDetail

\* A flag whose prerequisites are met returns the variation of a target,
LEMMA DeclaredTarget ==
  ASSUME NEW flag, flag.on, NEW members, NEW v, Unmet(flag, v) = {},
         IsDefined(AnyTargetMatchVariation(flag))
  PROVE  DeclaredDetail(flag, members, v)
           = DeclaredValue(flag, AnyTargetMatchVariation(flag), NewReason("TARGET_MATCH"))
BY DEF DeclaredDetail

\* or of the first rule that holds,
LEMMA DeclaredRule ==
  ASSUME NEW flag \in Flag, flag.on, NEW members, NEW v, Unmet(flag, v) = {},
         ~IsDefined(AnyTargetMatchVariation(flag)),
         NEW r \in DOMAIN flag.rules, RuleHolds(flag.rules[r], members),
         \A q \in 1..(r - 1) : ~RuleHolds(flag.rules[q], members)
  PROVE  DeclaredDetail(flag, members, v)
           = GetValueForVariationOrRollout(flag, flag.rules[r].vr,
                                           RuleMatchReason(r - 1)).detail
<1>1. flag.rules \in Seq(FlagRule)
  BY DEF Flag
<1>2. DOMAIN flag.rules = 1..Len(flag.rules) /\ Len(flag.rules) \in Nat /\ r \in Nat
  BY <1>1
<1>3. r \in Holding(flag, members) /\ Holding(flag, members) \subseteq Nat
  BY <1>2 DEF Holding
<1>4. \A q \in Holding(flag, members) : r <= q
  <2>1. \A q \in Nat \ {0} : q \in 1..(r - 1) \/ r <= q
    BY <1>2
  <2> QED BY <1>2, <2>1 DEF Holding
<1>5. FirstOf(Holding(flag, members)) = r
  BY <1>3, <1>4, FirstIs
<1> QED BY <1>3, <1>5 DEF DeclaredDetail

\* or of its fallthrough.
LEMMA DeclaredFallthrough ==
  ASSUME NEW flag, flag.on, NEW members, NEW v, Unmet(flag, v) = {},
         ~IsDefined(AnyTargetMatchVariation(flag)), Holding(flag, members) = {}
  PROVE  DeclaredDetail(flag, members, v)
           = GetValueForVariationOrRollout(flag, flag.fallthrough, NewReason("FALLTHROUGH")).detail
BY DEF DeclaredDetail

\* The same data declares the same.
LEMMA SameDeclaration ==
  ASSUME SameData
  PROVE  /\ \A flag : AnyTargetMatchVariation(flag)' = AnyTargetMatchVariation(flag)
         /\ \A flag, members, v : DeclaredDetail(flag, members, v)'
                                    = DeclaredDetail(flag, members, v)
         /\ \A members, v : ConsistentVariations(v, members)' <=> ConsistentVariations(v, members)
         /\ StoredVariations' = StoredVariations
<1>1. context' = context /\ flagData' = flagData
  BY DEF SameData
<1>2. \A flag : AnyTargetMatchVariation(flag)' = AnyTargetMatchVariation(flag)
  <2>1. \A target : TargetMatchVariation(target)' = TargetMatchVariation(target)
    BY <1>1 DEF TargetMatchVariation, ContainsKeyOfKind
  <2>2. \A flag, target : ContextTargetMatchVariation(flag, target)'
                            = ContextTargetMatchVariation(flag, target)
    <3> TAKE flag, target
    <3> DEFINE first == SelectInSeq(flag.targets, LAMBDA t : t.variation = target.variation)
    <3>1. first' = first
      BY DEF SelectInSeq
    <3> HIDE DEF first
    <3>2. TargetMatchVariation(flag.targets[first])' = TargetMatchVariation(flag.targets[first])
      BY <2>1, <3>1, <1>1 DEF TargetMatchVariation, ContainsKeyOfKind
    <3> QED BY <2>1, <3>1, <3>2 DEF ContextTargetMatchVariation, first
  <2> QED BY <2>1, <2>2 DEF AnyTargetMatchVariation
<1>3. \A flag, vr, reason : GetValueForVariationOrRollout(flag, vr, reason)'
                              = GetValueForVariationOrRollout(flag, vr, reason)
  BY <1>1 DEF GetValueForVariationOrRollout
<1>4. \A flag, members : Holding(flag, members)' = Holding(flag, members)
  BY SameMeaning DEF Holding
<1>5. \A flag, members, v : DeclaredDetail(flag, members, v)' = DeclaredDetail(flag, members, v)
  <2> TAKE flag, members, v
  <2>1. Unmet(flag, v)' = Unmet(flag, v)
    BY DEF Unmet
  <2> QED BY <1>2, <1>3, <1>4, <2>1 DEF DeclaredDetail
<1>6. \A key : IsOn(key)' <=> IsOn(key)
  BY <1>1 DEF IsOn
<1>7. \A members, v : ConsistentVariations(v, members)' <=> ConsistentVariations(v, members)
  BY <1>1, <1>5, <1>6 DEF ConsistentVariations
<1>8. StoredVariations' = StoredVariations
  BY <1>1, <1>6 DEF StoredVariations
<1> QED BY <1>2, <1>5, <1>7, <1>8

------------------------------------------------------------------------------
(***************************************************************************)
(* Prerequisites that have been passed are met.                            *)
(***************************************************************************)
\* Every loop over prerequisites has passed only those that are met if v says what flags
\* return, and rules are walked when all prerequisites are met and no target matches.
PrerequisitesAreMet(v) ==
  \A i \in 1..Len(scopes) : \A n \in 1..(scopes[i].prereq - 1) :
    RequirementMet(scopes[i].flag.prerequisites[n], v)
PastTargets(scope) ==
  /\ scope.flag.on
  /\ scope.prereq > Len(scope.flag.prerequisites)
  /\ ~IsDefined(AnyTargetMatchVariation(scope.flag))
RulesComeLast == walks # <<>> => PastTargets(scopes[Len(scopes)])

\* What evaluate() returns is what its flag declares.
ReturnsDeclared(members, v) ==
  evalRet # <<>> /\ evalRet[1].ok =>
    evalRet[1].detail = DeclaredDetail(scopes[Len(scopes)].flag, members, v)
Solves(members, v) == ConsistentMembers(members) /\ ConsistentVariations(v, members)
DeclaredSoFar ==
  \A members \in SUBSET SegmentKeys, v \in [FlagKeys -> StoredVariations] :
    Solves(members, v) => PrerequisitesAreMet(v) /\ ReturnsDeclared(members, v)
DeclaredInv == ~updated => RulesComeLast /\ DeclaredSoFar

\* When all prerequisites have been passed, none is unmet.
LEMMA AllAreMet ==
  ASSUME TypeInv, scopes # <<>>, Scope.prereq > Len(Scope.flag.prerequisites),
         NEW v, PrerequisitesAreMet(v)
  PROVE  Unmet(Scope.flag, v) = {}
<1>1. /\ Scope = scopes[Len(scopes)] /\ Len(scopes) \in Nat \ {0}
      /\ Scope \in ScopeRecord /\ Scope.flag \in Flag
  BY ScopeTypes DEF TypeInv
<1>2. Scope.flag.prerequisites \in Seq(Prerequisite) /\ Scope.prereq \in Nat
  BY <1>1 DEF Flag, ScopeRecord
<1>3. DOMAIN Scope.flag.prerequisites = 1..Len(Scope.flag.prerequisites)
      /\ Len(Scope.flag.prerequisites) \in Nat
  BY <1>2
<1>4. \A n \in 1..Len(Scope.flag.prerequisites) : n \in 1..(Scope.prereq - 1)
  BY <1>2, <1>3
<1>5. Len(scopes) \in 1..Len(scopes)
  BY <1>1
<1> QED BY <1>1, <1>3, <1>4, <1>5 DEF PrerequisitesAreMet, Unmet

\* A prerequisite that returns is met if it returns the variation that v needs to hold.
LEMMA ReturnedIsMet ==
  ASSUME TypeInv, StackInv, ~updated, PrerequisiteReturns, PrerequisiteValid,
         NEW members, NEW v, Solves(members, v), ReturnsDeclared(members, v)
  PROVE  PrerequisiteMet <=> RequirementMet(CallerPrereq, v)
<1> DEFINE n == Len(scopes) - 1
           flag == Scope.flag
           variation == evalRet[1].detail.variation
<1>1. Len(scopes) \in Nat /\ Len(scopes) > 1 /\ scopes # <<>>
  <2>1. Len(scopes) \in Nat /\ Len(scopes) > 1
    BY DEF TypeInv, TypeOK, PrerequisiteReturns
  <2> QED BY <2>1
<1>2. n \in Nat \ {0} /\ n \in 1..(Len(scopes) - 1) /\ Len(scopes) \in 1..Len(scopes)
      /\ n + 1 = Len(scopes)
  <2>1. \A k \in Nat : k > 1 => /\ k - 1 \in Nat \ {0} /\ k - 1 \in 1..(k - 1) /\ k \in 1..k
                                /\ k - 1 + 1 = k
    OBVIOUS
  <2> QED BY <1>1, <2>1, Zenon
<1>3. Caller = scopes[n] /\ CallerPrereq = scopes[n].flag.prerequisites[scopes[n].prereq]
  BY DEF Caller, CallerPrereq
<1>4. Scope = scopes[Len(scopes)] /\ flag.key \in FlagKeys /\ flag \in Flag
  BY <1>1, ScopeTypes DEF TypeInv
<1>5. CallerPrereq.key = flag.key
  BY <1>2, <1>3, <1>4 DEF StackInv, WaitsForNext
<1>6. flagData[flag.key] = <<flag>>
  BY <1>2, <1>4 DEF StackInv, StackIsCurrent
<1>7. IsOn(flag.key) <=> flag.on
  BY <1>6 DEF IsOn, IsDefined
<1>8. flagData[flag.key][1] = flag
  BY <1>6
<1>9. evalRet # <<>> /\ variation \in Optional(Int)
  <2>1. evalRet \in Optional(EvalReturn) /\ IsDefined(evalRet)
    BY DEF TypeInv, TypeOK, EvalReturn, PrerequisiteReturns
  <2> QED BY <2>1, OptionalValues DEF EvalReturn, Detail, IsDefined
<1>10. v[flag.key] = IF flag.on THEN variation ELSE <<>>
  <2>1. evalRet[1].detail = DeclaredDetail(flag, members, v)
    BY <1>4, <1>9 DEF ReturnsDeclared, PrerequisiteValid
  <2> HIDE DEF flag
  <2> QED BY <1>4, <1>7, <1>8, <2>1 DEF Solves, ConsistentVariations
<1>11. PrerequisiteMet <=> /\ flag.on /\ IsDefined(variation)
                           /\ variation[1] = CallerPrereq.variation
  BY DEF PrerequisiteMet, IsDefaultValue
<1>12. IsDefined(variation) => variation = <<variation[1]>>
  BY <1>9, OptionalValues
<1>13. \A x, y : <<x>> = <<y>> <=> x = y
  OBVIOUS
<1>14. \A x : IsDefined(<<x>>)
  BY DEF IsDefined
<1> HIDE DEF flag, variation
<1> QED BY <1>5, <1>10, <1>11, <1>12, <1>13, <1>14 DEF RequirementMet, IsDefined

\* No loop over prerequisites moves but that of the scope whose prerequisite was met.
LEMMA PrerequisitesStayMet ==
  ASSUME TypeInv, NEW v, PrerequisitesAreMet(v), Len(scopes') \in Nat,
         Len(scopes') <= Len(scopes),
         \A i \in 1..Len(scopes') : /\ scopes'[i].flag = scopes[i].flag
                                    /\ scopes'[i].prereq = scopes[i].prereq
  PROVE  PrerequisitesAreMet(v)'
<1>1. \A i \in 1..Len(scopes') : i \in 1..Len(scopes)
  BY DEF TypeInv, TypeOK
<1>2. \A i \in 1..Len(scopes') : \A n \in 1..(scopes'[i].prereq - 1) :
        RequirementMet(scopes'[i].flag.prerequisites[n], v)
  BY <1>1 DEF PrerequisitesAreMet
<1> QED BY <1>2 DEF PrerequisitesAreMet, RequirementMet

\* Every step keeps it true that only prerequisites that are met have been passed.
LEMMA PrerequisitesMetStep ==
  ASSUME EvaluationInv, TypeInv', StackInv, ~updated, [Next]_vars,
         NEW members, NEW v, Solves(members, v),
         PrerequisitesAreMet(v), ReturnsDeclared(members, v)
  PROVE  PrerequisitesAreMet(v)'
<1>1. TypeInv /\ scopes \in Seq(ScopeRecord) /\ scopes' \in Seq(ScopeRecord)
      /\ Len(scopes) \in Nat /\ Len(scopes') \in Nat
  BY DEF EvaluationInv, TypeInv, TypeOK
<1>2. CASE SameStack
  BY <1>1, <1>2, PrerequisitesStayMet DEF SameStack
<1>3. CASE BigSegmentStep
  BY <1>1, <1>3, PrerequisitesStayMet, PositionsStay
<1>4. CASE EvaluatePrerequisite
  <2>1. /\ Len(scopes') = Len(scopes) + 1
        /\ \A i \in 1..Len(scopes) : scopes'[i] = scopes[i]
        /\ scopes'[Len(scopes')].prereq = 1
    BY <1>1, <1>4, PositionsPushed
  <2>2. ASSUME NEW i \in 1..Len(scopes'), NEW n \in 1..(scopes'[i].prereq - 1)
        PROVE  RequirementMet(scopes'[i].flag.prerequisites[n], v)
    <3>1. CASE i = Len(scopes')
      BY <2>1, <2>2, <3>1
    <3>2. CASE i # Len(scopes')
      <4>1. i \in 1..Len(scopes)
        BY <1>1, <2>1, <3>2
      <4> QED BY <2>1, <2>2, <4>1 DEF PrerequisitesAreMet
    <3> QED BY <3>1, <3>2
  <2> QED BY <2>2 DEF PrerequisitesAreMet, RequirementMet
<1>5. CASE Popped(0)
  <2>1. /\ Len(scopes') \in Nat \ {0} /\ Len(scopes) = Len(scopes') + 1
        /\ \A i \in 1..Len(scopes') : scopes'[i].flag = scopes[i].flag
        /\ \A i \in 1..(Len(scopes') - 1) : scopes'[i] = scopes[i]
        /\ scopes'[Len(scopes')].prereq = scopes[Len(scopes')].prereq + 0
    BY <1>1, <1>5, PositionsPopped DEF Popped
  <2>2. scopes[Len(scopes')].prereq \in Nat
    <3>1. Len(scopes') \in 1..Len(scopes)
      BY <2>1
    <3>2. scopes[Len(scopes')] \in ScopeRecord
      BY <1>1, <3>1, ElementOfSeq
    <3> QED BY <3>2 DEF ScopeRecord
  <2>3. \A i \in 1..Len(scopes') : scopes'[i].prereq = scopes[i].prereq
    <3>1. \A i \in 1..Len(scopes') : i = Len(scopes') \/ i \in 1..(Len(scopes') - 1)
      BY <2>1
    <3> QED BY <2>1, <2>2, <3>1
  <2> QED BY <1>1, <2>1, <2>3, PrerequisitesStayMet
<1>6. CASE PrerequisitePassed /\ Popped(1)
  <2> DEFINE k == Len(scopes')
  <2>1. /\ k \in Nat \ {0} /\ Len(scopes) = k + 1
        /\ \A i \in 1..k : scopes'[i].flag = scopes[i].flag
        /\ \A i \in 1..(k - 1) : scopes'[i] = scopes[i]
        /\ scopes'[k].prereq = scopes[k].prereq + 1
    BY <1>1, <1>6, PositionsPopped DEF Popped
  <2>2. k \in 1..Len(scopes) /\ k = Len(scopes) - 1
    BY <2>1
  <2>3. scopes[k].prereq \in Nat
    <3>1. scopes[k] \in ScopeRecord
      BY <1>1, <2>2, ElementOfSeq
    <3> QED BY <3>1 DEF ScopeRecord
  <2>4. RequirementMet(scopes[k].flag.prerequisites[scopes[k].prereq], v)
    <3>1. RequirementMet(CallerPrereq, v)
      BY <1>1, <1>6, ReturnedIsMet DEF PrerequisitePassed
    <3> QED BY <2>2, <3>1 DEF CallerPrereq, Caller
  <2> HIDE DEF k
  <2>5. ASSUME NEW i \in 1..k, NEW n \in 1..(scopes'[i].prereq - 1)
        PROVE  RequirementMet(scopes'[i].flag.prerequisites[n], v)
    <3>1. i \in 1..Len(scopes)
      BY <2>1, <2>5
    <3>2. CASE n \in 1..(scopes[i].prereq - 1)
      BY <2>1, <3>1, <3>2 DEF PrerequisitesAreMet
    <3>3. CASE i = k /\ n = scopes[i].prereq
      BY <2>1, <2>4, <3>3
    <3>4. i # k => i \in 1..(k - 1)
      BY <2>1
    <3>5. i = k => n \in 1..(scopes[i].prereq - 1) \/ n = scopes[i].prereq
      BY <2>1, <2>3, <2>5
    <3> QED BY <2>1, <2>5, <3>2, <3>3, <3>4, <3>5
  <2> QED BY <2>5 DEF PrerequisitesAreMet, RequirementMet, k
<1>7. CASE ReturnResult \/ RejectContext
  <2>1. Len(scopes') = 0
    BY <1>7 DEF ReturnResult, RejectContext
  <2> QED BY <2>1 DEF PrerequisitesAreMet
<1>8. CASE EvaluateSome
  <2>1. PICK flag : scopes' = <<NewScope(flag, <<>>, NoStatus, NoMemberships)>>
    BY <1>8 DEF EvaluateSome, Evaluate
  <2>2. \A i \in 1..Len(scopes') : scopes'[i].prereq = 1
    BY <2>1 DEF NewScope
  <2> QED BY <2>2 DEF PrerequisitesAreMet
<1> QED BY <1>2, <1>3, <1>4, <1>5, <1>6, <1>7, <1>8, TourCases

------------------------------------------------------------------------------
(***************************************************************************)
(* Rules come after prerequisites and targets.                             *)
(***************************************************************************)
\* Steps that walk over rules, and steps that do not.
LEMMA WalkingSteps ==
  ASSUME TypeInv
  PROVE  /\ RuleStep => walks # <<>> /\ evalRet = <<>> /\ UNCHANGED scopes
         /\ BigSegmentStep => walks # <<>> /\ evalRet = <<>> /\ UNCHANGED evalRet
         /\ FlagStep => walks = <<>> /\ (UNCHANGED walks \/ StartRules)
         /\ RejectContext \/ EvaluateSome =>
              walks = <<>> /\ evalRet = <<>> /\ UNCHANGED <<walks, evalRet>>
<1>1. ASSUME RuleStep PROVE walks # <<>>
  <2>1. segRet # <<>> => walks # <<>>
    BY DEF TypeInv, ControlOK
  <2> QED BY <1>1, <2>1
          DEF RuleStep, FlagRuleMatches, Fallthrough, SegmentRuleMatches, SegmentRulesExhausted,
              PlainClause, NoSuchSegment, SegmentCircular, EnterSegment, SegmentClauseExhausted,
              SegmentReturned, AtSegmentValue, AtSegmentClause, AtClause, AtRule, InRules, Walking,
              IsDefined
<1>2. RuleStep => UNCHANGED scopes
  BY ScopesStay
<1>3. BigSegmentStep => walks # <<>>
  BY BigSegmentFlag
<1>4. BigSegmentStep => UNCHANGED evalRet
  BY DEF BigSegmentStep, ListedSegment, BigSegmentWithoutGeneration, BigSegmentOfOtherKind,
         MembershipCached, BigSegmentsNotConfigured, QueryMembership
<1>5. FlagStep => walks = <<>>
  BY DEF FlagStep, FlagIsOff, PrerequisiteMissing, PrerequisiteCircular, EvaluatePrerequisite,
         PrerequisiteInvalid, PrerequisitePassed, PrerequisiteFailed, TargetsMatch, StartRules,
         ReturnResult, AtPrerequisite, AfterPrerequisites, BeforeRules, PrerequisiteReturns,
         IsDefined, TypeInv, ControlOK
<1>6. FlagStep => UNCHANGED walks \/ StartRules
  BY DEF FlagStep, FlagIsOff, PrerequisiteMissing, PrerequisiteCircular, EvaluatePrerequisite,
         PrerequisiteInvalid, PrerequisitePassed, PrerequisiteFailed, TargetsMatch, ReturnResult
<1>7. RejectContext \/ EvaluateSome =>
        walks = <<>> /\ evalRet = <<>> /\ UNCHANGED <<walks, evalRet>>
  BY DEF RejectContext, EvaluateSome, Evaluate, TypeInv, ControlOK
<1> QED BY <1>1, <1>2, <1>3, <1>4, <1>5, <1>6, <1>7 DEF TypeInv, ControlOK

\* Rules are walked after prerequisites and targets, in a scope that stays where it is.
LEMMA RulesComeLastStep ==
  ASSUME TypeInv, SameData, ~StoreUpdate, [Next]_vars, RulesComeLast
  PROVE  RulesComeLast'
<1>0. PICK stack : stack = scopes'
  OBVIOUS
<1>1. SUFFICES ASSUME walks' # <<>> PROVE PastTargets(stack[Len(stack)])'
  BY <1>0 DEF RulesComeLast, PastTargets
<1>2. \A flag : AnyTargetMatchVariation(flag)' = AnyTargetMatchVariation(flag)
  BY SameDeclaration
<1>3. \A scope : PastTargets(scope)' <=> PastTargets(scope)
  BY <1>2 DEF PastTargets
<1>4. SUFFICES PastTargets(stack[Len(stack)])
  BY <1>3
<1>5. CASE UNCHANGED <<walks, scopes>>
  BY <1>0, <1>1, <1>5 DEF RulesComeLast
<1>6. CASE StartRules
  <2>1. AfterPrerequisites /\ UNCHANGED scopes /\ AnyTargetMatchVariation(Scope.flag) = <<>>
    BY <1>6 DEF StartRules
  <2>2. Scope = scopes[Len(scopes)]
    BY <2>1, ScopeTypes DEF TypeInv, AfterPrerequisites, BeforeRules
  <2> QED BY <1>0, <2>1, <2>2 DEF PastTargets, AfterPrerequisites, IsDefined
<1>7. CASE RuleStep
  BY <1>0, <1>7, WalkingSteps DEF RulesComeLast
<1>8. CASE BigSegmentStep
  <2>1. /\ Len(stack) = Len(scopes) /\ Len(scopes) \in 1..Len(scopes)
        /\ \A i \in 1..Len(scopes) : stack[i].flag = scopes[i].flag
                                     /\ stack[i].prereq = scopes[i].prereq
    BY <1>0, <1>8, PositionsStay
  <2>2. PastTargets(scopes[Len(scopes)])
    BY <1>8, WalkingSteps DEF RulesComeLast
  <2> QED BY <2>1, <2>2 DEF PastTargets
<1>9. CASE FlagStep \/ RejectContext \/ EvaluateSome
  BY <1>1, <1>6, <1>9, WalkingSteps
<1>10. CASE UNCHANGED vars
  BY <1>5, <1>10 DEF vars
<1> QED BY <1>6, <1>7, <1>8, <1>9, <1>10 DEF Next, Step, Returned

------------------------------------------------------------------------------
\* A flag returns what it declares.
LEMMA DeclarationReturned ==
  ASSUME SameData, NEW members, NEW v, NEW flag, NEW detail, NEW ok,
         evalRet' = <<[detail |-> detail, ok |-> ok]>>,
         scopes'[Len(scopes')].flag = flag, detail = DeclaredDetail(flag, members, v)
  PROVE  ReturnsDeclared(members, v)'
<1>1. evalRet'[1].detail = detail
  OBVIOUS
<1>2. DeclaredDetail(flag, members, v)' = DeclaredDetail(flag, members, v)
  BY SameDeclaration
<1>3. PICK mine : mine = scopes'[Len(scopes')].flag
  OBVIOUS
<1> QED BY <1>1, <1>2, <1>3 DEF ReturnsDeclared

\* Nothing is claimed of an evaluation that gives up.
LEMMA GivesUp ==
  ASSUME NEW members, NEW v,
         evalRet' = <<>> \/ \E detail : evalRet' = <<[detail |-> detail, ok |-> FALSE]>>
  PROVE  ReturnsDeclared(members, v)'
<1>1. evalRet' # <<>> => ~evalRet'[1].ok
  OBVIOUS
<1> QED BY <1>1 DEF ReturnsDeclared

\* A rule that cannot be evaluated makes the flag give up, or does not return from it.
LEMMA RuleFailsGivesUp ==
  ASSUME TypeInv, evalRet = <<>>, NEW err, RuleFails(err)
  PROVE  evalRet' = <<>> \/ \E detail : evalRet' = <<[detail |-> detail, ok |-> FALSE]>>
BY DEF RuleFails, Return

\* So the only steps of rules that return a value are the two that serve one.
LEMMA OtherRulesGiveUp ==
  ASSUME TypeInv, RuleStep, ~FlagRuleMatches, ~Fallthrough
  PROVE  evalRet' = <<>> \/ \E detail : evalRet' = <<[detail |-> detail, ok |-> FALSE]>>
<1>1. evalRet = <<>>
  BY WalkingSteps
<1>2. \A err : RuleFails(err) => evalRet' = <<>> \/ \E detail :
                                   evalRet' = <<[detail |-> detail, ok |-> FALSE]>>
  BY <1>1, RuleFailsGivesUp
<1>3. \A r : ClauseReturns(r) => evalRet' = <<>> \/ \E detail :
                                   evalRet' = <<[detail |-> detail, ok |-> FALSE]>>
  BY <1>1, <1>2 DEF ClauseReturns
<1> QED BY <1>1, <1>2, <1>3
        DEF RuleStep, SegmentRuleMatches, SegmentRulesExhausted, PlainClause, NoSuchSegment,
            SegmentCircular, EnterSegment, SegmentClauseExhausted, SegmentReturned

------------------------------------------------------------------------------
(***************************************************************************)
(* What a flag returns is what it declares.                                *)
(***************************************************************************)
\* The steps before rules return what the flag declares, or go on.
LEMMA FlagStepDeclares ==
  ASSUME TypeInv, StackInv, ~updated, SameData, FlagStep,
         NEW members, NEW v, Solves(members, v),
         PrerequisitesAreMet(v), ReturnsDeclared(members, v)
  PROVE  ReturnsDeclared(members, v)'
<1>1. CASE FlagIsOff
  <2> DEFINE outcome == GetOffValue(Scope.flag, NewReason("OFF"))
  <2>1. /\ ~Scope.flag.on /\ scopes # <<>> /\ UNCHANGED scopes
        /\ evalRet' = <<[detail |-> outcome.detail, ok |-> TRUE]>>
    BY <1>1 DEF FlagIsOff, BeforeRules, Return
  <2>2. scopes'[Len(scopes')].flag = Scope.flag
    BY <2>1, ScopeTypes DEF TypeInv
  <2>3. outcome.detail = DeclaredDetail(Scope.flag, members, v)
    BY <2>1, DeclaredOff, ReturnedValues
  <2> HIDE DEF outcome
  <2> QED BY <2>1, <2>2, <2>3, DeclarationReturned
<1>2. CASE PrerequisiteMissing
  <2> DEFINE outcome == GetOffValue(Scope.flag, PrerequisiteFailedReason(Prereq.key))
             flag == Scope.flag
             n == Scope.prereq
  <2>1. /\ AtPrerequisite /\ flag.on /\ scopes # <<>> /\ UNCHANGED scopes
        /\ flagData[Prereq.key] = <<>> /\ n <= Len(flag.prerequisites)
        /\ evalRet' = <<[detail |-> outcome.detail, ok |-> TRUE]>>
    BY <1>2 DEF PrerequisiteMissing, AtPrerequisite, BeforeRules, Return
  <2>2. /\ Scope = scopes[Len(scopes)] /\ Len(scopes) \in 1..Len(scopes)
        /\ flag \in Flag /\ n \in Nat \ {0} /\ Len(flag.prerequisites) \in Nat
    <3>1. Scope = scopes[Len(scopes)] /\ Scope \in ScopeRecord /\ flag \in Flag
          /\ Len(scopes) \in Nat \ {0}
      BY <2>1, ScopeTypes DEF TypeInv
    <3> QED BY <3>1 DEF ScopeRecord, Flag
  <2>3. n \in 1..Len(flag.prerequisites) /\ Prereq = flag.prerequisites[n]
    BY <2>1, <2>2 DEF Prereq
  <2>4. v[Prereq.key] = <<>>
    <3>1. Prereq.key \in FlagKeys
      BY <2>1, PrereqTypes
    <3> QED BY <2>1, <3>1 DEF Solves, ConsistentVariations, IsOn, IsDefined
  <2>5. ~RequirementMet(Prereq, v)
    BY <2>4 DEF RequirementMet
  <2>6. \A m \in 1..(n - 1) : RequirementMet(flag.prerequisites[m], v)
    BY <2>2 DEF PrerequisitesAreMet
  <2>7. outcome.detail = DeclaredDetail(flag, members, v)
    <3>1. outcome.detail = DeclaredValue(flag, flag.offVariation,
                                         PrerequisiteFailedReason(Prereq.key))
      BY ReturnedValues
    <3> HIDE DEF outcome, flag, n
    <3> QED BY <2>1, <2>2, <2>3, <2>5, <2>6, <3>1, DeclaredUnmet
  <2>8. scopes'[Len(scopes')].flag = flag
    BY <2>1, <2>2
  <2> HIDE DEF outcome, flag
  <2> QED BY <2>1, <2>7, <2>8, DeclarationReturned
<1>3. CASE PrerequisiteCircular
  BY <1>3, GivesUp DEF PrerequisiteCircular, Return
<1>4. CASE EvaluatePrerequisite \/ StartRules
  <2>1. evalRet' = <<>>
    BY <1>4 DEF EvaluatePrerequisite, StartRules, AtPrerequisite, AfterPrerequisites, BeforeRules
  <2> QED BY <2>1, GivesUp
<1>5. CASE PrerequisiteInvalid
  BY <1>5, GivesUp DEF PrerequisiteInvalid
<1>6. CASE PrerequisitePassed \/ ReturnResult
  <2>1. evalRet' = <<>>
    BY <1>6 DEF PrerequisitePassed, ReturnResult
  <2> QED BY <2>1, GivesUp
<1>7. CASE PrerequisiteFailed
  <2> DEFINE outcome == GetOffValue(Caller.flag, PrerequisiteFailedReason(CallerPrereq.key))
             flag == Caller.flag
             k == Len(scopes')
             n == Caller.prereq
  <2>1. /\ Popped(0) /\ PrerequisiteReturns /\ PrerequisiteValid /\ ~PrerequisiteMet
        /\ evalRet' = <<[detail |-> outcome.detail, ok |-> TRUE]>>
    BY <1>7 DEF PrerequisiteFailed, Popped
  <2>2. /\ k \in Nat \ {0} /\ Len(scopes) = k + 1 /\ scopes # <<>>
        /\ \A i \in 1..k : scopes'[i].flag = scopes[i].flag
    BY <2>1, PositionsPopped DEF Popped
  <2>3. /\ k = Len(scopes) - 1 /\ k \in 1..k /\ k \in 1..Len(scopes) /\ Len(scopes) > 1
        /\ k \in 1..(Len(scopes) - 1)
    BY <2>2
  <2>4. Caller = scopes[k] /\ CallerPrereq = flag.prerequisites[n]
    BY <2>3 DEF Caller, CallerPrereq
  <2>5. /\ flag \in Flag /\ n \in Nat \ {0} /\ Len(flag.prerequisites) \in Nat
        /\ n <= Len(flag.prerequisites)
    <3>1. Caller \in ScopeRecord /\ flag \in Flag
      BY <2>2, <2>3, ScopeTypes DEF TypeInv
    <3>2. n <= Len(flag.prerequisites)
      BY <2>3, <2>4 DEF TypeInv, CallersWait
    <3> QED BY <3>1, <3>2 DEF ScopeRecord, Flag
  <2>6. n \in 1..Len(flag.prerequisites)
    BY <2>5
  <2>7. flag.on
    BY <2>3, <2>4 DEF StackInv, WaitsForNext
  <2>8. ~RequirementMet(CallerPrereq, v)
    BY <2>1, ReturnedIsMet
  <2>9. \A m \in 1..(n - 1) : RequirementMet(flag.prerequisites[m], v)
    BY <2>3, <2>4 DEF PrerequisitesAreMet
  <2>10. outcome.detail = DeclaredDetail(flag, members, v)
    <3>1. outcome.detail = DeclaredValue(flag, flag.offVariation,
                                         PrerequisiteFailedReason(CallerPrereq.key))
      BY ReturnedValues
    <3> HIDE DEF outcome, flag, n
    <3> QED BY <2>4, <2>5, <2>6, <2>7, <2>8, <2>9, <3>1, DeclaredUnmet
  <2>11. scopes'[Len(scopes')].flag = flag
    BY <2>2, <2>3, <2>4
  <2> HIDE DEF outcome, flag
  <2> QED BY <2>1, <2>10, <2>11, DeclarationReturned
<1>8. CASE TargetsMatch
  <2> DEFINE variation == AnyTargetMatchVariation(Scope.flag)
             outcome == GetVariation(Scope.flag, variation[1], NewReason("TARGET_MATCH"))
             flag == Scope.flag
  <2>1. /\ scopes # <<>> /\ UNCHANGED scopes /\ flag.on /\ IsDefined(variation)
        /\ Scope.prereq > Len(flag.prerequisites)
        /\ evalRet' = <<[detail |-> outcome.detail, ok |-> TRUE]>>
    BY <1>8 DEF TargetsMatch, AfterPrerequisites, BeforeRules, Return
  <2>2. Unmet(flag, v) = {}
    BY <2>1, AllAreMet
  <2>3. outcome.detail = DeclaredValue(flag, variation, NewReason("TARGET_MATCH"))
    <3> HIDE DEF variation, flag
    <3> QED BY <2>1, ReturnedValues DEF flag
  <2>4. outcome.detail = DeclaredDetail(flag, members, v)
    BY <2>1, <2>2, <2>3, DeclaredTarget
  <2>5. scopes'[Len(scopes')].flag = flag
    BY <2>1, ScopeTypes DEF TypeInv
  <2> HIDE DEF outcome, flag
  <2> QED BY <2>1, <2>4, <2>5, DeclarationReturned
<1> QED BY <1>1, <1>2, <1>3, <1>4, <1>5, <1>6, <1>7, <1>8 DEF FlagStep

\* The first rule that holds decides what a flag returns, or its fallthrough if none does.
LEMMA FlagRuleDeclares ==
  ASSUME TypeInv, SameData, Meaning, RulesComeLast, FlagRuleMatches,
         NEW members \in SUBSET SegmentKeys, NEW v, Solves(members, v), PrerequisitesAreMet(v)
  PROVE  ReturnsDeclared(members, v)'
<1> DEFINE flag == scopes[Len(scopes)].flag
           r == Walk.rule
           outcome == GetValueForVariationOrRollout(Scope.flag, Rule.vr, RuleMatchReason(r - 1))
<1>1. /\ AtRule /\ Walk.clause > Len(Rule.clauses) /\ Len(walks) = 1 /\ UNCHANGED scopes
      /\ evalRet' = <<[detail |-> outcome.detail, ok |-> TRUE]>>
  BY DEF FlagRuleMatches, InFlagRules, Return
<1>2. walks # <<>> /\ r >= 1 /\ r <= Len(Walk.src.rules)
  BY <1>1 DEF AtRule, InRules, Walking
<1>3. r \in Nat /\ Walk.src = flag
  BY <1>1, <1>2, Moves, InnermostWalk
<1>4. scopes # <<>> /\ Scope = scopes[Len(scopes)] /\ flag \in Flag
  <2>1. scopes # <<>>
    BY <1>2 DEF TypeInv, ControlOK
  <2> QED BY <2>1, ScopeTypes DEF TypeInv
<1>5. /\ flag.on /\ ~IsDefined(AnyTargetMatchVariation(flag))
      /\ Scope.prereq > Len(Scope.flag.prerequisites)
  BY <1>2, <1>4 DEF RulesComeLast, PastTargets
<1>6. Unmet(flag, v) = {}
  BY <1>4, <1>5, AllAreMet
<1>7. r \in DOMAIN flag.rules
  <2>1. flag.rules \in Seq(FlagRule)
    BY <1>4 DEF Flag
  <2> QED BY <1>2, <1>3, <2>1
<1>8. RuleHolds(flag.rules[r], members)
  BY <1>1, <1>3, ClausesPassed DEF Solves
<1>9. \A q \in 1..(r - 1) : ~RuleHolds(flag.rules[q], members)
  <2>1. WalkedSoFar(Walk, Len(walks) > 1, members)
    BY <1>2, InnermostWalk DEF Solves
  <2> QED BY <1>1, <1>3, <2>1 DEF WalkedSoFar, HoldsIn
<1>10. outcome.detail = DeclaredDetail(flag, members, v)
  <2>1. Rule = flag.rules[r] /\ Scope.flag = flag
    BY <1>3, <1>4 DEF Rule
  <2> HIDE DEF flag, r
  <2> QED BY <1>4, <1>5, <1>6, <1>7, <1>8, <1>9, <2>1, DeclaredRule
<1>11. scopes'[Len(scopes')].flag = flag
  BY <1>1
<1> HIDE DEF outcome, flag
<1> QED BY <1>1, <1>10, <1>11, DeclarationReturned

\* The fallthrough is returned after all rules.
LEMMA FallthroughDeclares ==
  ASSUME TypeInv, SameData, Meaning, RulesComeLast, Fallthrough,
         NEW members \in SUBSET SegmentKeys, NEW v, Solves(members, v), PrerequisitesAreMet(v)
  PROVE  ReturnsDeclared(members, v)'
<1> DEFINE flag == scopes[Len(scopes)].flag
           outcome == GetValueForVariationOrRollout(Scope.flag, Scope.flag.fallthrough,
                                                    NewReason("FALLTHROUGH"))
<1>1. /\ InRules /\ Walk.rule > Len(Walk.src.rules) /\ Len(walks) = 1 /\ UNCHANGED scopes
      /\ evalRet' = <<[detail |-> outcome.detail, ok |-> TRUE]>>
  BY DEF Fallthrough, InFlagRules, Return
<1>2. walks # <<>> /\ Walk.src = flag
  BY <1>1, InnermostWalk DEF InRules, Walking
<1>3. scopes # <<>> /\ Scope = scopes[Len(scopes)]
  <2>1. scopes # <<>>
    BY <1>2 DEF TypeInv, ControlOK
  <2> QED BY <2>1, ScopeTypes DEF TypeInv
<1>4. /\ flag.on /\ ~IsDefined(AnyTargetMatchVariation(flag))
      /\ Scope.prereq > Len(Scope.flag.prerequisites)
  BY <1>2, <1>3 DEF RulesComeLast, PastTargets
<1>5. Unmet(flag, v) = {}
  BY <1>3, <1>4, AllAreMet
<1>6. Holding(flag, members) = {}
  BY <1>1, <1>2, RulesPassed DEF Solves, Holding, HoldsIn
<1>7. outcome.detail = DeclaredDetail(flag, members, v)
  <2>1. Scope.flag = flag
    BY <1>3
  <2> HIDE DEF flag
  <2> QED BY <1>4, <1>5, <1>6, <2>1, DeclaredFallthrough
<1>8. scopes'[Len(scopes')].flag = flag
  BY <1>1
<1> HIDE DEF outcome, flag
<1> QED BY <1>1, <1>7, <1>8, DeclarationReturned

\* Every step keeps the promise.
LEMMA DeclaredStep ==
  ASSUME ListsAreForOtherKinds, EvaluationInv, TypeInv', StackInv, MeaningInv, DeclaredInv,
         [Next]_vars
  PROVE  DeclaredInv'
<1>1. SUFFICES ASSUME ~updated' PROVE RulesComeLast' /\ DeclaredSoFar'
  BY DEF DeclaredInv
<1>2. TypeInv
  BY DEF EvaluationInv
<1>3. ~updated /\ ~StoreUpdate /\ SameData
  BY <1>1, <1>2, SameDataStep
<1>4. Meaning /\ RulesComeLast /\ DeclaredSoFar
  BY <1>3 DEF MeaningInv, DeclaredInv
<1>5. RulesComeLast'
  BY <1>2, <1>3, <1>4, RulesComeLastStep
<1>6. ASSUME NEW members \in SUBSET SegmentKeys, NEW v \in [FlagKeys -> StoredVariations],
             Solves(members, v)
      PROVE  PrerequisitesAreMet(v)' /\ ReturnsDeclared(members, v)'
  <2>1. PrerequisitesAreMet(v) /\ ReturnsDeclared(members, v)
    BY <1>4, <1>6 DEF DeclaredSoFar
  <2>2. PrerequisitesAreMet(v)'
    BY <1>3, <1>6, <2>1, PrerequisitesMetStep
  <2> SUFFICES ReturnsDeclared(members, v)'
    BY <2>2
  <2>3. CASE FlagStep
    BY <1>2, <1>3, <1>6, <2>1, <2>3, FlagStepDeclares
  <2>4. CASE FlagRuleMatches
    BY <1>2, <1>3, <1>4, <1>6, <2>1, <2>4, FlagRuleDeclares
  <2>5. CASE Fallthrough
    BY <1>2, <1>3, <1>4, <1>6, <2>1, <2>5, FallthroughDeclares
  <2>6. CASE RuleStep /\ ~FlagRuleMatches /\ ~Fallthrough
    BY <1>2, <2>6, OtherRulesGiveUp, GivesUp
  <2>7. CASE BigSegmentStep \/ RejectContext \/ EvaluateSome
    <3>1. evalRet' = <<>>
      BY <1>2, <2>7, WalkingSteps
    <3> QED BY <3>1, GivesUp
  <2>8. CASE UNCHANGED vars
    <3>1. UNCHANGED <<scopes, evalRet>>
      BY <2>8 DEF vars
    <3>2. PICK answer, flag : answer = evalRet /\ flag = scopes[Len(scopes)].flag
      OBVIOUS
    <3>3. answer # <<>> /\ answer[1].ok => answer[1].detail = DeclaredDetail(flag, members, v)
      BY <2>1, <3>2 DEF ReturnsDeclared
    <3>4. DeclaredDetail(flag, members, v)' = DeclaredDetail(flag, members, v)
      BY <1>3, SameDeclaration
    <3>5. answer = evalRet' /\ flag = scopes'[Len(scopes')].flag
      BY <3>1, <3>2
    <3> QED BY <3>3, <3>4, <3>5 DEF ReturnsDeclared
  <2> QED BY <1>3, <2>3, <2>4, <2>5, <2>6, <2>7, <2>8 DEF Next, Step, Returned
<1>7. DeclaredSoFar'
  <2>1. StoredVariations' = StoredVariations
    BY <1>3, SameDeclaration
  <2>2. \A members, v : Solves(members, v)' <=> Solves(members, v)
    BY <1>3, SameDeclaration, SameMeaning DEF Solves
  <2> QED BY <1>6, <2>1, <2>2 DEF DeclaredSoFar
<1> QED BY <1>5, <1>7

\* Nothing has been returned yet.
LEMMA InitDeclared == Init => DeclaredInv
<1> SUFFICES ASSUME Init PROVE RulesComeLast /\ DeclaredSoFar
  BY DEF DeclaredInv
<1>1. Len(scopes) = 0 /\ walks = <<>> /\ evalRet = <<>>
  BY DEF Init
<1> QED BY <1>1 DEF RulesComeLast, DeclaredSoFar, PrerequisitesAreMet, ReturnsDeclared

------------------------------------------------------------------------------
(***************************************************************************)
(* What flags declare exists if they do not require one another in a circle. *)
(***************************************************************************)
\* What a flag that is on returns is one of its variations, or none.
LEMMA DeclaredInRange ==
  ASSUME NEW flag, NEW members, NEW v
  PROVE  DeclaredDetail(flag, members, v).variation
           \in {<<>>} \cup {<<i>> : i \in 0..(flag.variations - 1)}
<1> DEFINE range == {<<>>} \cup {<<i>> : i \in 0..(flag.variations - 1)}
<1>1. \A err : ErrorOutcome(err).detail.variation = <<>>
  BY DEF ErrorOutcome, ErrorDetail, DefaultDetail
<1>2. \A index, reason : GetVariation(flag, index, reason).detail.variation \in range
  BY <1>1 DEF GetVariation, Outcome, NewDetail
<1>3. \A vr, reason : GetValueForVariationOrRollout(flag, vr, reason).detail.variation \in range
  <2> HIDE DEF range
  <2>1. <<>> \in range
    BY DEF range
  <2> QED BY <1>1, <1>2, <2>1 DEF GetValueForVariationOrRollout
<1>4. \A variation, reason : DeclaredValue(flag, variation, reason).variation \in range
  BY DEF DeclaredValue, NewDetail, ErrorDetail, DefaultDetail
<1> HIDE DEF range
<1>5. DeclaredDetail(flag, members, v).variation \in range
  BY <1>3, <1>4 DEF DeclaredDetail
<1> QED BY <1>5 DEF range

\* The flags that a flag that is on requires, and what it returns if v says what they do.
RequiredBy(key) ==
  {k \in FlagKeys :
     /\ IsOn(key)
     /\ \E i \in DOMAIN flagData[key][1].prerequisites :
          flagData[key][1].prerequisites[i].key = k}
ReturnedBy(key, members, v) ==
  IF IsOn(key) THEN DeclaredDetail(flagData[key][1], members, v).variation ELSE <<>>

\* It depends on the flags it requires only.
LEMMA ReturnDependsOnRequired ==
  ASSUME TypeInv, NEW key \in FlagKeys, NEW members, NEW a, NEW b,
         \A k \in RequiredBy(key) : a[k] = b[k]
  PROVE  ReturnedBy(key, members, a) = ReturnedBy(key, members, b)
<1> DEFINE flag == flagData[key][1]
<1>1. CASE ~IsOn(key)
  BY <1>1 DEF ReturnedBy
<1>2. CASE IsOn(key)
  <2>1. flag \in Flag
    <3>1. flagData[key] \in Optional(Flags) /\ IsDefined(flagData[key])
      BY <1>2 DEF TypeInv, TypeOK, IsOn
    <3> QED BY <3>1, OptionalValues, EvaluatorAssumption
  <2>2. \A i \in DOMAIN flag.prerequisites : flag.prerequisites[i].key \in RequiredBy(key)
    <3>1. flag.prerequisites \in Seq(Prerequisite)
      BY <2>1 DEF Flag
    <3>2. \A i \in DOMAIN flag.prerequisites : flag.prerequisites[i].key \in FlagKeys
      <4>1. \A i \in DOMAIN flag.prerequisites : flag.prerequisites[i] \in Prerequisite
        <5> HIDE DEF flag
        <5> QED BY <3>1
      <4> QED BY <4>1 DEF Prerequisite
    <3> QED BY <1>2, <3>2 DEF RequiredBy
  <2>3. Unmet(flag, a) = Unmet(flag, b)
    BY <2>2 DEF Unmet, RequirementMet
  <2>4. DeclaredDetail(flag, members, a) = DeclaredDetail(flag, members, b)
    <3> HIDE DEF flag
    <3> QED BY <2>3 DEF DeclaredDetail
  <2> QED BY <1>2, <2>4 DEF ReturnedBy
<1> QED BY <1>1, <1>2

\* Flags that do not require one another in a circle all return something.
LEMMA VariationsAreDeclared ==
  ASSUME TypeInv, ~FlagsAreCyclic, NEW members
  PROVE  \E v \in [FlagKeys -> StoredVariations] : ConsistentVariations(v, members)
<1> DEFINE K == FlagKeys \X StoredVariations
           ValuesIn(key, M) == {x \in StoredVariations : <<key, x>> \in M}
           VariationsOf(M) ==
             [key \in FlagKeys |-> IF ValuesIn(key, M) = {} THEN <<>>
                                   ELSE CHOOSE x \in ValuesIn(key, M) : TRUE]
           refs == [p \in K |-> {q \in K : q[1] \in RequiredBy(p[1])}]
           defined == {d \in K \X SUBSET K :
                         d[1][2] = ReturnedBy(d[1][1], members, VariationsOf(d[2]))}
<1>1. \A p \in K : refs[p] \subseteq K
  OBVIOUS
<1>2. DependsOnRefs(K, refs, defined)
  <2>1. ASSUME NEW p \in K, NEW a \in SUBSET K, NEW b \in SUBSET K, a \cap refs[p] = b \cap refs[p]
        PROVE  ReturnedBy(p[1], members, VariationsOf(a))
                 = ReturnedBy(p[1], members, VariationsOf(b))
    <3>1. p[1] \in FlagKeys
      OBVIOUS
    <3>2. ASSUME NEW k \in RequiredBy(p[1])
          PROVE  VariationsOf(a)[k] = VariationsOf(b)[k]
      <4>1. k \in FlagKeys
        BY DEF RequiredBy
      <4>2. \A x \in StoredVariations : <<k, x>> \in refs[p]
        BY <4>1
      <4>3. ValuesIn(k, a) = ValuesIn(k, b)
        BY <2>1, <4>2
      <4> HIDE DEF ValuesIn
      <4> QED BY <4>1, <4>3
    <3> HIDE DEF VariationsOf, K, refs
    <3> QED BY <3>1, <3>2, ReturnDependsOnRequired
  <2>2. ASSUME NEW p \in K, NEW a \in SUBSET K
        PROVE  <<p, a>> \in defined <=> p[2] = ReturnedBy(p[1], members, VariationsOf(a))
    <3> HIDE DEF VariationsOf, K
    <3> QED BY <2>2
  <2> HIDE DEF defined, K, VariationsOf, refs
  <2> QED BY <2>1, <2>2 DEF DependsOnRefs
<1>3. WellFounded(K, refs)
  <2>1. SUFFICES ASSUME NEW X \in SUBSET K, X # {}
                 PROVE  \E p \in X : refs[p] \cap X = {}
    BY DEF WellFounded
  <2> DEFINE keys == {k \in FlagKeys : \E p \in X : p[1] = k}
  <2>2. keys \in (SUBSET FlagKeys) \ {{}}
    <3>1. PICK p \in X : TRUE
      BY <2>1
    <3>2. p[1] \in keys
      BY <3>1
    <3> QED BY <3>2
  <2>3. PICK k \in keys :
          ~(/\ IsDefined(flagData[k]) /\ flagData[k][1].on
            /\ \E i \in DOMAIN flagData[k][1].prerequisites :
                 flagData[k][1].prerequisites[i].key \in keys)
    <3> HIDE DEF keys
    <3> QED BY <2>2 DEF FlagsAreCyclic
  <2>4. PICK p \in X : p[1] = k
    BY <2>3
  <2>5. RequiredBy(k) \cap keys = {}
    BY <2>3 DEF RequiredBy, IsOn
  <2>6. \A q \in X : q[1] \in keys
    BY <2>1
  <2>7. refs[p] = {q \in K : q[1] \in RequiredBy(k)}
    BY <2>1, <2>4
  <2> HIDE DEF keys, refs, K
  <2> QED BY <2>4, <2>5, <2>6, <2>7
<1>4. PICK M \in SUBSET K : \A p \in K : p \in M <=> <<p, M>> \in defined
  <2> HIDE DEF K, refs, defined
  <2> QED BY <1>1, <1>2, <1>3, SolutionExists
<1> DEFINE v == VariationsOf(M)
<1>5. ASSUME NEW key \in FlagKeys PROVE ReturnedBy(key, members, v) \in StoredVariations
  <2>1. CASE IsOn(key)
    <3>1. DeclaredDetail(flagData[key][1], members, v).variation
            \in {<<>>} \cup {<<i>> : i \in 0..(flagData[key][1].variations - 1)}
      <4> HIDE DEF v
      <4> QED BY DeclaredInRange
    <3> HIDE DEF v
    <3> QED BY <1>5, <2>1, <3>1 DEF ReturnedBy, StoredVariations
  <2>2. CASE ~IsOn(key)
    BY <2>2 DEF ReturnedBy, StoredVariations
  <2> QED BY <2>1, <2>2
<1>6. ASSUME NEW key \in FlagKeys PROVE v[key] = ReturnedBy(key, members, v)
  <2>1. ASSUME NEW x \in StoredVariations
        PROVE  <<key, x>> \in M <=> x = ReturnedBy(key, members, v)
    <3>1. <<key, x>> \in K
      BY <1>6
    <3>2. <<<<key, x>>, M>> \in defined <=> x = ReturnedBy(key, members, v)
      <4> HIDE DEF VariationsOf, K
      <4> QED BY <1>4, <3>1
    <3> QED BY <1>4, <3>1, <3>2
  <2>2. ValuesIn(key, M) = {ReturnedBy(key, members, v)}
    <3> HIDE DEF v
    <3> QED BY <1>5, <2>1
  <2>3. v[key] = CHOOSE x \in ValuesIn(key, M) : TRUE
    BY <2>2
  <2> HIDE DEF v, ValuesIn
  <2> QED BY <2>2, <2>3
<1>7. v \in [FlagKeys -> StoredVariations]
  <2>1. \A key \in FlagKeys : v[key] \in StoredVariations
    BY <1>5, <1>6
  <2>2. v = [key \in FlagKeys |-> v[key]]
    OBVIOUS
  <2> HIDE DEF v
  <2> QED BY <2>1, <2>2
<1> HIDE DEF v
<1> QED BY <1>6, <1>7 DEF ConsistentVariations, ReturnedBy

------------------------------------------------------------------------------
\* Everything that the meaning of an evaluation rests on.
MeaningStateInv == VerdictStateInv /\ MeaningInv /\ DeclaredInv

\* An evaluation that no update disturbs returns what flags and segments declare, and they
\* declare something if nothing goes round in a circle.  The lists of segments are assumed
\* to be for the kinds that the data model says they are for.
THEOREM EvaluationMeansWhatIsDeclared ==
  ASSUME ListsAreForOtherKinds
  PROVE  Spec => []MeaningOfEvaluation
<1>1. Init => MeaningInv /\ DeclaredInv
  BY InitMeans, InitDeclared
<1>2. /\ VerdictStateInv /\ VerdictStateInv' /\ [Next]_vars /\ MeaningInv /\ DeclaredInv
      => (MeaningInv /\ DeclaredInv)'
  <2> SUFFICES ASSUME VerdictStateInv, VerdictStateInv', [Next]_vars, MeaningInv, DeclaredInv
               PROVE  MeaningInv' /\ DeclaredInv'
    OBVIOUS
  <2>1. EvaluationInv /\ TypeInv /\ TypeInv' /\ StackInv
    BY DEF VerdictStateInv, TourStateInv, EvaluationInv
  <2>2. MeaningInv'
    BY <2>1, MeaningStep
  <2> QED BY <2>1, <2>2, DeclaredStep
<1>3. Spec => [](VerdictStateInv /\ MeaningInv /\ DeclaredInv)
  BY <1>1, <1>2, EvaluationKeepsVerdicts, PTL DEF Spec
<1>4. VerdictStateInv /\ DeclaredInv => MeaningOfEvaluation
  <2> SUFFICES ASSUME VerdictStateInv, DeclaredInv, ~updated, IsDefined(evalRet), evalRet[1].ok
               PROVE  /\ \A members \in SUBSET SegmentKeys : ConsistentMembers(members) =>
                           \A v \in [FlagKeys -> StoredVariations] :
                             ConsistentVariations(v, members) =>
                               evalRet[1].detail = DeclaredDetail(Scope.flag, members, v)
                      /\ ~FlagsAreCyclic /\ ~SegmentsAreCyclic =>
                           \E members \in SUBSET SegmentKeys,
                              v \in [FlagKeys -> StoredVariations] :
                             ConsistentMembers(members) /\ ConsistentVariations(v, members)
    BY DEF MeaningOfEvaluation
  <2>1. TypeInv
    BY DEF VerdictStateInv, TourStateInv, EvaluationInv
  <2>2. evalRet # <<>> /\ Scope = scopes[Len(scopes)]
    <3>1. scopes # <<>>
      BY <2>1 DEF TypeInv, ControlOK, IsDefined
    <3> QED BY <2>1, <3>1, ScopeTypes DEF TypeInv, IsDefined
  <2>3. ASSUME NEW members \in SUBSET SegmentKeys, ConsistentMembers(members),
               NEW v \in [FlagKeys -> StoredVariations], ConsistentVariations(v, members)
        PROVE  evalRet[1].detail = DeclaredDetail(Scope.flag, members, v)
    <3>1. ReturnsDeclared(members, v)
      BY <2>3 DEF DeclaredInv, DeclaredSoFar, Solves
    <3> QED BY <2>2, <3>1 DEF ReturnsDeclared
  <2>4. ASSUME ~FlagsAreCyclic, ~SegmentsAreCyclic
        PROVE  \E members \in SUBSET SegmentKeys, v \in [FlagKeys -> StoredVariations] :
                 ConsistentMembers(members) /\ ConsistentVariations(v, members)
    <3>1. PICK members \in SUBSET SegmentKeys : ConsistentMembers(members)
      BY <2>4, MembersExist, ConsistentMembersContain
    <3> QED BY <2>1, <2>4, <3>1, VariationsAreDeclared
  <2> QED BY <2>3, <2>4
<1> QED BY <1>3, <1>4, PTL
==============================================================================
