--------------------------- MODULE EvaluatorProofs ---------------------------
(***************************************************************************)
(* Theorems about Evaluate, for every value of the constants: types and    *)
(* nesting, and what an evaluation answers: the kinds of its errors, what  *)
(* it does with them and when it gives up, the variations it returns, what *)
(* it makes of big segment memberships and statuses, the order in which it *)
(* visits prerequisites, and what it remembers of a visit that is over.    *)
(***************************************************************************)
EXTENDS EvaluatorProperties, SequenceTheorems, TLAPS

------------------------------------------------------------------------------
(***************************************************************************)
(* Optional values and sequences used as stacks.                           *)
(***************************************************************************)
\* An optional value is absent, or is a sequence of one element.
LEMMA OptionalValues ==
  ASSUME NEW S
  PROVE  /\ <<>> \in Optional(S)
         /\ \A x \in S : <<x>> \in Optional(S)
         /\ \A o \in Optional(S) : IsDefined(o) => o[1] \in S /\ o = <<o[1]>>
<1>1. \A o \in Optional(S) : IsDefined(o) => o[1] \in S /\ o = <<o[1]>>
  <2> TAKE o \in Optional(S)
  <2> HAVE IsDefined(o)
  <2>1. o \in Seq(S) /\ Len(o) <= 1
    BY DEF Optional
  <2>2. Len(o) \in Nat \ {0}
    BY <2>1, EmptySeq DEF IsDefined
  <2>3. \A n \in Nat \ {0} : n <= 1 => n = 1
    OBVIOUS
  <2>4. Len(o) = 1
    BY <2>1, <2>2, <2>3, Zenon
  <2> QED BY <2>1, <2>4
<1> QED BY <1>1 DEF Optional

\* The top of a stack, and the stack without its top.
LEMMA Stacks ==
  ASSUME NEW S, NEW s \in Seq(S), s # <<>>
  PROVE  /\ Len(s) \in Nat \ {0}
         /\ Last(s) = s[Len(s)]
         /\ Last(s) \in S
         /\ Front(s) \in Seq(S)
         /\ Len(Front(s)) = Len(s) - 1
         /\ \A i \in 1..(Len(s) - 1) : Front(s)[i] = s[i]
<1> DEFINE n == Len(s) - 1
<1>1. Len(s) \in Nat \ {0} /\ n \in Int
  BY EmptySeq
<1>2. \A i \in 1..Len(s) : s[i] \in S
  BY ElementOfSeq
<1>3. \A i \in 1..n : s[i] \in S
  BY <1>1, <1>2
<1> HIDE DEF n
<1>4. /\ SubSeq(s, 1, n) \in Seq(S)
      /\ Len(SubSeq(s, 1, n)) = IF 1 <= n THEN n - 1 + 1 ELSE 0
      /\ \A i \in 1..(n - 1 + 1) : SubSeq(s, 1, n)[i] = s[1 + i - 1]
  BY <1>1, <1>3, SubSeqProperties
<1>5. Last(s) = s[Len(s)] /\ Last(s) \in S
  BY <1>1, <1>2 DEF Last
<1>6. /\ Front(s) \in Seq(S)
      /\ \A i \in 1..(Len(s) - 1) : Front(s)[i] = s[i]
  BY <1>1, <1>4 DEF Front, n
<1>7. n \in Nat
  BY <1>1 DEF n
<1>8. Len(SubSeq(s, 1, n)) = n
  <2>1. \A k \in Nat : \A m : m = (IF 1 <= k THEN k - 1 + 1 ELSE 0) => m = k
    OBVIOUS
  <2> QED BY <1>4, <1>7, <2>1, Zenon
<1>9. Len(Front(s)) = n
  BY <1>8, Zenon DEF Front, n
<1> QED BY <1>1, <1>5, <1>6, <1>9, Zenon DEF n

------------------------------------------------------------------------------
(***************************************************************************)
(* What the operators return.                                              *)
(***************************************************************************)
\* Reasons are reasons, whatever they say.
LEMMA ReasonTypes ==
  /\ \A kind \in ReasonKinds : NewReason(kind) \in Reason
  /\ \A i \in Int : RuleMatchReason(i) \in Reason
  /\ \A key \in FlagKeys : PrerequisiteFailedReason(key) \in Reason
  /\ \A errorKind \in ErrorKinds : ErrorReason(errorKind) \in Reason
  /\ \A reason \in Reason : ReasonToExperimentReason(reason) \in Reason
<1>1. \A kind \in ReasonKinds : NewReason(kind) \in Reason
  BY DEF NewReason, Reason, BigSegmentsStatus, NoStatus
<1>2. {"RULE_MATCH", "PREREQUISITE_FAILED", "ERROR"} \subseteq ReasonKinds
  BY DEF ReasonKinds
<1>3. \A i \in Int : RuleMatchReason(i) \in Reason
  BY <1>1, <1>2 DEF RuleMatchReason, NewReason, Reason
<1>4. \A key \in FlagKeys : PrerequisiteFailedReason(key) \in Reason
  BY <1>1, <1>2 DEF PrerequisiteFailedReason, NewReason, Reason
<1>5. \A errorKind \in ErrorKinds : ErrorReason(errorKind) \in Reason
  BY <1>1, <1>2 DEF ErrorReason, Reason
<1>6. \A reason \in Reason : ReasonToExperimentReason(reason) \in Reason
  BY DEF ReasonToExperimentReason, Reason
<1> QED BY <1>1, <1>3, <1>4, <1>5, <1>6

\* A detail with or without a variation.
LEMMA DetailTypes ==
  /\ \A reason \in Reason : DefaultDetail(reason) \in Detail
  /\ \A i \in Int, reason \in Reason : NewDetail(i, reason) \in Detail
  /\ \A errorKind \in ErrorKinds : ErrorDetail(errorKind) \in Detail
BY OptionalValues, ReasonTypes DEF DefaultDetail, NewDetail, ErrorDetail, Detail

OutcomeRecord == [detail: Detail, err: Errors \cup {NoError}]

\* The outcome of a flag has a detail, and an error that can be logged.
LEMMA OutcomeTypes ==
  /\ \A detail \in Detail : Outcome(detail) \in OutcomeRecord
  /\ \A err \in Errors : ErrorOutcome(err) \in OutcomeRecord
BY DetailTypes
   DEF Outcome, ErrorOutcome, OutcomeRecord, ErrorKindForError, ErrorKinds, Errors, EvalErrors

\* getVariation and getOffValue.
LEMMA VariationTypes ==
  ASSUME NEW flag \in Flag, NEW reason \in Reason
  PROVE  /\ \A index : GetVariation(flag, index, reason) \in OutcomeRecord
         /\ GetOffValue(flag, reason) \in OutcomeRecord
<1>1. \A index : GetVariation(flag, index, reason) \in OutcomeRecord
  <2> SUFFICES ASSUME NEW index PROVE GetVariation(flag, index, reason) \in OutcomeRecord
    OBVIOUS
  <2>1. CASE index \in 0..(flag.variations - 1)
    <3>1. flag.variations \in Nat
      BY DEF Flag
    <3>2. index \in Int
      BY <2>1, <3>1
    <3> QED BY <2>1, <3>2, DetailTypes, OutcomeTypes DEF GetVariation
  <2>2. CASE index \notin 0..(flag.variations - 1)
    BY <2>2, OutcomeTypes DEF GetVariation, Errors, EvalErrors
  <2> QED BY <2>1, <2>2
<1> QED BY <1>1, DetailTypes, OutcomeTypes DEF GetOffValue

\* A rollout fails, if it does, with an error that has an error kind.
LEMMA RolloutErrors ==
  \A vr, c, key, salt :
    VariationOrRolloutResult(vr, c, key, salt).err \in {NoError, "emptyRollout", "badAttrRef"}
BY DEF VariationOrRolloutResult, VariationChosen, VariationError, ComputeBucketValue

\* getValueForVariationOrRollout.
LEMMA RolloutTypes ==
  ASSUME NEW flag \in Flag, NEW reason \in Reason, NEW vr
  PROVE  GetValueForVariationOrRollout(flag, vr, reason) \in OutcomeRecord
<1> DEFINE r == VariationOrRolloutResult(vr, context, flag.key, flag.salt)
<1>1. r.err \in {NoError} \cup Errors
  BY RolloutErrors DEF Errors, EvalErrors
<1>2. CASE r.err # NoError
  BY <1>1, <1>2, OutcomeTypes DEF GetValueForVariationOrRollout
<1>3. CASE r.err = NoError
  BY <1>3, VariationTypes, ReasonTypes DEF GetValueForVariationOrRollout
<1> QED BY <1>2, <1>3

\* A clause that is not a segment match has a result, and two ways to fail.
LEMMA ClauseTypes ==
  ASSUME NEW c, NEW ctx
  PROVE  /\ ClauseMatchesContextNoSegments(c, ctx) \in MatchResult
         /\ ClauseMatchesContextNoSegments(c, ctx).err \in {NoError, "emptyAttrRef", "badAttrRef"}
<1>1. \A v : MatchAny(c, v) \in BOOLEAN
  BY DEF MatchAny, ClauseFindValue
<1>2. \A v : MatchValueOrElements(c, v) \in BOOLEAN
  BY <1>1 DEF MatchValueOrElements
<1>3. \A b \in BOOLEAN : MaybeNegate(c.negate, b) \in BOOLEAN
  BY DEF MaybeNegate
<1>4. ClauseMatchByKind(c, ctx) \in BOOLEAN
  BY DEF ClauseMatchByKind
<1>5. \A b \in BOOLEAN : Matched(b) \in MatchResult /\ Matched(b).err = NoError
  BY DEF Matched, MatchResult
<1>6. \A err \in Errors : Failed(err) \in MatchResult /\ Failed(err).err = err
  BY DEF Failed, MatchResult
<1>7. {"emptyAttrRef", "badAttrRef"} \subseteq Errors
  BY DEF Errors, EvalErrors
<1>8. CASE c.attribute = UndefinedRef
  BY <1>6, <1>7, <1>8 DEF ClauseMatchesContextNoSegments, UndefinedRef, InvalidRef
<1>9. CASE c.attribute = InvalidRef
  BY <1>6, <1>7, <1>9 DEF ClauseMatchesContextNoSegments, UndefinedRef, InvalidRef
<1>10. CASE c.attribute = "kind"
  BY <1>3, <1>4, <1>5, <1>10 DEF ClauseMatchesContextNoSegments, UndefinedRef, InvalidRef
<1>11. CASE c.attribute \notin {UndefinedRef, InvalidRef, "kind"}
  BY <1>2, <1>3, <1>5, <1>11 DEF ClauseMatchesContextNoSegments
<1> QED BY <1>8, <1>9, <1>10, <1>11

\* The weight of a segment rule decides, or its attribute reference is invalid.
LEMMA SegmentWeightTypes ==
  ASSUME NEW rule, NEW ctx, NEW key, NEW salt
  PROVE  /\ SegmentRuleWeightMatches(rule, ctx, key, salt) \in MatchResult
         /\ SegmentRuleWeightMatches(rule, ctx, key, salt).err \in {NoError, "badAttrRef"}
BY DEF SegmentRuleWeightMatches, ComputeBucketValue, Matched, Failed, MatchResult, Errors, EvalErrors

------------------------------------------------------------------------------
(***************************************************************************)
(* Type correctness.  TypeOK is not inductive by itself: that the operators *)
(* are applied to what they expect depends on where the evaluation stands. *)
(***************************************************************************)
\* A scope that is not the running one waits for one of its prerequisites.
CallersWait ==
  \A i \in 1..(Len(scopes) - 1) : scopes[i].prereq <= Len(scopes[i].flag.prerequisites)

\* Rules are walked, and values are on their way back, inside an evaluation only; the walk
\* over a flag's rules starts with a rule, and a segment returns to a walk.
ControlOK ==
  /\ walks # <<>> => scopes # <<>> /\ evalRet = <<>> /\ walks[1].rule >= 1
  /\ evalRet # <<>> => scopes # <<>>
  /\ segRet # <<>> => walks # <<>>

TypeInv == TypeOK /\ CallersWait /\ ControlOK

EvalReturn == [detail: Detail, ok: BOOLEAN]
LogRecord == [flag: FlagKeys, err: Errors]
RuleTypes ==
  /\ walks \in Seq(WalkRecord)
  /\ segRet \in Optional(MatchResult)
  /\ evalRet \in Optional(EvalReturn)
  /\ log \in Seq(LogRecord)

\* The flag of the running scope, and of the scope that waits for it.
LEMMA ScopeTypes ==
  ASSUME TypeOK, scopes # <<>>
  PROVE  /\ Len(scopes) \in Nat \ {0}
         /\ Scope = scopes[Len(scopes)]
         /\ Scope \in ScopeRecord
         /\ Scope.flag \in Flags /\ Scope.flag \in Flag /\ Scope.flag.key \in FlagKeys
         /\ Scope.bigSegmentsStatus \in BigSegmentsStatus
         /\ Len(scopes) > 1 => /\ Caller \in ScopeRecord
                               /\ Caller.flag \in Flags
                               /\ Caller.flag \in Flag /\ Caller.flag.key \in FlagKeys
<1>1. scopes \in Seq(ScopeRecord)
  BY DEF TypeOK
<1>2. /\ Len(scopes) \in Nat \ {0}
      /\ Last(scopes) = scopes[Len(scopes)]
      /\ Last(scopes) \in ScopeRecord
  BY <1>1, Stacks
<1>3. Len(scopes) > 1 => scopes[Len(scopes) - 1] \in ScopeRecord
  BY <1>1, <1>2
<1>4. \A s \in ScopeRecord :
        /\ s.flag \in Flags /\ s.flag \in Flag /\ s.flag.key \in FlagKeys
        /\ s.bigSegmentsStatus \in BigSegmentsStatus
  BY EvaluatorAssumption DEF ScopeRecord, Flag
<1> QED BY <1>2, <1>3, <1>4 DEF Scope, Caller

\* evaluate() returns a detail and, if there is an error, logs it for the running flag.
LEMMA ReturnTypes ==
  ASSUME TypeOK, scopes # <<>>,
         NEW outcome \in OutcomeRecord, NEW ok \in BOOLEAN, Return(outcome, ok)
  PROVE  /\ evalRet' \in Optional(EvalReturn)
         /\ evalRet' # <<>>
         /\ log' \in Seq(LogRecord)
<1>1. outcome.detail \in Detail /\ outcome.err \in Errors \cup {NoError}
  BY DEF OutcomeRecord
<1>2. [detail |-> outcome.detail, ok |-> ok] \in EvalReturn
  BY <1>1 DEF EvalReturn
<1>3. evalRet' \in Optional(EvalReturn) /\ evalRet' # <<>>
  BY <1>2, OptionalValues DEF Return
<1>4. log \in Seq(LogRecord)
  BY DEF TypeOK, LogRecord
<1>5. outcome.err # NoError => [flag |-> Scope.flag.key, err |-> outcome.err] \in LogRecord
  BY <1>1, ScopeTypes DEF LogRecord
<1>6. log' \in Seq(LogRecord)
  BY <1>4, <1>5, AppendProperties DEF Return
<1> QED BY <1>3, <1>6

\* Moving on in a walk.
LEMMA WalkTypes ==
  ASSUME TypeInv, walks # <<>>
  PROVE  /\ Len(walks) \in Nat \ {0}
         /\ Walk = walks[Len(walks)]
         /\ Walk \in WalkRecord
         /\ \A next \in {NextClause, NextRule, NextValue} :
              /\ next \in Seq(WalkRecord)
              /\ next # <<>>
              /\ next[1].rule >= 1
<1>1. walks \in Seq(WalkRecord)
  BY DEF TypeInv, TypeOK
<1>2. /\ Len(walks) \in Nat \ {0}
      /\ Last(walks) = walks[Len(walks)]
      /\ Last(walks) \in WalkRecord
  BY <1>1, Stacks
<1> DEFINE n == Len(walks)
           w == walks[n]
<1>3. /\ w \in WalkRecord /\ w.rule \in Nat /\ w.clause \in Nat \ {0} /\ w.value \in Nat \ {0}
      /\ n \in 1..Len(walks)
  BY <1>2 DEF WalkRecord
<1>4. /\ NextClause = [walks EXCEPT ![n] = [w EXCEPT !.clause = @ + 1, !.value = 1]]
      /\ NextRule = [walks EXCEPT ![n] = [w EXCEPT !.rule = @ + 1, !.clause = 1, !.value = 1]]
      /\ NextValue = [walks EXCEPT ![n] = [w EXCEPT !.value = @ + 1]]
  BY <1>1, <1>3 DEF NextClause, NextRule, NextValue
<1>5. /\ [w EXCEPT !.clause = @ + 1, !.value = 1] \in WalkRecord
      /\ [w EXCEPT !.rule = @ + 1, !.clause = 1, !.value = 1] \in WalkRecord
      /\ [w EXCEPT !.value = @ + 1] \in WalkRecord
  <2>1. \A r \in WalkRecord, k \in Nat \ {0} :
          [r EXCEPT !.clause = k] \in WalkRecord /\ [r EXCEPT !.value = k] \in WalkRecord
    BY DEF WalkRecord
  <2>2. \A r \in WalkRecord, k \in Nat : [r EXCEPT !.rule = k] \in WalkRecord
    BY DEF WalkRecord
  <2>3. w.rule + 1 \in Nat /\ w.clause + 1 \in Nat \ {0} /\ w.value + 1 \in Nat \ {0}
    BY <1>3
  <2>4. 1 \in Nat \ {0}
    OBVIOUS
  <2> HIDE DEF w
  <2>5. [[w EXCEPT !.clause = w.clause + 1] EXCEPT !.value = 1] \in WalkRecord
    BY <1>3, <2>1, <2>3, <2>4
  <2>6. [[[w EXCEPT !.rule = w.rule + 1] EXCEPT !.clause = 1] EXCEPT !.value = 1] \in WalkRecord
    BY <1>3, <2>1, <2>2, <2>3, <2>4
  <2>7. [w EXCEPT !.value = w.value + 1] \in WalkRecord
    BY <1>3, <2>1, <2>3
  <2> QED BY <2>5, <2>6, <2>7
<1>6. \A r \in WalkRecord :
        /\ [walks EXCEPT ![n] = r] \in Seq(WalkRecord)
        /\ [walks EXCEPT ![n] = r] # <<>>
        /\ [walks EXCEPT ![n] = r][1] = IF n = 1 THEN r ELSE walks[1]
  BY <1>1, <1>3
<1>7. walks[1].rule >= 1
  BY DEF TypeInv, ControlOK
<1>8. \A r \in WalkRecord : r.rule >= w.rule => [walks EXCEPT ![n] = r][1].rule >= 1
  <2> TAKE r \in WalkRecord
  <2>1. r.rule \in Nat
    BY DEF WalkRecord
  <2>2. [walks EXCEPT ![n] = r][1] = IF n = 1 THEN r ELSE walks[1]
    BY <1>6
  <2> HIDE DEF w
  <2>3. n = 1 => w.rule >= 1
    BY <1>7 DEF w
  <2> QED BY <1>3, <1>7, <2>1, <2>2, <2>3
<1>9. /\ [w EXCEPT !.clause = @ + 1, !.value = 1].rule >= w.rule
      /\ [w EXCEPT !.rule = @ + 1, !.clause = 1, !.value = 1].rule >= w.rule
      /\ [w EXCEPT !.value = @ + 1].rule >= w.rule
  BY <1>3 DEF WalkRecord
<1> HIDE DEF n, w
<1>10. \A next \in {NextClause, NextRule, NextValue} :
         /\ next \in Seq(WalkRecord)
         /\ next # <<>>
         /\ next[1].rule >= 1
  <2>1. \A r \in WalkRecord : r.rule >= w.rule =>
          /\ [walks EXCEPT ![n] = r] \in Seq(WalkRecord)
          /\ [walks EXCEPT ![n] = r] # <<>>
          /\ [walks EXCEPT ![n] = r][1].rule >= 1
    BY <1>6, <1>8
  <2> QED BY <1>4, <1>5, <1>9, <2>1
<1> QED BY <1>2, <1>10 DEF Walk

\* A segment returns to the walk that it was entered from.
LEMMA SegmentReturnsTypes ==
  ASSUME TypeInv, walks # <<>>, Len(walks) > 1, NEW r \in MatchResult, SegmentReturns(r)
  PROVE  /\ walks' \in Seq(WalkRecord)
         /\ walks' # <<>>
         /\ walks'[1] = walks[1]
         /\ segRet' \in Optional(MatchResult)
<1>1. walks \in Seq(WalkRecord)
  BY DEF TypeInv, TypeOK
<1>2. /\ Front(walks) \in Seq(WalkRecord)
      /\ Len(Front(walks)) = Len(walks) - 1
      /\ \A i \in 1..(Len(walks) - 1) : Front(walks)[i] = walks[i]
      /\ Len(walks) \in Nat \ {0}
  BY <1>1, Stacks
<1>3. Front(walks) # <<>>
  BY <1>2
<1>4. Front(walks)[1] = walks[1]
  BY <1>2
<1> QED BY <1>2, <1>3, <1>4, OptionalValues DEF SegmentReturns

\* A rule that cannot be evaluated ends the evaluation of the flag, or makes a segment return.
LEMMA RuleFailsTypes ==
  ASSUME TypeInv, walks # <<>>, NEW err \in Errors, RuleFails(err), UNCHANGED scopes
  PROVE  RuleTypes' /\ ControlOK'
<1>1. scopes # <<>> /\ evalRet = <<>> /\ walks[1].rule >= 1
  BY DEF TypeInv, ControlOK
<1>2. CASE /\ Return(ErrorOutcome(err), FALSE)
           /\ walks' = <<>>
           /\ segRet' = <<>>
  <2>1. ErrorOutcome(err) \in OutcomeRecord
    BY OutcomeTypes
  <2>2. /\ evalRet' \in Optional(EvalReturn)
        /\ log' \in Seq(LogRecord)
    BY <1>1, <1>2, <2>1, ReturnTypes DEF TypeInv
  <2> QED BY <1>1, <1>2, <2>2, OptionalValues DEF RuleTypes, ControlOK
<1>3. CASE /\ Len(walks) > 1
           /\ SegmentReturns(Failed("malformedSegment"))
           /\ UNCHANGED <<evalRet, log>>
  <2>1. Failed("malformedSegment") \in MatchResult
    BY DEF Failed, MatchResult, Errors, EvalErrors
  <2>2. /\ walks' \in Seq(WalkRecord)
        /\ walks' # <<>>
        /\ walks'[1] = walks[1]
        /\ segRet' \in Optional(MatchResult)
    BY <1>3, <2>1, SegmentReturnsTypes
  <2> QED BY <1>1, <1>3, <2>2
          DEF RuleTypes, ControlOK, TypeInv, TypeOK, EvalReturn, LogRecord
<1> QED BY <1>2, <1>3 DEF RuleFails

\* A clause that has been tried moves the walk on, or fails the rule.
LEMMA ClauseReturnsTypes ==
  ASSUME TypeInv, walks # <<>>, NEW r \in MatchResult, ClauseReturns(r), UNCHANGED scopes
  PROVE  RuleTypes' /\ ControlOK'
<1>1. CASE r.err # NoError /\ RuleFails(r.err)
  <2>1. r.err \in Errors
    BY <1>1 DEF MatchResult
  <2> QED BY <1>1, <2>1, RuleFailsTypes
<1>2. CASE /\ walks' = IF r.match THEN NextClause ELSE NextRule
           /\ segRet' = <<>>
           /\ UNCHANGED <<evalRet, log>>
  <2>1. scopes # <<>> /\ evalRet = <<>>
    BY DEF TypeInv, ControlOK
  <2>2. walks' \in Seq(WalkRecord) /\ walks' # <<>> /\ walks'[1].rule >= 1
    BY <1>2, WalkTypes
  <2> QED BY <1>2, <2>1, <2>2, OptionalValues
          DEF RuleTypes, ControlOK, TypeInv, TypeOK, EvalReturn, LogRecord
<1> QED BY <1>1, <1>2 DEF ClauseReturns

\* The verdict of a segment's lists or of a membership.
LEMMA DecidedTypes ==
  ASSUME TypeInv, walks # <<>>, Walk.rule = 0, NEW verdict \in Optional(BOOLEAN),
         Decided(verdict), segRet = <<>>
  PROVE  /\ walks' \in Seq(WalkRecord)
         /\ walks' # <<>> /\ walks'[1].rule >= 1
         /\ segRet' \in Optional(MatchResult)
<1>1. walks[1].rule >= 1
  BY DEF TypeInv, ControlOK
<1>2. Len(walks) > 1
  BY <1>1, WalkTypes
<1>3. CASE IsDefined(verdict) /\ SegmentReturns(Matched(verdict[1]))
  <2>1. Matched(verdict[1]) \in MatchResult
    BY <1>3, OptionalValues DEF Matched, MatchResult
  <2> QED BY <1>1, <1>2, <1>3, <2>1, SegmentReturnsTypes
<1>4. CASE walks' = NextRule /\ UNCHANGED segRet
  BY <1>4, WalkTypes DEF TypeInv, TypeOK
<1> QED BY <1>3, <1>4 DEF Decided

\* The running scope's place in the tree is a sequence of positions, and the status and
\* the memberships of that scope can be replaced.
LEMMA ScopeUpdates ==
  ASSUME TypeOK, scopes # <<>>
  PROVE  /\ Path \in Seq(Nat)
         /\ \A r \in ScopeRecord : [scopes EXCEPT ![Len(scopes)] = r] \in Seq(ScopeRecord)
         /\ \A status \in BigSegmentsStatus :
              SetStatus(status) = [scopes EXCEPT ![Len(scopes)] =
                                     [Scope EXCEPT !.bigSegmentsStatus = status]]
         /\ \A status \in BigSegmentsStatus :
              [Scope EXCEPT !.bigSegmentsStatus = status] \in ScopeRecord
<1>1. scopes \in Seq(ScopeRecord)
  BY DEF TypeOK
<1>2. Len(scopes) \in Nat \ {0} /\ Scope = scopes[Len(scopes)] /\ Scope \in ScopeRecord
  BY ScopeTypes
<1>3. \A i \in 1..(Len(scopes) - 1) : scopes[i].prereq \in Nat
  <2>1. \A i \in 1..Len(scopes) : scopes[i] \in ScopeRecord
    BY <1>1, ElementOfSeq
  <2>2. \A r \in ScopeRecord : r.prereq \in Nat
    BY DEF ScopeRecord
  <2> QED BY <1>2, <2>1, <2>2
<1>4. Path \in Seq(Nat)
  <2>1. Len(scopes) - 1 \in Nat
    BY <1>2
  <2>2. Path \in [1..(Len(scopes) - 1) -> Nat]
    BY <1>3 DEF Path
  <2> QED BY <2>1, <2>2, SeqDef
<1>5. \A r \in ScopeRecord : [scopes EXCEPT ![Len(scopes)] = r] \in Seq(ScopeRecord)
  BY <1>1, <1>2, ExceptSeq
<1>6. \A status \in BigSegmentsStatus : [Scope EXCEPT !.bigSegmentsStatus = status] \in ScopeRecord
  <2> \A r \in ScopeRecord, status \in BigSegmentsStatus :
        [r EXCEPT !.bigSegmentsStatus = status] \in ScopeRecord
    BY DEF ScopeRecord
  <2> QED BY <1>2
<1>7. \A status : SetStatus(status) = [scopes EXCEPT ![Len(scopes)] =
                                     [Scope EXCEPT !.bigSegmentsStatus = status]]
  BY <1>2 DEF SetStatus
<1> QED BY <1>4, <1>5, <1>6, <1>7

\* The more problematic of two statuses is one of them.
LEMMA StatusTypes ==
  \A old \in BigSegmentsStatus, new \in BigSegmentsStatus :
    ComputeUpdatedBigSegmentsStatus(old, new) \in BigSegmentsStatus
BY DEF ComputeUpdatedBigSegmentsStatus

\* A prerequisite gives way to the scope that waits for it.
LEMMA PopTypes ==
  ASSUME TypeInv, Len(scopes) > 1, NEW step \in {0, 1}
  PROVE  /\ AfterPop(step) \in Seq(ScopeRecord)
         /\ Len(AfterPop(step)) = Len(scopes) - 1
         /\ \A i \in 1..(Len(scopes) - 2) : AfterPop(step)[i] = scopes[i]
         /\ AfterPop(step)[Len(scopes) - 1] =
              [Caller EXCEPT !.bigSegmentsStatus = MergedStatus, !.prereq = @ + step]
<1>1. scopes \in Seq(ScopeRecord) /\ scopes # <<>>
  BY DEF TypeInv, TypeOK
<1> DEFINE n == Len(scopes) - 1
           front == Front(scopes)
           last == [Caller EXCEPT !.bigSegmentsStatus = MergedStatus, !.prereq = @ + step]
<1>2. /\ front \in Seq(ScopeRecord) /\ Len(front) = n
      /\ \A i \in 1..n : front[i] = scopes[i]
      /\ Len(scopes) \in Nat \ {0}
  BY <1>1, Stacks
<1>3. n \in 1..n /\ n \in Nat /\ \A i \in 1..(Len(scopes) - 2) : i \in 1..n /\ i # n
  BY <1>2
<1>4. Caller \in ScopeRecord /\ front[n] = Caller
  BY <1>1, <1>2, <1>3, ScopeTypes DEF TypeInv, Caller
<1>5. MergedStatus \in BigSegmentsStatus
  <2>1. Scope \in ScopeRecord
    BY <1>1, ScopeTypes DEF TypeInv
  <2> QED BY <1>4, <2>1, StatusTypes DEF MergedStatus, ScopeRecord
<1>6. last \in ScopeRecord
  <2>1. \A r \in ScopeRecord, status \in BigSegmentsStatus :
          [r EXCEPT !.bigSegmentsStatus = status] \in ScopeRecord
    BY DEF ScopeRecord
  <2>2. \A r \in ScopeRecord : r.prereq + step \in Nat \ {0}
    BY DEF ScopeRecord
  <2>3. \A r \in ScopeRecord, k \in Nat \ {0} : [r EXCEPT !.prereq = k] \in ScopeRecord
    BY DEF ScopeRecord
  <2>4. [[Caller EXCEPT !.bigSegmentsStatus = MergedStatus] EXCEPT !.prereq = Caller.prereq + step]
          \in ScopeRecord
    BY <1>4, <1>5, <2>1, <2>2, <2>3
  <2> QED BY <2>4
<1>7. AfterPop(step) = [front EXCEPT ![n] = last]
  BY <1>2, <1>3, <1>4 DEF AfterPop
<1>8. \A r \in ScopeRecord :
        /\ [front EXCEPT ![n] = r] \in Seq(ScopeRecord)
        /\ Len([front EXCEPT ![n] = r]) = n
        /\ [front EXCEPT ![n] = r][n] = r
        /\ \A i \in 1..n : i # n => [front EXCEPT ![n] = r][i] = front[i]
  BY <1>2, <1>3, ExceptSeq
<1> HIDE DEF n, front, last
<1>9. /\ AfterPop(step) \in Seq(ScopeRecord)
      /\ Len(AfterPop(step)) = n
      /\ AfterPop(step)[n] = last
      /\ \A i \in 1..(Len(scopes) - 2) : AfterPop(step)[i] = scopes[i]
  BY <1>2, <1>3, <1>6, <1>7, <1>8
<1> QED BY <1>9 DEF n, last

\* The event for a prerequisite.
LEMMA EventTypes ==
  ASSUME TypeInv, Len(scopes) > 1, IsDefined(evalRet), RecordEvent
  PROVE  events' \in Seq(EventRecord)
<1>1. scopes # <<>> /\ events \in Seq(EventRecord) /\ evalRet \in Optional(EvalReturn)
  BY DEF TypeInv, TypeOK, EvalReturn
<1>2. evalRet[1].detail \in Detail /\ evalRet[1].detail.reason \in Reason
  BY <1>1, OptionalValues DEF EvalReturn, Detail
<1>3. \A flag \in Flag, reason \in Reason : IsExperiment(flag, reason) \in BOOLEAN
  BY DEF IsExperiment, Flag, FlagRule, Reason
<1>4. /\ Caller.flag.key \in FlagKeys
      /\ Scope.flag \in Flags
      /\ Scope.flag \in Flag
      /\ Path \in Seq(Nat)
  BY <1>1, ScopeTypes, ScopeUpdates DEF TypeInv
<1>5. PrerequisiteFlagEvent \in EventRecord
  BY <1>2, <1>3, <1>4 DEF PrerequisiteFlagEvent, EventRecord
<1> QED BY <1>1, <1>5, AppendProperties DEF RecordEvent

\* Nothing has been evaluated at the start.
LEMMA InitTypes == Init => TypeInv
<1> SUFFICES ASSUME Init PROVE TypeInv
  OBVIOUS
<1>1. \A key : FlagVersions(key) \subseteq Optional(Flags)
  BY OptionalValues DEF FlagVersions
<1>2. \A key : SegmentVersions(key) \subseteq Optional(Segments)
  BY OptionalValues DEF SegmentVersions
<1>3. flagData \in [FlagKeys -> Optional(Flags)]
  BY <1>1 DEF Init
<1>4. segmentData \in [SegmentKeys -> Optional(Segments)]
  BY <1>2 DEF Init
<1>5. TypeOK
  BY <1>3, <1>4, OptionalValues, EmptySeq DEF Init, TypeOK
<1>6. CallersWait /\ ControlOK
  BY EmptySeq DEF Init, CallersWait, ControlOK
<1> QED BY <1>5, <1>6 DEF TypeInv

\* Only the environment changes the stores.
LEMMA StoreUpdateTypes == TypeInv /\ StoreUpdate => TypeInv'
<1> SUFFICES ASSUME TypeInv, StoreUpdate PROVE TypeInv'
  OBVIOUS
<1>1. \A key : FlagVersions(key) \subseteq Optional(Flags)
  BY OptionalValues DEF FlagVersions
<1>2. \A key : SegmentVersions(key) \subseteq Optional(Segments)
  BY OptionalValues DEF SegmentVersions
<1>3. /\ flagData' \in [FlagKeys -> Optional(Flags)]
      /\ segmentData' \in [SegmentKeys -> Optional(Segments)]
      /\ bigSegmentData' \in [ContextKeys -> BigSegmentAnswers]
      /\ updated' \in BOOLEAN
      /\ UNCHANGED evaluation
  <2>1. CASE \E key \in FlagKeys : UpdateFlag(key)
    BY <1>1, <2>1 DEF UpdateFlag, TypeInv, TypeOK
  <2>2. CASE \E key \in SegmentKeys : UpdateSegment(key)
    BY <1>2, <2>2 DEF UpdateSegment, TypeInv, TypeOK
  <2>3. CASE \E key \in ContextKeys : UpdateBigSegments(key)
    BY <2>3 DEF UpdateBigSegments, TypeInv, TypeOK
  <2> QED BY <2>1, <2>2, <2>3 DEF StoreUpdate
<1>4. TypeOK'
  BY <1>3 DEF TypeInv, TypeOK, evaluation
<1>5. CallersWait' /\ ControlOK'
  BY <1>3 DEF TypeInv, CallersWait, ControlOK, evaluation
<1> QED BY <1>4, <1>5 DEF TypeInv

\* A step that leaves the scopes alone and moves on inside the running one.
LEMMA RuleTypesSuffice ==
  ASSUME TypeInv, RuleTypes', ControlOK',
         UNCHANGED <<stores, context, scopes, result, events, consults>>
  PROVE  TypeInv'
<1>1. TypeOK'
  BY DEF TypeInv, TypeOK, RuleTypes, EvalReturn, LogRecord, stores
<1>2. CallersWait'
  BY DEF TypeInv, CallersWait
<1> QED BY <1>1, <1>2 DEF TypeInv

\* A prerequisite of the running flag names a flag, and what the store has for it is a flag.
LEMMA PrereqTypes ==
  ASSUME TypeInv, AtPrerequisite
  PROVE  /\ Prereq.key \in FlagKeys
         /\ ExtendedChain \in Seq(FlagKeys)
         /\ IsDefined(flagData[Prereq.key]) => flagData[Prereq.key][1] \in Flags
<1>1. Scope \in ScopeRecord /\ Scope.flag \in Flag /\ Scope.flag.key \in FlagKeys
  BY ScopeTypes DEF TypeInv, AtPrerequisite, BeforeRules
<1>2. Scope.prereq \in 1..Len(Scope.flag.prerequisites)
  BY <1>1 DEF AtPrerequisite, ScopeRecord
<1>3. Scope.flag.prerequisites \in Seq(Prerequisite)
  BY <1>1 DEF Flag
<1>4. Prereq \in Prerequisite
  BY <1>2, <1>3 DEF Prereq
<1>5. Prereq.key \in FlagKeys
  BY <1>4 DEF Prerequisite
<1>6. ExtendedChain \in Seq(FlagKeys)
  BY <1>1, AppendProperties DEF ExtendedChain, ScopeRecord
<1>7. flagData[Prereq.key] \in Optional(Flags)
  BY <1>5 DEF TypeInv, TypeOK
<1> QED BY <1>5, <1>6, <1>7, OptionalValues

\* evaluate() returns before it walks over rules.
LEMMA EarlyReturnTypes ==
  ASSUME TypeInv, BeforeRules, NEW outcome \in OutcomeRecord, NEW ok \in BOOLEAN,
         Return(outcome, ok),
         UNCHANGED <<stores, context, scopes, walks, segRet, result, events, consults>>
  PROVE  TypeInv'
<1>1. scopes # <<>> /\ walks = <<>> /\ segRet = <<>>
  BY DEF BeforeRules, TypeInv, ControlOK
<1>2. evalRet' \in Optional(EvalReturn) /\ log' \in Seq(LogRecord)
  BY <1>1, ReturnTypes DEF TypeInv
<1>3. RuleTypes'
  BY <1>2 DEF RuleTypes, TypeInv, TypeOK
<1>4. ControlOK'
  BY <1>1 DEF ControlOK
<1> QED BY <1>3, <1>4, RuleTypesSuffice

\* A step with no rule being walked, to other scopes.
LEMMA ScopesChange ==
  ASSUME TypeInv, walks = <<>>,
         scopes' \in Seq(ScopeRecord), CallersWait',
         evalRet' \in Optional(EvalReturn), evalRet' # <<>> => scopes' # <<>>,
         result' \in Optional([detail: Detail, isExperiment: BOOLEAN]),
         events' \in Seq(EventRecord), log' \in Seq(LogRecord),
         UNCHANGED <<stores, context, walks, segRet, consults>>
  PROVE  TypeInv'
<1>1. segRet = <<>>
  BY DEF TypeInv, ControlOK
<1>2. TypeOK'
  BY DEF TypeInv, TypeOK, EvalReturn, LogRecord, stores
<1>3. ControlOK'
  BY <1>1 DEF ControlOK
<1> QED BY <1>2, <1>3 DEF TypeInv

\* Back in the caller of a prerequisite.
LEMMA PrerequisiteReturnTypes ==
  ASSUME TypeInv, PrerequisiteReturns, NEW step \in {0, 1}, scopes' = AfterPop(step),
         evalRet' \in Optional(EvalReturn),
         events' \in Seq(EventRecord), log' \in Seq(LogRecord),
         UNCHANGED <<stores, context, walks, segRet, result, consults>>
  PROVE  TypeInv'
<1>1. walks = <<>> /\ Len(scopes) > 1 /\ scopes # <<>>
  BY DEF TypeInv, ControlOK, PrerequisiteReturns, IsDefined
<1>2. Len(scopes) \in Nat
  BY <1>1, ScopeTypes DEF TypeInv
<1>3. /\ scopes' \in Seq(ScopeRecord)
      /\ Len(scopes') = Len(scopes) - 1
      /\ \A i \in 1..(Len(scopes) - 2) : scopes'[i] = scopes[i]
  BY <1>1, PopTypes
<1>4. CallersWait'
  <2>1. \A i \in 1..(Len(scopes') - 1) : i \in 1..(Len(scopes) - 2) /\ i \in 1..(Len(scopes) - 1)
    BY <1>2, <1>3
  <2>2. \A i \in 1..(Len(scopes) - 1) : scopes[i].prereq <= Len(scopes[i].flag.prerequisites)
    BY DEF TypeInv, CallersWait
  <2>3. \A i \in 1..(Len(scopes') - 1) :
          scopes'[i].prereq <= Len(scopes'[i].flag.prerequisites)
    BY <1>3, <2>1, <2>2
  <2> QED BY <2>3 DEF CallersWait
<1>5. scopes' # <<>>
  BY <1>1, <1>2, <1>3
<1>6. result \in Optional([detail: Detail, isExperiment: BOOLEAN])
  BY DEF TypeInv, TypeOK
<1> QED BY <1>1, <1>3, <1>4, <1>5, <1>6, ScopesChange

\* The evaluation of a flag, up to its rules, and its return to the caller.
LEMMA FlagStepTypes == TypeInv /\ FlagStep => TypeInv'
<1> SUFFICES ASSUME TypeInv, FlagStep PROVE TypeInv'
  OBVIOUS
<1>1. /\ evalRet \in Optional(EvalReturn) /\ events \in Seq(EventRecord)
      /\ log \in Seq(LogRecord)
      /\ result \in Optional([detail: Detail, isExperiment: BOOLEAN])
      /\ scopes \in Seq(ScopeRecord)
  BY DEF TypeInv, TypeOK, EvalReturn, LogRecord
<1>2. IsDefined(evalRet) => evalRet[1].detail \in Detail /\ evalRet[1].ok \in BOOLEAN
  BY <1>1, OptionalValues DEF EvalReturn
<1>3. ASSUME FlagIsOff PROVE TypeInv'
  <2>1. BeforeRules /\ Scope.flag \in Flag
    BY <1>3, ScopeTypes DEF FlagIsOff, BeforeRules, TypeInv
  <2>2. NewReason("OFF") \in Reason
    BY ReasonTypes DEF ReasonKinds
  <2>3. GetOffValue(Scope.flag, NewReason("OFF")) \in OutcomeRecord
    BY <2>1, <2>2, VariationTypes
  <2> QED BY <1>3, <2>1, <2>3, EarlyReturnTypes DEF FlagIsOff
<1>4. ASSUME PrerequisiteMissing PROVE TypeInv'
  <2>1. BeforeRules /\ AtPrerequisite
    BY <1>4 DEF PrerequisiteMissing, AtPrerequisite
  <2>2. Scope.flag \in Flag
    BY <2>1, ScopeTypes DEF BeforeRules, TypeInv
  <2>3. PrerequisiteFailedReason(Prereq.key) \in Reason
    BY <2>1, PrereqTypes, ReasonTypes
  <2>4. GetOffValue(Scope.flag, PrerequisiteFailedReason(Prereq.key)) \in OutcomeRecord
    BY <2>2, <2>3, VariationTypes
  <2> QED BY <1>4, <2>1, <2>4, EarlyReturnTypes DEF PrerequisiteMissing
<1>5. ASSUME PrerequisiteCircular PROVE TypeInv'
  <2>1. BeforeRules
    BY <1>5 DEF PrerequisiteCircular, AtPrerequisite
  <2>2. ErrorOutcome("circularPrereq") \in OutcomeRecord
    BY OutcomeTypes DEF Errors, EvalErrors
  <2> QED BY <1>5, <2>1, <2>2, EarlyReturnTypes DEF PrerequisiteCircular
<1>6. ASSUME EvaluatePrerequisite PROVE TypeInv'
  <2> DEFINE flag == flagData[Prereq.key][1]
             scope == NewScope(flag, ExtendedChain,
                               Scope.bigSegmentsStatus, Scope.bigSegmentsMemberships)
  <2>1. AtPrerequisite /\ BeforeRules /\ scopes # <<>> /\ walks = <<>> /\ evalRet = <<>>
    BY <1>6 DEF EvaluatePrerequisite, AtPrerequisite, BeforeRules
  <2>2. flag \in Flags /\ ExtendedChain \in Seq(FlagKeys)
    BY <1>6, <2>1, PrereqTypes DEF EvaluatePrerequisite
  <2>3. Scope \in ScopeRecord /\ Len(scopes) \in Nat \ {0} /\ Scope = scopes[Len(scopes)]
    BY <2>1, ScopeTypes DEF TypeInv
  <2>4. scope \in ScopeRecord
    <3>1. 1 \in Nat \ {0}
      OBVIOUS
    <3> QED BY <2>2, <2>3, <3>1 DEF NewScope, ScopeRecord
  <2>5. scopes' = Append(scopes, scope)
    BY <1>6 DEF EvaluatePrerequisite
  <2> HIDE DEF scope
  <2>6. /\ scopes' \in Seq(ScopeRecord) /\ scopes' # <<>>
        /\ Len(scopes') = Len(scopes) + 1
        /\ \A i \in 1..Len(scopes) : scopes'[i] = scopes[i]
    BY <1>1, <2>4, <2>5, AppendProperties
  <2>7. CallersWait'
    <3>1. \A i \in 1..Len(scopes) : scopes[i].prereq <= Len(scopes[i].flag.prerequisites)
      <4>1. scopes[Len(scopes)].prereq <= Len(scopes[Len(scopes)].flag.prerequisites)
        BY <2>1, <2>3 DEF AtPrerequisite
      <4> QED BY <2>3, <4>1 DEF TypeInv, CallersWait
    <3> QED BY <2>3, <2>6, <3>1 DEF CallersWait
  <2> QED BY <1>1, <1>6, <2>1, <2>6, <2>7, ScopesChange DEF EvaluatePrerequisite
<1>7. ASSUME PrerequisiteInvalid PROVE TypeInv'
  <2>1. ErrorDetail("MALFORMED_FLAG") \in Detail
    BY DetailTypes DEF ErrorKinds
  <2>2. evalRet' \in Optional(EvalReturn)
    BY <1>7, <2>1, OptionalValues DEF PrerequisiteInvalid, EvalReturn
  <2> QED BY <1>1, <1>7, <2>2, PrerequisiteReturnTypes DEF PrerequisiteInvalid
<1>8. ASSUME PrerequisitePassed PROVE TypeInv'
  <2>1. events' \in Seq(EventRecord)
    BY <1>8, EventTypes DEF PrerequisitePassed, PrerequisiteReturns
  <2>2. evalRet' \in Optional(EvalReturn)
    BY <1>8, OptionalValues DEF PrerequisitePassed
  <2> QED BY <1>1, <1>8, <2>1, <2>2, PrerequisiteReturnTypes DEF PrerequisitePassed
<1>9. ASSUME PrerequisiteFailed PROVE TypeInv'
  <2>1. events' \in Seq(EventRecord)
    BY <1>9, EventTypes DEF PrerequisiteFailed, PrerequisiteReturns
  <2>2. Len(scopes) > 1 /\ scopes # <<>>
    BY <1>1, <1>9, EmptySeq DEF PrerequisiteFailed, PrerequisiteReturns
  <2>3. Caller \in ScopeRecord /\ Caller.flag \in Flag /\ Caller.flag.key \in FlagKeys
    BY <2>2, ScopeTypes DEF TypeInv
  <2>4. CallerPrereq.key \in FlagKeys
    <3>1. Len(scopes) - 1 \in 1..(Len(scopes) - 1)
      BY <2>2, ScopeTypes DEF TypeInv
    <3>2. Caller.prereq \in 1..Len(Caller.flag.prerequisites)
      BY <2>3, <3>1 DEF TypeInv, CallersWait, Caller, ScopeRecord
    <3>3. Caller.flag.prerequisites \in Seq(Prerequisite)
      BY <2>3 DEF Flag
    <3>4. CallerPrereq \in Prerequisite
      BY <3>2, <3>3, ElementOfSeq DEF CallerPrereq
    <3> QED BY <3>4 DEF Prerequisite
  <2> DEFINE outcome == GetOffValue(Caller.flag, PrerequisiteFailedReason(CallerPrereq.key))
  <2>5. outcome \in OutcomeRecord
    BY <2>3, <2>4, ReasonTypes, VariationTypes
  <2>6. /\ evalRet' = <<[detail |-> outcome.detail, ok |-> TRUE]>>
        /\ log' = IF outcome.err = NoError
                  THEN log
                  ELSE Append(log, [flag |-> Caller.flag.key, err |-> outcome.err])
    BY <1>9 DEF PrerequisiteFailed
  <2> HIDE DEF outcome
  <2>7. outcome.detail \in Detail /\ outcome.err \in Errors \cup {NoError}
    BY <2>5 DEF OutcomeRecord
  <2>8. evalRet' \in Optional(EvalReturn)
    BY <2>6, <2>7, OptionalValues DEF EvalReturn
  <2>9. outcome.err # NoError => [flag |-> Caller.flag.key, err |-> outcome.err] \in LogRecord
    BY <2>3, <2>7 DEF LogRecord
  <2>10. log' \in Seq(LogRecord)
    BY <1>1, <2>6, <2>9, AppendProperties
  <2> QED BY <1>9, <2>1, <2>8, <2>10, PrerequisiteReturnTypes DEF PrerequisiteFailed
<1>10. ASSUME TargetsMatch PROVE TypeInv'
  <2>1. BeforeRules /\ Scope.flag \in Flag
    BY <1>10, ScopeTypes DEF TargetsMatch, AfterPrerequisites, BeforeRules, TypeInv
  <2>2. NewReason("TARGET_MATCH") \in Reason
    BY ReasonTypes DEF ReasonKinds
  <2>3. \A index : GetVariation(Scope.flag, index, NewReason("TARGET_MATCH")) \in OutcomeRecord
    BY <2>1, <2>2, VariationTypes
  <2> QED BY <1>10, <2>1, <2>3, EarlyReturnTypes DEF TargetsMatch
<1>11. ASSUME StartRules PROVE TypeInv'
  <2>1. /\ BeforeRules /\ scopes # <<>> /\ walks = <<>> /\ evalRet = <<>>
        /\ segRet = <<>> /\ Scope.flag \in Flags
    BY <1>11, ScopeTypes DEF StartRules, AfterPrerequisites, BeforeRules, TypeInv, ControlOK
  <2>2. NewWalk(Scope.flag, <<>>, 1) \in WalkRecord
    <3>1. 1 \in Nat \ {0} /\ 1 \in Nat /\ <<>> \in Seq(SegmentKeys)
      OBVIOUS
    <3> QED BY <2>1, <3>1 DEF NewWalk, WalkRecord
  <2>3. walks' \in Seq(WalkRecord) /\ walks'[1] = NewWalk(Scope.flag, <<>>, 1) /\ walks' # <<>>
    BY <1>11, <2>2 DEF StartRules
  <2>4. RuleTypes'
    BY <1>1, <1>11, <2>1, <2>3, OptionalValues DEF StartRules, RuleTypes
  <2>5. ControlOK'
    BY <1>11, <2>1, <2>3 DEF StartRules, ControlOK, NewWalk
  <2> QED BY <1>11, <2>4, <2>5, RuleTypesSuffice DEF StartRules
<1>12. ASSUME ReturnResult PROVE TypeInv'
  <2>1. Len(scopes) = 1 /\ IsDefined(evalRet) /\ scopes # <<>> /\ walks = <<>>
    BY <1>1, <1>12, EmptySeq DEF ReturnResult, TypeInv, ControlOK, IsDefined
  <2>2. Scope.flag \in Flag /\ Scope.bigSegmentsStatus \in BigSegmentsStatus
    BY <2>1, ScopeTypes DEF TypeInv
  <2> DEFINE detail == [evalRet[1].detail EXCEPT !.reason.bigSegmentsStatus =
                                                    Scope.bigSegmentsStatus]
  <2>3. detail \in Detail /\ detail.reason \in Reason
    BY <1>2, <2>1, <2>2 DEF Detail, Reason
  <2>4. IsExperiment(Scope.flag, detail.reason) \in BOOLEAN
    BY <2>2, <2>3 DEF IsExperiment, Flag, FlagRule, Reason
  <2>5. result' = <<[detail |-> detail, isExperiment |-> IsExperiment(Scope.flag, detail.reason)]>>
    BY <1>12 DEF ReturnResult
  <2> HIDE DEF detail
  <2>6. result' \in Optional([detail: Detail, isExperiment: BOOLEAN])
    BY <2>3, <2>4, <2>5, OptionalValues
  <2>7. scopes' \in Seq(ScopeRecord) /\ CallersWait' /\ evalRet' = <<>>
    BY <1>12, EmptySeq DEF ReturnResult, CallersWait
  <2> QED BY <1>1, <1>12, <2>1, <2>6, <2>7, OptionalValues, ScopesChange DEF ReturnResult
<1> QED BY <1>3, <1>4, <1>5, <1>6, <1>7, <1>8, <1>9, <1>10, <1>11, <1>12 DEF FlagStep

\* The clause of a flag's or of a segment's rule that is being tried.
LEMMA CurrentClauseTypes ==
  ASSUME TypeInv, AtClause
  PROVE  CurrentClause \in Clause
<1>1. Walk \in WalkRecord
  BY WalkTypes DEF AtClause, AtRule, InRules, Walking
<1>2. /\ Walk.src.rules \in Seq(FlagRule) \/ Walk.src.rules \in Seq(SegmentRule)
      /\ Walk.rule \in Nat /\ Walk.clause \in Nat \ {0}
  BY <1>1, EvaluatorAssumption DEF WalkRecord, Flag, Segment
<1>3. /\ Walk.rule \in 1..Len(Walk.src.rules)
      /\ Walk.clause \in 1..Len(Rule.clauses)
  <2>1. Len(Walk.src.rules) \in Nat
    BY <1>2
  <2>2. Walk.rule \in 1..Len(Walk.src.rules)
    BY <1>2, <2>1 DEF AtClause, AtRule, InRules
  <2>3. Rule \in FlagRule \/ Rule \in SegmentRule
    BY <1>2, <2>2, ElementOfSeq DEF Rule
  <2>4. Len(Rule.clauses) \in Nat
    BY <2>3 DEF FlagRule, SegmentRule
  <2> QED BY <1>2, <2>2, <2>4 DEF AtClause
<1>4. Rule \in FlagRule \/ Rule \in SegmentRule
  BY <1>2, <1>3, ElementOfSeq DEF Rule
<1>5. Rule.clauses \in Seq(Clause)
  BY <1>4 DEF FlagRule, SegmentRule
<1> QED BY <1>3, <1>5, ElementOfSeq DEF CurrentClause

\* The rules of a flag or of a segment.
LEMMA RuleStepTypes == TypeInv /\ RuleStep => TypeInv'
<1> SUFFICES ASSUME TypeInv, RuleStep PROVE TypeInv'
  OBVIOUS
<1>1. /\ evalRet \in Optional(EvalReturn) /\ segRet \in Optional(MatchResult)
      /\ log \in Seq(LogRecord) /\ walks \in Seq(WalkRecord)
  BY DEF TypeInv, TypeOK, EvalReturn, LogRecord
<1>2. walks # <<>>
  BY DEF RuleStep, FlagRuleMatches, Fallthrough, SegmentRuleMatches, SegmentRulesExhausted,
         PlainClause, NoSuchSegment, SegmentCircular, EnterSegment, SegmentClauseExhausted,
         SegmentReturned, AtSegmentValue, AtSegmentClause, AtClause, AtRule, InRules, Walking,
         TypeInv, ControlOK, IsDefined
<1>3. /\ scopes # <<>> /\ evalRet = <<>> /\ walks[1].rule >= 1
      /\ Scope.flag \in Flag
      /\ Len(walks) \in Nat \ {0} /\ Walk = walks[Len(walks)] /\ Walk \in WalkRecord
  BY <1>2, WalkTypes, ScopeTypes DEF TypeInv, ControlOK
<1>4. \A b \in BOOLEAN : Matched(b) \in MatchResult
  BY DEF Matched, MatchResult
<1>nested. ~InFlagRules => Len(walks) > 1
  <2>1. \A n \in Nat \ {0} : n # 1 => n > 1
    OBVIOUS
  <2> QED BY <1>3, <2>1 DEF InFlagRules
<1>5. ASSUME NEW outcome \in OutcomeRecord, Return(outcome, TRUE), walks' = <<>>, segRet = <<>>,
             UNCHANGED <<stores, context, scopes, segRet, result, events, consults>>
      PROVE  TypeInv'
  <2>1. evalRet' \in Optional(EvalReturn) /\ log' \in Seq(LogRecord)
    BY <1>3, <1>5, ReturnTypes DEF TypeInv
  <2>2. RuleTypes' /\ ControlOK'
    BY <1>1, <1>3, <1>5, <2>1 DEF RuleTypes, ControlOK
  <2> QED BY <1>5, <2>2, RuleTypesSuffice
<1>6. ASSUME NEW next, walks' = next, next \in Seq(WalkRecord), next # <<>>, next[1].rule >= 1,
             segRet' \in Optional(MatchResult),
             UNCHANGED <<stores, context, scopes, evalRet, result, events, consults, log>>
      PROVE  TypeInv'
  <2>1. RuleTypes' /\ ControlOK'
    BY <1>1, <1>3, <1>6 DEF RuleTypes, ControlOK
  <2> QED BY <1>6, <2>1, RuleTypesSuffice
<1>7. ASSUME FlagRuleMatches PROVE TypeInv'
  <2> DEFINE outcome == GetValueForVariationOrRollout(Scope.flag, Rule.vr,
                                                      RuleMatchReason(Walk.rule - 1))
  <2>1. Walk.rule - 1 \in Int
    BY <1>3 DEF WalkRecord
  <2>2. outcome \in OutcomeRecord
    BY <1>3, <2>1, ReasonTypes, RolloutTypes
  <2> QED BY <1>5, <1>7, <2>2 DEF FlagRuleMatches, AtRule, InRules, Walking
<1>8. ASSUME Fallthrough PROVE TypeInv'
  <2>1. NewReason("FALLTHROUGH") \in Reason
    BY ReasonTypes DEF ReasonKinds
  <2>2. GetValueForVariationOrRollout(Scope.flag, Scope.flag.fallthrough, NewReason("FALLTHROUGH"))
          \in OutcomeRecord
    BY <1>3, <2>1, RolloutTypes
  <2> QED BY <1>5, <1>8, <2>2 DEF Fallthrough, InRules, Walking
<1>9. ASSUME SegmentRuleMatches PROVE TypeInv'
  <2> DEFINE r == SegmentRuleWeightMatches(Rule, context, Walk.src.key, Walk.src.salt)
  <2>1. Len(walks) > 1 /\ segRet = <<>>
    BY <1>nested, <1>9 DEF SegmentRuleMatches, AtRule, InRules, Walking
  <2>2. r \in MatchResult /\ r.err \in {NoError, "badAttrRef"}
    BY SegmentWeightTypes
  <2>3. CASE r.err # NoError /\ RuleFails(r.err)
    <3>1. r.err \in Errors
      BY <2>2, <2>3 DEF Errors, EvalErrors
    <3>2. RuleTypes' /\ ControlOK'
      BY <1>2, <1>9, <2>3, <3>1, RuleFailsTypes DEF SegmentRuleMatches
    <3> QED BY <1>9, <3>2, RuleTypesSuffice DEF SegmentRuleMatches
  <2>4. CASE SegmentReturns(Matched(TRUE)) /\ UNCHANGED <<evalRet, log>>
    <3>1. /\ walks' \in Seq(WalkRecord) /\ walks' # <<>> /\ walks'[1] = walks[1]
          /\ segRet' \in Optional(MatchResult)
      BY <1>2, <1>4, <2>1, <2>4, SegmentReturnsTypes
    <3> QED BY <1>3, <1>6, <1>9, <2>4, <3>1 DEF SegmentRuleMatches
  <2>5. CASE walks' = NextRule /\ UNCHANGED <<evalRet, segRet, log>>
    BY <1>1, <1>2, <1>6, <1>9, <2>5, WalkTypes DEF SegmentRuleMatches
  <2> QED BY <1>9, <2>3, <2>4, <2>5 DEF SegmentRuleMatches
<1>10. ASSUME SegmentRulesExhausted PROVE TypeInv'
  <2>1. Len(walks) > 1
    BY <1>nested, <1>10 DEF SegmentRulesExhausted
  <2>2. /\ walks' \in Seq(WalkRecord) /\ walks' # <<>> /\ walks'[1] = walks[1]
        /\ segRet' \in Optional(MatchResult)
    BY <1>2, <1>4, <1>10, <2>1, SegmentReturnsTypes DEF SegmentRulesExhausted
  <2> QED BY <1>3, <1>6, <1>10, <2>2 DEF SegmentRulesExhausted
<1>11. ASSUME PlainClause PROVE TypeInv'
  <2>1. ClauseMatchesContextNoSegments(CurrentClause, context) \in MatchResult
    BY ClauseTypes
  <2>2. RuleTypes' /\ ControlOK'
    BY <1>2, <1>11, <2>1, ClauseReturnsTypes DEF PlainClause
  <2> QED BY <1>11, <2>2, RuleTypesSuffice DEF PlainClause
<1>12. ASSUME NoSuchSegment PROVE TypeInv'
  BY <1>1, <1>2, <1>6, <1>12, WalkTypes DEF NoSuchSegment
<1>13. ASSUME SegmentCircular PROVE TypeInv'
  <2>1. Failed("circularSegment") \in MatchResult
    BY DEF Failed, MatchResult, Errors
  <2>2. RuleTypes' /\ ControlOK'
    BY <1>2, <1>13, <2>1, ClauseReturnsTypes DEF SegmentCircular
  <2> QED BY <1>13, <2>2, RuleTypesSuffice DEF SegmentCircular
<1>14. ASSUME EnterSegment PROVE TypeInv'
  <2> DEFINE found == SegmentFound(CurrentValue)
             walk == NewWalk(found[1], Append(Walk.segmentChain, found[1].key), 0)
  <2>1. found[1] \in Segments /\ found[1].key \in SegmentKeys
    <3>1. found \in Optional(Segments)
      BY OptionalValues DEF SegmentFound, TypeInv, TypeOK
    <3>2. IsDefined(found)
      BY <1>14 DEF EnterSegment
    <3>3. found[1] \in Segments
      BY <3>1, <3>2, OptionalValues
    <3> QED BY <3>3, EvaluatorAssumption DEF Segment
  <2> HIDE DEF found
  <2>2. walk \in WalkRecord
    <3>1. 0 \in Nat /\ 1 \in Nat \ {0}
      OBVIOUS
    <3>2. Append(Walk.segmentChain, found[1].key) \in Seq(SegmentKeys)
      BY <1>3, <2>1, AppendProperties DEF WalkRecord
    <3> QED BY <2>1, <3>1, <3>2 DEF NewWalk, WalkRecord
  <2>3. walks' = Append(walks, walk)
    BY <1>14 DEF EnterSegment, found
  <2> HIDE DEF walk
  <2>4. walks' \in Seq(WalkRecord) /\ walks' # <<>> /\ walks'[1] = walks[1]
    BY <1>1, <1>3, <2>2, <2>3, AppendProperties
  <2> QED BY <1>1, <1>3, <1>6, <1>14, <2>4 DEF EnterSegment
<1>15. ASSUME SegmentClauseExhausted PROVE TypeInv'
  <2>1. CurrentClause.negate \in BOOLEAN
    BY <1>15, CurrentClauseTypes DEF SegmentClauseExhausted, AtSegmentClause, Clause
  <2>2. RuleTypes' /\ ControlOK'
    BY <1>2, <1>4, <1>15, <2>1, ClauseReturnsTypes DEF SegmentClauseExhausted
  <2> QED BY <1>15, <2>2, RuleTypesSuffice DEF SegmentClauseExhausted
<1>16. ASSUME SegmentReturned PROVE TypeInv'
  <2> DEFINE r == segRet[1]
  <2>1. r \in MatchResult
    BY <1>1, <1>16, OptionalValues DEF SegmentReturned
  <2>2. CASE ClauseReturns(r)
    BY <1>2, <1>16, <2>1, <2>2, ClauseReturnsTypes, RuleTypesSuffice DEF SegmentReturned
  <2>3. CASE ClauseReturns(Matched(~CurrentClause.negate))
    <3>1. Matched(~CurrentClause.negate) \in MatchResult
      BY <1>4
    <3> QED BY <1>2, <1>16, <2>3, <3>1, ClauseReturnsTypes, RuleTypesSuffice DEF SegmentReturned
  <2>4. CASE walks' = NextValue /\ segRet' = <<>> /\ UNCHANGED <<evalRet, log>>
    BY <1>2, <1>6, <1>16, <2>4, WalkTypes, OptionalValues DEF SegmentReturned
  <2> QED BY <1>16, <2>2, <2>3, <2>4 DEF SegmentReturned
<1> QED BY <1>7, <1>8, <1>9, <1>10, <1>11, <1>12, <1>13, <1>14, <1>15, <1>16 DEF RuleStep

\* A membership tells of a segment at most whether the context is included.
LEMMA CheckMembershipTypes ==
  ASSUME NEW m, IsMembership(m), NEW ref
  PROVE  CheckMembership(m, ref) \in Optional(BOOLEAN)
BY OptionalValues DEF CheckMembership, IsMembership, IsDefined

\* A step that may change the status and the memberships of the running scope.
LEMMA BigSegmentTypesSuffice ==
  ASSUME TypeInv, scopes # <<>>, walks # <<>>,
         NEW scope \in ScopeRecord, scope.prereq = Scope.prereq, scope.flag = Scope.flag,
         scopes' = [scopes EXCEPT ![Len(scopes)] = scope],
         walks' \in Seq(WalkRecord), walks' # <<>>, walks'[1].rule >= 1,
         segRet' \in Optional(MatchResult),
         consults' \in Seq(ConsultRecord),
         UNCHANGED <<stores, context, evalRet, result, events, log>>
  PROVE  TypeInv'
<1>1. /\ scopes \in Seq(ScopeRecord)
      /\ Len(scopes) \in Nat \ {0}
      /\ evalRet = <<>>
  BY ScopeTypes DEF TypeInv, TypeOK, ControlOK
<1>2. scopes' \in Seq(ScopeRecord) /\ Len(scopes') = Len(scopes)
  BY <1>1, ScopeUpdates, ExceptSeq DEF TypeInv
<1>3. \A i \in 1..(Len(scopes) - 1) : scopes'[i] = scopes[i]
  <2>1. \A i \in 1..(Len(scopes) - 1) : i \in 1..Len(scopes) /\ i # Len(scopes)
    BY <1>1
  <2>2. \A i \in 1..Len(scopes) : i # Len(scopes) => scopes'[i] = scopes[i]
    BY <1>1, ExceptSeq
  <2> QED BY <2>1, <2>2
<1>4. scopes' # <<>>
  BY <1>1, <1>2, EmptySeq
<1>5. TypeOK'
  BY <1>2 DEF TypeInv, TypeOK, stores
<1>6. CallersWait'
  BY <1>2, <1>3 DEF TypeInv, CallersWait
<1>7. ControlOK'
  BY <1>1, <1>4 DEF ControlOK
<1> QED BY <1>5, <1>6, <1>7 DEF TypeInv

\* Entering a segment.
LEMMA BigSegmentStepTypes == TypeInv /\ BigSegmentStep => TypeInv'
<1> SUFFICES ASSUME TypeInv, BigSegmentStep PROVE TypeInv'
  OBVIOUS
<1>1. /\ evalRet \in Optional(EvalReturn) /\ segRet \in Optional(MatchResult)
      /\ log \in Seq(LogRecord) /\ walks \in Seq(WalkRecord)
      /\ consults \in Seq(ConsultRecord) /\ scopes \in Seq(ScopeRecord)
  BY DEF TypeInv, TypeOK, EvalReturn, LogRecord
<1>2. Entering /\ walks # <<>> /\ segRet = <<>> /\ Walk.rule = 0
  BY DEF BigSegmentStep, ListedSegment, BigSegmentWithoutGeneration, BigSegmentOfOtherKind,
         MembershipCached, BigSegmentsNotConfigured, QueryMembership, AtBigSegment, Entering,
         Walking
<1>3. /\ scopes # <<>> /\ evalRet = <<>> /\ walks[1].rule >= 1
      /\ Len(walks) \in Nat \ {0} /\ Walk = walks[Len(walks)] /\ Walk \in WalkRecord
      /\ Scope \in ScopeRecord /\ Scope = scopes[Len(scopes)] /\ Len(scopes) \in Nat \ {0}
      /\ Scope.bigSegmentsStatus \in BigSegmentsStatus
      /\ Path \in Seq(Nat)
  BY <1>2, WalkTypes, ScopeTypes, ScopeUpdates DEF TypeInv, ControlOK
<1>4. Len(walks) > 1
  BY <1>2, <1>3
<1>5. \A b \in BOOLEAN : Matched(b) \in MatchResult
  BY DEF Matched, MatchResult
<1>6. ASSUME walks' \in Seq(WalkRecord), walks' # <<>>, walks'[1].rule >= 1,
             segRet' \in Optional(MatchResult),
             UNCHANGED <<stores, context, scopes, evalRet, result, events, consults, log>>
      PROVE  TypeInv'
  <2>1. scopes' = [scopes EXCEPT ![Len(scopes)] = Scope]
    BY <1>1, <1>3, <1>6
  <2> QED BY <1>1, <1>2, <1>3, <1>6, <2>1, BigSegmentTypesSuffice
<1>7. ASSUME NEW m, IsMembership(m), Decided(CheckMembership(m, MakeBigSegmentRef(Walk.src)))
      PROVE  /\ walks' \in Seq(WalkRecord) /\ walks' # <<>> /\ walks'[1].rule >= 1
             /\ segRet' \in Optional(MatchResult)
  BY <1>2, <1>7, CheckMembershipTypes, DecidedTypes
<1>8. ASSUME SegmentReturns(Matched(FALSE))
      PROVE  /\ walks' \in Seq(WalkRecord) /\ walks' # <<>> /\ walks'[1].rule >= 1
             /\ segRet' \in Optional(MatchResult)
  BY <1>2, <1>3, <1>4, <1>5, <1>8, SegmentReturnsTypes
<1>9. ASSUME NEW key \in Optional(ContextKeys), NEW status \in ProviderStatus,
             Consulted(key, status)
      PROVE  consults' \in Seq(ConsultRecord)
  <2>1. [path |-> Path, contextKey |-> key, status |-> status] \in ConsultRecord
    BY <1>3 DEF ConsultRecord
  <2> QED BY <1>1, <1>9, <2>1, AppendProperties DEF Consulted
<1>10. \A m \in Memberships : IsMembership(m)
  BY EvaluatorAssumption DEF Memberships
<1>11. "NOT_CONFIGURED" \in ProviderStatus /\ ProviderStatus \subseteq BigSegmentsStatus
  BY DEF ProviderStatus, BigSegmentsStatus
<1>12. ASSUME ListedSegment PROVE TypeInv'
  <2>1. SegmentListsVerdict(Walk.src) \in Optional(BOOLEAN)
    BY OptionalValues DEF SegmentListsVerdict
  <2> QED BY <1>2, <1>6, <1>12, <2>1, DecidedTypes DEF ListedSegment
<1>13. ASSUME BigSegmentWithoutGeneration PROVE TypeInv'
  <2> DEFINE scope == [Scope EXCEPT !.bigSegmentsStatus = "NOT_CONFIGURED"]
  <2>1. /\ scope \in ScopeRecord /\ scope.prereq = Scope.prereq /\ scope.flag = Scope.flag
        /\ scopes' = [scopes EXCEPT ![Len(scopes)] = scope]
    BY <1>3, <1>11, <1>13, ScopeUpdates DEF BigSegmentWithoutGeneration, TypeInv, ScopeRecord
  <2>2. consults' \in Seq(ConsultRecord)
    BY <1>9, <1>11, <1>13, OptionalValues DEF BigSegmentWithoutGeneration
  <2> HIDE DEF scope
  <2> QED BY <1>2, <1>3, <1>8, <1>13, <2>1, <2>2, BigSegmentTypesSuffice
          DEF BigSegmentWithoutGeneration
<1>14. ASSUME BigSegmentOfOtherKind PROVE TypeInv'
  BY <1>6, <1>8, <1>14 DEF BigSegmentOfOtherKind
<1>15. IsDefined(BigSegmentKey) => BigSegmentKey[1] \in ContextKeys /\ Len(BigSegmentKey) = 1
  <2>1. context \in Contexts
    BY DEF TypeInv, TypeOK
  <2> QED BY <2>1, EvaluatorAssumption
          DEF BigSegmentKey, GetApplicableContextKeyByKind, HasKind, IndividualContextByKind,
              IsContext, IndividualContext, IsDefined
<1>16. ASSUME MembershipCached PROVE TypeInv'
  <2>1. Scope.bigSegmentsMemberships[BigSegmentKey[1]] \in Memberships
    BY <1>3, <1>16 DEF MembershipCached, ScopeRecord
  <2> QED BY <1>6, <1>7, <1>10, <1>16, <2>1 DEF MembershipCached
<1>17. ASSUME BigSegmentsNotConfigured PROVE TypeInv'
  <2> DEFINE scope == [Scope EXCEPT !.bigSegmentsStatus = "NOT_CONFIGURED"]
  <2>1. /\ scope \in ScopeRecord /\ scope.prereq = Scope.prereq /\ scope.flag = Scope.flag
        /\ scopes' = [scopes EXCEPT ![Len(scopes)] = scope]
    BY <1>3, <1>11, <1>17, ScopeUpdates DEF BigSegmentsNotConfigured, TypeInv, ScopeRecord
  <2>2. consults' \in Seq(ConsultRecord)
    BY <1>9, <1>11, <1>17, OptionalValues DEF BigSegmentsNotConfigured
  <2>3. walks' \in Seq(WalkRecord) /\ walks' # <<>> /\ walks'[1].rule >= 1
    BY <1>2, <1>17, WalkTypes DEF BigSegmentsNotConfigured
  <2> HIDE DEF scope
  <2> QED BY <1>1, <1>2, <1>3, <1>17, <2>1, <2>2, <2>3, BigSegmentTypesSuffice
          DEF BigSegmentsNotConfigured
<1>18. ASSUME QueryMembership PROVE TypeInv'
  <2> DEFINE key == BigSegmentKey[1]
             answer == bigSegmentData[key]
             status == ComputeUpdatedBigSegmentsStatus(Scope.bigSegmentsStatus, answer.status)
             memberships == CacheMembership(Scope.bigSegmentsMemberships, key, answer.membership)
             scope == [Scope EXCEPT !.bigSegmentsStatus = status,
                                    !.bigSegmentsMemberships = memberships]
  <2>1. key \in ContextKeys
    BY <1>15, <1>18 DEF QueryMembership
  <2>2. /\ answer \in BigSegmentAnswers
        /\ answer.status \in ProviderStatus
        /\ answer.membership \in Memberships /\ IsMembership(answer.membership)
    BY <2>1, EvaluatorAssumption DEF TypeInv, TypeOK, Memberships
  <2>3. status \in BigSegmentsStatus
    BY <1>3, <1>11, <2>2, StatusTypes
  <2>4. memberships \in UNION {[K -> Memberships] : K \in SUBSET ContextKeys}
    <3>1. PICK K \in SUBSET ContextKeys : Scope.bigSegmentsMemberships \in [K -> Memberships]
      BY <1>3 DEF ScopeRecord
    <3>2. memberships \in [K \cup {key} -> Memberships]
      BY <2>2, <3>1 DEF CacheMembership
    <3>3. K \cup {key} \in SUBSET ContextKeys
      BY <2>1, <3>1
    <3> QED BY <3>2, <3>3
  <2>5. /\ scopes' = [SetStatus(status) EXCEPT ![Len(scopes)].bigSegmentsMemberships =
                                                  CacheMembership(@, key, answer.membership)]
        /\ Consulted(<<key>>, answer.status)
        /\ Decided(CheckMembership(answer.membership, MakeBigSegmentRef(Walk.src)))
    BY <1>18 DEF QueryMembership
  <2>6. SetStatus(status) = [scopes EXCEPT ![Len(scopes)] =
                               [Scope EXCEPT !.bigSegmentsStatus = status]]
    BY <1>3, <2>3, ScopeUpdates DEF TypeInv
  <2>7. consults' \in Seq(ConsultRecord)
    BY <1>9, <2>1, <2>2, <2>5, OptionalValues
  <2>8. /\ walks' \in Seq(WalkRecord) /\ walks' # <<>> /\ walks'[1].rule >= 1
        /\ segRet' \in Optional(MatchResult)
    BY <1>7, <2>2, <2>5
  <2> HIDE DEF key, answer, status
  <2>9. scopes' = [scopes EXCEPT ![Len(scopes)] = scope]
    <3> DEFINE base == [Scope EXCEPT !.bigSegmentsStatus = status]
               mid == [scopes EXCEPT ![Len(scopes)] = base]
    <3>1. base.bigSegmentsMemberships = Scope.bigSegmentsMemberships
      BY <1>3 DEF ScopeRecord
    <3>2. scope = [base EXCEPT !.bigSegmentsMemberships = memberships]
      OBVIOUS
    <3>3. DOMAIN scopes = 1..Len(scopes) /\ Len(scopes) \in DOMAIN scopes
      BY <1>1, <1>3
    <3>4. mid[Len(scopes)] = base
      BY <3>3
    <3>5. scopes' = [mid EXCEPT ![Len(scopes)] =
                       [base EXCEPT !.bigSegmentsMemberships = memberships]]
      BY <2>5, <2>6, <3>1, <3>4
    <3> HIDE DEF base, scope, memberships
    <3> QED BY <3>2, <3>3, <3>5
  <2>10. scope \in ScopeRecord /\ scope.prereq = Scope.prereq /\ scope.flag = Scope.flag
    BY <1>3, <2>3, <2>4 DEF ScopeRecord
  <2> HIDE DEF scope, memberships
  <2> QED BY <1>2, <1>3, <1>18, <2>7, <2>8, <2>9, <2>10, BigSegmentTypesSuffice
          DEF QueryMembership
<1> QED BY <1>12, <1>13, <1>14, <1>16, <1>17, <1>18 DEF BigSegmentStep

\* Evaluate starts with the flag that was asked for, or returns at once.
LEMMA EvaluateTypes == TypeInv /\ (RejectContext \/ EvaluateSome) => TypeInv'
<1> SUFFICES ASSUME TypeInv, RejectContext \/ EvaluateSome PROVE TypeInv'
  OBVIOUS
<1>1. scopes = <<>> /\ walks = <<>> /\ evalRet = <<>>
  BY DEF RejectContext, EvaluateSome, Evaluate, TypeInv, ControlOK
<1>2. /\ events \in Seq(EventRecord) /\ log \in Seq(LogRecord)
      /\ result \in Optional([detail: Detail, isExperiment: BOOLEAN])
  BY DEF TypeInv, TypeOK, LogRecord
<1>3. ASSUME RejectContext PROVE TypeInv'
  <2>1. ErrorDetail("USER_NOT_SPECIFIED") \in Detail
    BY DetailTypes DEF ErrorKinds
  <2>2. result' \in Optional([detail: Detail, isExperiment: BOOLEAN])
    BY <1>3, <2>1, OptionalValues DEF RejectContext
  <2>3. scopes' \in Seq(ScopeRecord) /\ CallersWait'
    BY <1>1, <1>3, EmptySeq DEF RejectContext, CallersWait
  <2> QED BY <1>1, <1>2, <1>3, <2>2, <2>3, OptionalValues, ScopesChange DEF RejectContext
<1>4. ASSUME EvaluateSome PROVE TypeInv'
  <2>1. PICK key \in FlagKeys : IsDefined(flagData[key]) /\ Evaluate(flagData[key][1])
    BY <1>4 DEF EvaluateSome
  <2> DEFINE flag == flagData[key][1]
             scope == NewScope(flag, <<>>, NoStatus, NoMemberships)
  <2>2. flag \in Flags
    BY <2>1, OptionalValues DEF TypeInv, TypeOK
  <2>3. scope \in ScopeRecord
    <3>1. 1 \in Nat \ {0} /\ <<>> \in Seq(FlagKeys)
      OBVIOUS
    <3>2. NoStatus \in BigSegmentsStatus
      BY DEF BigSegmentsStatus
    <3>3. NoMemberships \in [{} -> Memberships] /\ {} \in SUBSET ContextKeys
      BY DEF NoMemberships
    <3> QED BY <2>2, <3>1, <3>2, <3>3 DEF NewScope, ScopeRecord
  <2>4. scopes' = <<scope>>
    BY <2>1 DEF Evaluate
  <2> HIDE DEF scope
  <2>5. scopes' \in Seq(ScopeRecord) /\ scopes' # <<>> /\ Len(scopes') = 1
    BY <2>3, <2>4
  <2>6. CallersWait'
    BY <2>5 DEF CallersWait
  <2> QED BY <1>1, <1>2, <2>1, <2>5, <2>6, OptionalValues, ScopesChange DEF Evaluate
<1> QED BY <1>3, <1>4

\* The types, with where the evaluation stands, are kept by every step.
LEMMA NextTypes == TypeInv /\ [Next]_vars => TypeInv'
<1> SUFFICES ASSUME TypeInv, [Next]_vars PROVE TypeInv'
  OBVIOUS
<1>1. CASE UNCHANGED vars
  BY <1>1 DEF TypeInv, TypeOK, CallersWait, ControlOK, vars, stores
<1>2. CASE Next
  <2>1. CASE RejectContext \/ EvaluateSome
    BY <2>1, EvaluateTypes
  <2>2. CASE Step
    BY <2>2, FlagStepTypes, RuleStepTypes, BigSegmentStepTypes DEF Step
  <2>3. CASE StoreUpdate
    BY <2>3, StoreUpdateTypes
  <2>4. CASE Returned
    BY <1>1, <2>4 DEF Returned
  <2> QED BY <1>2, <2>1, <2>2, <2>3, <2>4 DEF Next
<1> QED BY <1>1, <1>2

\* Type correctness: no sequence of store updates makes the evaluation of any flag leave the
\* types of the code, and what is on the call stack is always what the code expects there.
THEOREM TypeCorrect == Spec => []TypeOK
<1>1. TypeInv => TypeOK
  BY DEF TypeInv
<1> QED BY <1>1, InitTypes, NextTypes, PTL DEF Spec

------------------------------------------------------------------------------
(***************************************************************************)
(* No flag is evaluated inside itself.  The code tests a new prerequisite  *)
(* against a chain that it passes down by value, not against the call      *)
(* stack: the invariant says that the chain of a scope is the list of the  *)
(* flags below it on the stack.                                            *)
(***************************************************************************)
ChainsAreFlagsBelow ==
  \A i \in 1..Len(scopes) :
    /\ Len(scopes[i].prerequisiteFlagChain) = i - 1
    /\ \A j \in 1..(i - 1) : scopes[i].prerequisiteFlagChain[j] = scopes[j].flag.key
FlagsDiffer ==
  \A i, j \in 1..Len(scopes) : scopes[i].flag.key = scopes[j].flag.key => i = j
FlagNesting == ChainsAreFlagsBelow /\ FlagsDiffer

\* No deeper stack, and no other flags or chains on it.
NoNewScope ==
  /\ Len(scopes') \in Nat /\ Len(scopes') <= Len(scopes)
  /\ \A i \in 1..Len(scopes') :
       /\ scopes'[i].flag = scopes[i].flag
       /\ scopes'[i].prerequisiteFlagChain = scopes[i].prerequisiteFlagChain

LEMMA NoNewScopeNesting ==
  ASSUME TypeInv, FlagNesting, NoNewScope
  PROVE  FlagNesting'
<1>1. Len(scopes) \in Nat
  BY DEF TypeInv, TypeOK
<1>2. \A i \in 1..Len(scopes') : i \in 1..Len(scopes) /\ \A j \in 1..(i - 1) : j \in 1..Len(scopes')
  BY <1>1 DEF NoNewScope
<1>3. ChainsAreFlagsBelow'
  <2>1. \A i \in 1..Len(scopes') :
          /\ Len(scopes'[i].prerequisiteFlagChain) = i - 1
          /\ \A j \in 1..(i - 1) : scopes'[i].prerequisiteFlagChain[j] = scopes'[j].flag.key
    BY <1>2 DEF FlagNesting, ChainsAreFlagsBelow, NoNewScope
  <2> QED BY <2>1 DEF ChainsAreFlagsBelow
<1>4. FlagsDiffer'
  BY <1>2 DEF FlagNesting, FlagsDiffer, NoNewScope
<1> QED BY <1>3, <1>4 DEF FlagNesting

\* The chain that a prerequisite is looked up in holds the keys of all flags on the stack.
LEMMA ChainOfThisFlag ==
  ASSUME TypeInv, FlagNesting, scopes # <<>>
  PROVE  /\ Len(ExtendedChain) = Len(scopes)
         /\ \A j \in 1..Len(scopes) : ExtendedChain[j] = scopes[j].flag.key
         /\ DOMAIN ExtendedChain = 1..Len(scopes)
<1> DEFINE n == Len(scopes)
<1>1. /\ scopes \in Seq(ScopeRecord) /\ n \in Nat \ {0}
      /\ Scope = scopes[n] /\ Scope \in ScopeRecord
  BY ScopeTypes DEF TypeInv, TypeOK
<1>2. /\ Len(Scope.prerequisiteFlagChain) = n - 1
      /\ \A j \in 1..(n - 1) : Scope.prerequisiteFlagChain[j] = scopes[j].flag.key
  BY <1>1 DEF FlagNesting, ChainsAreFlagsBelow
<1>3. Scope.prerequisiteFlagChain \in Seq(FlagKeys) /\ Scope.flag.key \in FlagKeys
  BY <1>1, EvaluatorAssumption DEF ScopeRecord, Flag
<1>4. /\ ExtendedChain \in Seq(FlagKeys)
      /\ Len(ExtendedChain) = Len(Scope.prerequisiteFlagChain) + 1
      /\ \A j \in 1..(n - 1) : ExtendedChain[j] = Scope.prerequisiteFlagChain[j]
      /\ ExtendedChain[Len(Scope.prerequisiteFlagChain) + 1] = Scope.flag.key
  BY <1>2, <1>3, AppendProperties DEF ExtendedChain
<1>5. Len(ExtendedChain) = n /\ ExtendedChain[n] = Scope.flag.key
  BY <1>1, <1>2, <1>4
<1>6. \A j \in 1..n : j = n \/ j \in 1..(n - 1)
  BY <1>1
<1> QED BY <1>1, <1>2, <1>4, <1>5, <1>6

\* A prerequisite is evaluated only if its key is not in the chain.
LEMMA NewScopeNesting ==
  ASSUME TypeInv, FlagNesting, EvaluatePrerequisite
  PROVE  FlagNesting'
<1> DEFINE n == Len(scopes)
           flag == flagData[Prereq.key][1]
           scope == NewScope(flag, ExtendedChain,
                             Scope.bigSegmentsStatus, Scope.bigSegmentsMemberships)
<1>1. /\ scopes \in Seq(ScopeRecord) /\ n \in Nat \ {0}
      /\ Scope = scopes[n] /\ Scope \in ScopeRecord
  BY ScopeTypes DEF TypeInv, TypeOK, EvaluatePrerequisite, AtPrerequisite, BeforeRules
<1>2. scopes # <<>>
  BY DEF EvaluatePrerequisite, AtPrerequisite, BeforeRules
<1>3. /\ Len(ExtendedChain) = n
      /\ \A j \in 1..n : ExtendedChain[j] = scopes[j].flag.key
      /\ DOMAIN ExtendedChain = 1..n
  BY <1>2, ChainOfThisFlag
<1>4. \A j \in 1..n : flag.key # scopes[j].flag.key
  BY <1>3 DEF EvaluatePrerequisite, ToSet
<1>5. scopes' = Append(scopes, scope)
  BY DEF EvaluatePrerequisite
<1>6. scope.flag = flag /\ scope.prerequisiteFlagChain = ExtendedChain
  BY DEF NewScope
<1> HIDE DEF scope, flag
<1>7. /\ Len(scopes') = n + 1
      /\ \A i \in 1..n : scopes'[i] = scopes[i]
      /\ scopes'[n + 1] = scope
  BY <1>1, <1>5
<1>8. \A i \in 1..Len(scopes') : i = n + 1 \/ i \in 1..n
  BY <1>1, <1>7
<1>9. ChainsAreFlagsBelow'
  <2> DEFINE Matches(i) ==
        /\ Len(scopes'[i].prerequisiteFlagChain) = i - 1
        /\ \A j \in 1..(i - 1) : scopes'[i].prerequisiteFlagChain[j] = scopes'[j].flag.key
  <2>1. ASSUME NEW i \in 1..n PROVE Matches(i)
    <3>1. \A j \in 1..(i - 1) : j \in 1..n
      BY <1>1
    <3> QED BY <1>7, <3>1 DEF FlagNesting, ChainsAreFlagsBelow
  <2>2. Matches(n + 1)
    BY <1>1, <1>3, <1>6, <1>7
  <2> HIDE DEF Matches
  <2>3. \A i \in 1..Len(scopes') : Matches(i)
    BY <1>8, <2>1, <2>2
  <2> QED BY <2>3 DEF ChainsAreFlagsBelow, Matches
<1>10. FlagsDiffer'
  BY <1>4, <1>6, <1>7, <1>8 DEF FlagNesting, FlagsDiffer
<1> QED BY <1>9, <1>10 DEF FlagNesting

\* Every other step only works on the scopes that are there, or leaves one.
LEMMA FlagNestingStep == TypeInv /\ FlagNesting /\ [Next]_vars => FlagNesting'
<1> SUFFICES ASSUME TypeInv, FlagNesting, [Next]_vars PROVE FlagNesting'
  OBVIOUS
<1>1. scopes \in Seq(ScopeRecord) /\ Len(scopes) \in Nat
  BY DEF TypeInv, TypeOK
<1>2. ASSUME UNCHANGED scopes PROVE FlagNesting'
  BY <1>2 DEF FlagNesting, ChainsAreFlagsBelow, FlagsDiffer
<1>3. ASSUME EvaluateSome PROVE FlagNesting'
  <2>1. Len(scopes') = 1 /\ scopes'[1].prerequisiteFlagChain = <<>>
    BY <1>3 DEF EvaluateSome, Evaluate, NewScope
  <2> QED BY <2>1 DEF FlagNesting, ChainsAreFlagsBelow, FlagsDiffer
<1>4. ASSUME NEW step \in {0, 1}, PrerequisiteReturns, scopes' = AfterPop(step)
      PROVE  FlagNesting'
  <2>1. /\ Len(scopes') = Len(scopes) - 1
        /\ \A i \in 1..(Len(scopes) - 2) : scopes'[i] = scopes[i]
        /\ scopes'[Len(scopes) - 1] =
             [Caller EXCEPT !.bigSegmentsStatus = MergedStatus, !.prereq = @ + step]
    BY <1>4, PopTypes DEF PrerequisiteReturns
  <2>2. Len(scopes) > 1 /\ Caller \in ScopeRecord /\ Caller = scopes[Len(scopes) - 1]
    BY <1>1, <1>4, ScopeTypes, EmptySeq DEF PrerequisiteReturns, TypeInv, Caller
  <2>3. /\ scopes'[Len(scopes) - 1].flag = scopes[Len(scopes) - 1].flag
        /\ scopes'[Len(scopes) - 1].prerequisiteFlagChain =
             scopes[Len(scopes) - 1].prerequisiteFlagChain
    BY <2>1, <2>2 DEF ScopeRecord
  <2>4. \A i \in 1..Len(scopes') : i = Len(scopes) - 1 \/ i \in 1..(Len(scopes) - 2)
    BY <1>1, <2>1
  <2>5. Len(scopes') \in Nat /\ Len(scopes') <= Len(scopes)
    BY <1>1, <2>1, <2>2
  <2>6. \A i \in 1..Len(scopes') :
          /\ scopes'[i].flag = scopes[i].flag
          /\ scopes'[i].prerequisiteFlagChain = scopes[i].prerequisiteFlagChain
    BY <2>1, <2>3, <2>4
  <2> QED BY <2>5, <2>6, NoNewScopeNesting DEF NoNewScope
<1>5. ASSUME NEW scope, scopes # <<>>, scopes' = [scopes EXCEPT ![Len(scopes)] = scope],
             scope.flag = Scope.flag,
             scope.prerequisiteFlagChain = Scope.prerequisiteFlagChain
      PROVE  FlagNesting'
  <2>1. Scope = scopes[Len(scopes)] /\ Len(scopes) \in Nat \ {0}
    BY <1>5, ScopeTypes DEF TypeInv
  <2>2. /\ Len(scopes') = Len(scopes)
        /\ \A i \in 1..Len(scopes) :
             scopes'[i] = IF i = Len(scopes) THEN scope ELSE scopes[i]
    BY <1>1, <1>5, <2>1
  <2>3. \A i \in 1..Len(scopes) :
          /\ scopes'[i].flag = scopes[i].flag
          /\ scopes'[i].prerequisiteFlagChain = scopes[i].prerequisiteFlagChain
    BY <1>5, <2>1, <2>2
  <2>4. Len(scopes') \in Nat /\ Len(scopes') <= Len(scopes)
    BY <1>1, <2>2
  <2> QED BY <2>2, <2>3, <2>4, NoNewScopeNesting DEF NoNewScope
<1>6. ASSUME FlagStep PROVE FlagNesting'
  <2>1. CASE FlagIsOff \/ PrerequisiteMissing \/ PrerequisiteCircular \/ TargetsMatch \/ StartRules
    BY <1>2, <2>1 DEF FlagIsOff, PrerequisiteMissing, PrerequisiteCircular, TargetsMatch, StartRules
  <2>2. CASE EvaluatePrerequisite
    BY <2>2, NewScopeNesting
  <2>3. CASE PrerequisiteInvalid
    BY <1>4, <2>3 DEF PrerequisiteInvalid
  <2>4. CASE PrerequisitePassed
    BY <1>4, <2>4 DEF PrerequisitePassed
  <2>5. CASE PrerequisiteFailed
    BY <1>4, <2>5 DEF PrerequisiteFailed
  <2>6. CASE ReturnResult
    <3>1. Len(scopes') = 0
      BY <2>6 DEF ReturnResult
    <3> QED BY <3>1 DEF FlagNesting, ChainsAreFlagsBelow, FlagsDiffer
  <2> QED BY <1>6, <2>1, <2>2, <2>3, <2>4, <2>5, <2>6 DEF FlagStep
<1>7. ASSUME RuleStep PROVE FlagNesting'
  BY <1>2, <1>7
     DEF RuleStep, FlagRuleMatches, Fallthrough, SegmentRuleMatches, SegmentRulesExhausted,
         PlainClause, NoSuchSegment, SegmentCircular, EnterSegment, SegmentClauseExhausted,
         SegmentReturned
<1>8. ASSUME BigSegmentStep PROVE FlagNesting'
  <2>1. scopes # <<>> /\ Scope \in ScopeRecord /\ Scope = scopes[Len(scopes)]
    BY <1>8, ScopeTypes
       DEF BigSegmentStep, ListedSegment, BigSegmentWithoutGeneration, BigSegmentOfOtherKind,
           MembershipCached, BigSegmentsNotConfigured, QueryMembership, AtBigSegment, Entering,
           Walking, TypeInv, ControlOK
  <2>2. CASE ListedSegment \/ BigSegmentOfOtherKind \/ MembershipCached
    BY <1>2, <2>2 DEF ListedSegment, BigSegmentOfOtherKind, MembershipCached
  <2>3. CASE BigSegmentWithoutGeneration \/ BigSegmentsNotConfigured
    <3> DEFINE scope == [Scope EXCEPT !.bigSegmentsStatus = "NOT_CONFIGURED"]
    <3>1. scopes' = [scopes EXCEPT ![Len(scopes)] = scope]
      BY <1>1, <2>1, <2>3
         DEF BigSegmentWithoutGeneration, BigSegmentsNotConfigured, SetStatus
    <3>2. /\ scope.flag = Scope.flag
          /\ scope.prerequisiteFlagChain = Scope.prerequisiteFlagChain
      BY <2>1 DEF ScopeRecord
    <3> QED BY <1>5, <2>1, <3>1, <3>2
  <2>4. CASE QueryMembership
    <3>1. PICK status, memberships :
            scopes' = [SetStatus(status) EXCEPT ![Len(scopes)].bigSegmentsMemberships =
                                                   memberships]
      BY <2>4 DEF QueryMembership
    <3> DEFINE scope == [[Scope EXCEPT !.bigSegmentsStatus = status]
                           EXCEPT !.bigSegmentsMemberships = memberships]
    <3>2. scopes' = [scopes EXCEPT ![Len(scopes)] = scope]
      BY <1>1, <2>1, <3>1 DEF SetStatus
    <3>3. /\ scope.flag = Scope.flag
          /\ scope.prerequisiteFlagChain = Scope.prerequisiteFlagChain
      BY <2>1 DEF ScopeRecord
    <3> QED BY <1>5, <2>1, <3>2, <3>3
  <2> QED BY <1>8, <2>2, <2>3, <2>4 DEF BigSegmentStep
<1>9. ASSUME RejectContext \/ StoreUpdate \/ Returned \/ UNCHANGED vars PROVE FlagNesting'
  BY <1>2, <1>9 DEF RejectContext, StoreUpdate, UpdateFlag, UpdateSegment, UpdateBigSegments,
                    Returned, vars, evaluation
<1> QED BY <1>3, <1>6, <1>7, <1>8, <1>9 DEF Next, Step

\* However the store changes, the flags being evaluated at one time are all different.
THEOREM FlagsNeverNest == Spec => []NoFlagInsideItself
<1>1. Init => FlagNesting
  BY DEF Init, FlagNesting, ChainsAreFlagsBelow, FlagsDiffer
<1>2. TypeInv /\ FlagNesting => NoFlagInsideItself
  <2>1. TypeInv => DOMAIN scopes = 1..Len(scopes)
    BY DEF TypeInv, TypeOK
  <2> QED BY <2>1 DEF FlagNesting, FlagsDiffer, NoFlagInsideItself
<1> QED BY <1>1, <1>2, InitTypes, NextTypes, FlagNestingStep, PTL DEF Spec

------------------------------------------------------------------------------
(***************************************************************************)
(* No segment is tried inside itself, in the same way: the chain of a walk *)
(* lists the segments that are being tried up to it.  The first walk is    *)
(* over the rules of the flag and is not in the chain.                     *)
(***************************************************************************)
ChainsAreSegmentsBelow ==
  \A i \in 1..Len(walks) :
    /\ Len(walks[i].segmentChain) = i - 1
    /\ \A j \in 2..i : walks[i].segmentChain[j - 1] = walks[j].src.key
SegmentsDiffer ==
  \A i, j \in 2..Len(walks) : walks[i].src.key = walks[j].src.key => i = j
SegmentNesting == ChainsAreSegmentsBelow /\ SegmentsDiffer

\* No deeper walk, and no other segments or chains.
LEMMA NoNewWalkNesting ==
  ASSUME TypeInv, SegmentNesting,
         Len(walks') \in Nat, Len(walks') <= Len(walks),
         \A i \in 1..Len(walks') : /\ walks'[i].src = walks[i].src
                                   /\ walks'[i].segmentChain = walks[i].segmentChain
  PROVE  SegmentNesting'
<1>1. Len(walks) \in Nat
  BY DEF TypeInv, TypeOK
<1>2. \A i \in 1..Len(walks') : i \in 1..Len(walks) /\ \A j \in 2..i : j \in 1..Len(walks')
  BY <1>1
<1>3. \A i \in 2..Len(walks') : i \in 1..Len(walks') /\ i \in 2..Len(walks)
  BY <1>1
<1>4. ChainsAreSegmentsBelow'
  <2>1. \A i \in 1..Len(walks') :
          /\ Len(walks'[i].segmentChain) = i - 1
          /\ \A j \in 2..i : walks'[i].segmentChain[j - 1] = walks'[j].src.key
    BY <1>2 DEF SegmentNesting, ChainsAreSegmentsBelow
  <2> QED BY <2>1 DEF ChainsAreSegmentsBelow
<1>5. SegmentsDiffer'
  BY <1>3 DEF SegmentNesting, SegmentsDiffer
<1> QED BY <1>4, <1>5 DEF SegmentNesting

\* Moving on, returning and giving up.
LEMMA WalkOnNesting ==
  ASSUME TypeInv, SegmentNesting, walks # <<>>,
         walks' \in {<<>>, Front(walks), NextClause, NextRule, NextValue}
  PROVE  SegmentNesting'
<1>1. /\ walks \in Seq(WalkRecord) /\ Len(walks) \in Nat \ {0}
      /\ Walk = walks[Len(walks)] /\ Walk \in WalkRecord
  BY WalkTypes DEF TypeInv, TypeOK
<1>2. CASE walks' = <<>>
  <2>1. Len(walks') = 0
    BY <1>2
  <2> QED BY <1>1, <2>1, NoNewWalkNesting
<1>3. CASE walks' = Front(walks)
  <2>1. Len(walks') = Len(walks) - 1 /\ \A i \in 1..(Len(walks) - 1) : walks'[i] = walks[i]
    BY <1>1, <1>3, Stacks
  <2> QED BY <1>1, <2>1, NoNewWalkNesting
<1>4. ASSUME NEW w, walks' = [walks EXCEPT ![Len(walks)] = w],
             w.src = Walk.src, w.segmentChain = Walk.segmentChain
      PROVE  SegmentNesting'
  <2>1. /\ Len(walks') = Len(walks)
        /\ \A i \in 1..Len(walks) : walks'[i] = IF i = Len(walks) THEN w ELSE walks[i]
    BY <1>1, <1>4
  <2>2. \A i \in 1..Len(walks) : /\ walks'[i].src = walks[i].src
                                 /\ walks'[i].segmentChain = walks[i].segmentChain
    BY <1>1, <1>4, <2>1
  <2>3. Len(walks') \in Nat /\ Len(walks') <= Len(walks)
    BY <1>1, <2>1
  <2> QED BY <2>1, <2>2, <2>3, NoNewWalkNesting
<1>5. CASE walks' = NextClause
  <2> DEFINE w == [Walk EXCEPT !.clause = @ + 1, !.value = 1]
  <2>1. walks' = [walks EXCEPT ![Len(walks)] = w]
    BY <1>1, <1>5 DEF NextClause
  <2>2. w.src = Walk.src /\ w.segmentChain = Walk.segmentChain
    BY <1>1 DEF WalkRecord
  <2> QED BY <1>4, <2>1, <2>2
<1>6. CASE walks' = NextRule
  <2> DEFINE w == [Walk EXCEPT !.rule = @ + 1, !.clause = 1, !.value = 1]
  <2>1. walks' = [walks EXCEPT ![Len(walks)] = w]
    BY <1>1, <1>6 DEF NextRule
  <2>2. w.src = Walk.src /\ w.segmentChain = Walk.segmentChain
    BY <1>1 DEF WalkRecord
  <2> QED BY <1>4, <2>1, <2>2
<1>7. CASE walks' = NextValue
  <2> DEFINE w == [Walk EXCEPT !.value = @ + 1]
  <2>1. walks' = [walks EXCEPT ![Len(walks)] = w]
    BY <1>1, <1>7 DEF NextValue
  <2>2. w.src = Walk.src /\ w.segmentChain = Walk.segmentChain
    BY <1>1 DEF WalkRecord
  <2> QED BY <1>4, <2>1, <2>2
<1> QED BY <1>2, <1>3, <1>5, <1>6, <1>7

\* A segment is entered only if its key is not in the chain.
LEMMA NewWalkNesting ==
  ASSUME TypeInv, SegmentNesting, EnterSegment
  PROVE  SegmentNesting'
<1> DEFINE n == Len(walks)
           segment == SegmentFound(CurrentValue)[1]
           chain == Append(Walk.segmentChain, segment.key)
           w == NewWalk(segment, chain, 0)
<1>1. /\ walks \in Seq(WalkRecord) /\ n \in Nat \ {0}
      /\ Walk = walks[n] /\ Walk \in WalkRecord
  BY WalkTypes
     DEF TypeInv, TypeOK, EnterSegment, AtSegmentValue, AtSegmentClause, AtClause, AtRule,
         InRules, Walking
<1>2. /\ Len(Walk.segmentChain) = n - 1
      /\ \A j \in 2..n : Walk.segmentChain[j - 1] = walks[j].src.key
  BY <1>1 DEF SegmentNesting, ChainsAreSegmentsBelow
<1>3. Walk.segmentChain \in Seq(SegmentKeys) /\ DOMAIN Walk.segmentChain = 1..(n - 1)
  BY <1>1, <1>2 DEF WalkRecord
<1>4. segment.key \in SegmentKeys
  <2>1. SegmentFound(CurrentValue) \in Optional(Segments)
    BY OptionalValues DEF SegmentFound, TypeInv, TypeOK
  <2>2. segment \in Segments
    BY <2>1, OptionalValues DEF EnterSegment
  <2> QED BY <2>2, EvaluatorAssumption DEF Segment
<1>5. \A j \in 2..n : segment.key # walks[j].src.key
  <2>1. segment.key \notin ToSet(Walk.segmentChain)
    BY DEF EnterSegment
  <2>2. \A j \in 2..n : j - 1 \in 1..(n - 1)
    BY <1>1
  <2> QED BY <1>2, <1>3, <2>1, <2>2 DEF ToSet
<1>6. walks' = Append(walks, w)
  BY DEF EnterSegment
<1>7. w.src = segment /\ w.segmentChain = chain
  BY DEF NewWalk
<1> HIDE DEF w, segment
<1>8. /\ Len(chain) = n
      /\ \A j \in 1..(n - 1) : chain[j] = Walk.segmentChain[j]
      /\ chain[n] = segment.key
  <2>1. /\ Len(chain) = Len(Walk.segmentChain) + 1
        /\ \A j \in 1..(n - 1) : chain[j] = Walk.segmentChain[j]
        /\ chain[Len(Walk.segmentChain) + 1] = segment.key
    BY <1>2, <1>3, <1>4, AppendProperties
  <2>2. Len(Walk.segmentChain) + 1 = n
    BY <1>1, <1>2
  <2> QED BY <2>1, <2>2
<1> HIDE DEF chain
<1>9. /\ Len(walks') = n + 1
      /\ \A i \in 1..n : walks'[i] = walks[i]
      /\ walks'[n + 1] = w
  BY <1>1, <1>6
<1>10. \A i \in 1..Len(walks') : i = n + 1 \/ i \in 1..n
  BY <1>1, <1>9
<1>11. \A i \in 2..Len(walks') : i = n + 1 \/ (i \in 2..n /\ i \in 1..n)
  BY <1>1, <1>9
<1>12. ChainsAreSegmentsBelow'
  <2> DEFINE Matches(i) ==
        /\ Len(walks'[i].segmentChain) = i - 1
        /\ \A j \in 2..i : walks'[i].segmentChain[j - 1] = walks'[j].src.key
  <2>1. ASSUME NEW i \in 1..n PROVE Matches(i)
    <3>1. \A j \in 2..i : j \in 1..n
      BY <1>1
    <3> QED BY <1>9, <3>1 DEF SegmentNesting, ChainsAreSegmentsBelow
  <2>2. Matches(n + 1)
    <3>1. ASSUME NEW j \in 2..(n + 1) PROVE walks'[n + 1].segmentChain[j - 1] = walks'[j].src.key
      <4>1. CASE j = n + 1
        <5>1. j - 1 = n
          BY <1>1, <4>1
        <5> QED BY <1>7, <1>8, <1>9, <4>1, <5>1
      <4>2. CASE j \in 2..n
        <5>1. j - 1 \in 1..(n - 1) /\ j \in 1..n
          BY <1>1, <4>2
        <5> QED BY <1>2, <1>7, <1>8, <1>9, <4>2, <5>1
      <4> QED BY <1>9, <1>11, <4>1, <4>2
    <3>2. Len(walks'[n + 1].segmentChain) = n + 1 - 1
      BY <1>1, <1>7, <1>8, <1>9
    <3> QED BY <3>1, <3>2
  <2> HIDE DEF Matches
  <2>3. \A i \in 1..Len(walks') : Matches(i)
    BY <1>10, <2>1, <2>2
  <2> QED BY <2>3 DEF ChainsAreSegmentsBelow, Matches
<1>13. SegmentsDiffer'
  BY <1>5, <1>7, <1>9, <1>11 DEF SegmentNesting, SegmentsDiffer
<1> QED BY <1>12, <1>13 DEF SegmentNesting

\* What a rule, a clause or a verdict does to the walks.
LEMMA WalksAfter ==
  /\ \A r : SegmentReturns(r) => walks' = Front(walks)
  /\ \A err : RuleFails(err) => walks' \in {<<>>, Front(walks)}
  /\ \A r : ClauseReturns(r) => walks' \in {<<>>, Front(walks), NextClause, NextRule}
  /\ \A verdict : Decided(verdict) => walks' \in {Front(walks), NextRule}
BY DEF SegmentReturns, RuleFails, ClauseReturns, Decided

LEMMA SegmentNestingStep == TypeInv /\ SegmentNesting /\ [Next]_vars => SegmentNesting'
<1> SUFFICES ASSUME TypeInv, SegmentNesting, [Next]_vars PROVE SegmentNesting'
  OBVIOUS
<1>1. ASSUME UNCHANGED walks PROVE SegmentNesting'
  BY <1>1 DEF SegmentNesting, ChainsAreSegmentsBelow, SegmentsDiffer
<1>2. ASSUME RejectContext \/ EvaluateSome \/ StoreUpdate \/ Returned \/ UNCHANGED vars
      PROVE  SegmentNesting'
  BY <1>1, <1>2 DEF RejectContext, EvaluateSome, Evaluate, StoreUpdate, UpdateFlag,
                    UpdateSegment, UpdateBigSegments, Returned, vars, evaluation
<1>3. ASSUME FlagStep PROVE SegmentNesting'
  <2>1. CASE StartRules
    <3>1. walks' = <<NewWalk(Scope.flag, <<>>, 1)>>
      BY <2>1 DEF StartRules
    <3>2. Len(walks') = 1 /\ walks'[1].segmentChain = <<>>
      BY <3>1 DEF NewWalk
    <3> QED BY <3>2 DEF SegmentNesting, ChainsAreSegmentsBelow, SegmentsDiffer
  <2>2. CASE ~StartRules
    BY <1>1, <1>3, <2>2
       DEF FlagStep, FlagIsOff, PrerequisiteMissing, PrerequisiteCircular, EvaluatePrerequisite,
           PrerequisiteInvalid, PrerequisitePassed, PrerequisiteFailed, TargetsMatch, ReturnResult
  <2> QED BY <2>1, <2>2
<1>4. ASSUME RuleStep PROVE SegmentNesting'
  <2>1. CASE EnterSegment
    BY <2>1, NewWalkNesting
  <2>2. CASE ~EnterSegment
    <3>1. walks # <<>>
      BY <1>4
         DEF RuleStep, FlagRuleMatches, Fallthrough, SegmentRuleMatches, SegmentRulesExhausted,
             PlainClause, NoSuchSegment, SegmentCircular, EnterSegment, SegmentClauseExhausted,
             SegmentReturned, AtSegmentValue, AtSegmentClause, AtClause, AtRule, InRules,
             Walking, TypeInv, ControlOK, IsDefined
    <3>2. walks' \in {<<>>, Front(walks), NextClause, NextRule, NextValue}
      BY <1>4, <2>2, WalksAfter
         DEF RuleStep, FlagRuleMatches, Fallthrough, SegmentRuleMatches, SegmentRulesExhausted,
             PlainClause, NoSuchSegment, SegmentCircular, SegmentClauseExhausted, SegmentReturned
    <3> QED BY <3>1, <3>2, WalkOnNesting
  <2> QED BY <2>1, <2>2
<1>5. ASSUME BigSegmentStep PROVE SegmentNesting'
  <2>1. walks # <<>>
    BY <1>5 DEF BigSegmentStep, ListedSegment, BigSegmentWithoutGeneration, BigSegmentOfOtherKind,
                MembershipCached, BigSegmentsNotConfigured, QueryMembership, AtBigSegment,
                Entering, Walking
  <2>2. walks' \in {Front(walks), NextRule}
    BY <1>5, WalksAfter
       DEF BigSegmentStep, ListedSegment, BigSegmentWithoutGeneration, BigSegmentOfOtherKind,
           MembershipCached, BigSegmentsNotConfigured, QueryMembership
  <2> QED BY <2>1, <2>2, WalkOnNesting
<1> QED BY <1>2, <1>3, <1>4, <1>5 DEF Next, Step

\* However the store changes, the segments being tried inside one another are all different.
THEOREM SegmentsNeverNest == Spec => []NoSegmentInsideItself
<1>1. Init => SegmentNesting
  BY DEF Init, SegmentNesting, ChainsAreSegmentsBelow, SegmentsDiffer
<1>2. SegmentNesting => NoSegmentInsideItself
  BY DEF SegmentNesting, SegmentsDiffer, NoSegmentInsideItself
<1> QED BY <1>1, <1>2, InitTypes, NextTypes, SegmentNestingStep, PTL DEF Spec

------------------------------------------------------------------------------
(***************************************************************************)
(* No error is reported as EXCEPTION.  The only error without a kind,      *)
(* circularSegmentReferenceError, arises inside a segment; the invariant   *)
(* says that what a segment returns is never that error, because the       *)
(* segment has wrapped it.                                                 *)
(***************************************************************************)
\* A detail that is not an error, or an error with a kind of its own.
HasErrorKind(detail) == detail.reason.errorKind # "EXCEPTION"
SegmentErrorsWrapped ==
  \A i \in DOMAIN segRet : segRet[i].err \in {NoError, "malformedSegment"}
ErrorInv == SegmentErrorsWrapped /\ NeverException

\* The details of an error with a kind, and a variation with a reason that is not an error.
LEMMA OutcomeKinds ==
  /\ \A err \in EvalErrors : HasErrorKind(ErrorOutcome(err).detail)
  /\ \A flag, index, reason :
       reason.errorKind = "" => HasErrorKind(GetVariation(flag, index, reason).detail)
  /\ \A flag, reason :
       reason.errorKind = "" => HasErrorKind(GetOffValue(flag, reason).detail)
<1>1. \A err \in EvalErrors : HasErrorKind(ErrorOutcome(err).detail)
  BY DEF HasErrorKind, ErrorOutcome, ErrorDetail, DefaultDetail, ErrorReason, NewReason, ErrorKindForError
<1>2. \A flag, index, reason :
        reason.errorKind = "" => HasErrorKind(GetVariation(flag, index, reason).detail)
  <2>1. "badVariation" \in EvalErrors
    BY DEF EvalErrors
  <2> QED BY <1>1, <2>1 DEF GetVariation, HasErrorKind, Outcome, NewDetail
<1>3. \A flag, reason :
        reason.errorKind = "" => HasErrorKind(GetOffValue(flag, reason).detail)
  BY <1>2 DEF GetOffValue, HasErrorKind, Outcome, DefaultDetail
<1> QED BY <1>1, <1>2, <1>3

\* The reasons that are not errors.
LEMMA PlainReasons ==
  /\ \A kind : NewReason(kind).errorKind = ""
  /\ \A key : PrerequisiteFailedReason(key).errorKind = ""
  /\ \A i : RuleMatchReason(i).errorKind = ""
BY DEF NewReason, PrerequisiteFailedReason, RuleMatchReason

\* A rollout fails with one of the kinds.
LEMMA RolloutKinds ==
  ASSUME NEW flag, NEW vr, NEW reason \in Reason, reason.errorKind = ""
  PROVE  HasErrorKind(GetValueForVariationOrRollout(flag, vr, reason).detail)
<1> DEFINE r == VariationOrRolloutResult(vr, context, flag.key, flag.salt)
<1>1. r.err # NoError => r.err \in EvalErrors
  <2>1. r.err \in {NoError, "emptyRollout", "badAttrRef"}
    BY RolloutErrors
  <2> HIDE DEF r
  <2> QED BY <2>1 DEF EvalErrors
<1>2. ReasonToExperimentReason(reason).errorKind = ""
  BY DEF ReasonToExperimentReason, Reason
<1> HIDE DEF r
<1> QED BY <1>1, <1>2, OutcomeKinds DEF GetValueForVariationOrRollout, r

\* A rule fails with one of the kinds, or makes its segment return a wrapped error.
LEMMA RuleFailsKinds ==
  ASSUME TypeInv, ErrorInv, NEW err \in EvalErrors, RuleFails(err), UNCHANGED <<events, result>>
  PROVE  ErrorInv'
<1>1. CASE /\ Return(ErrorOutcome(err), FALSE)
           /\ segRet' = <<>>
  <2>1. evalRet' = <<[detail |-> ErrorOutcome(err).detail, ok |-> FALSE]>>
    BY <1>1 DEF Return
  <2>2. HasErrorKind(ErrorOutcome(err).detail)
    BY OutcomeKinds
  <2> QED BY <1>1, <2>1, <2>2 DEF ErrorInv, SegmentErrorsWrapped, NeverException, HasErrorKind
<1>2. CASE /\ SegmentReturns(Failed("malformedSegment"))
           /\ UNCHANGED <<evalRet, log>>
  BY <1>2 DEF SegmentReturns, Failed, ErrorInv, SegmentErrorsWrapped, NeverException
<1> QED BY <1>1, <1>2 DEF RuleFails

\* A clause returns such an error, or none.
LEMMA ClauseReturnsKinds ==
  ASSUME TypeInv, ErrorInv, NEW r, r.err \in EvalErrors \cup {NoError}, ClauseReturns(r),
         UNCHANGED <<events, result>>
  PROVE  ErrorInv'
<1>1. CASE r.err # NoError /\ RuleFails(r.err)
  BY <1>1, RuleFailsKinds
<1>2. CASE segRet' = <<>> /\ UNCHANGED <<evalRet, log>>
  BY <1>2 DEF ErrorInv, SegmentErrorsWrapped, NeverException
<1> QED BY <1>1, <1>2 DEF ClauseReturns

\* evaluate() returns such a detail.
LEMMA ReturnKinds ==
  ASSUME TypeInv, ErrorInv, NEW detail, HasErrorKind(detail), NEW ok,
         evalRet' = <<[detail |-> detail, ok |-> ok]>>,
         segRet' = segRet \/ segRet' = <<>>, UNCHANGED <<events, result>>
  PROVE  ErrorInv'
BY DEF ErrorInv, SegmentErrorsWrapped, NeverException, HasErrorKind

LEMMA FlagStepKinds == TypeInv /\ ErrorInv /\ FlagStep => ErrorInv'
<1> SUFFICES ASSUME TypeInv, ErrorInv, FlagStep PROVE ErrorInv'
  OBVIOUS
<1> DEFINE returned == evalRet[1].detail
<1>1. IsDefined(evalRet) => HasErrorKind(returned) /\ returned \in Detail
  <2>1. evalRet \in Optional(EvalReturn)
    BY DEF TypeInv, TypeOK, EvalReturn
  <2>2. IsDefined(evalRet) => evalRet[1] \in EvalReturn /\ evalRet = <<evalRet[1]>>
    BY <2>1, OptionalValues
  <2>3. IsDefined(evalRet) => 1 \in DOMAIN evalRet
    BY <2>2
  <2> QED BY <2>2, <2>3 DEF ErrorInv, NeverException, HasErrorKind, EvalReturn
<1>2. CASE EvaluatePrerequisite \/ StartRules
  BY <1>2 DEF EvaluatePrerequisite, StartRules, ErrorInv, SegmentErrorsWrapped, NeverException
<1>3. CASE FlagIsOff
  BY <1>3, OutcomeKinds, PlainReasons, ReturnKinds DEF FlagIsOff, Return
<1>4. CASE PrerequisiteMissing
  BY <1>4, OutcomeKinds, PlainReasons, ReturnKinds DEF PrerequisiteMissing, Return
<1>5. CASE PrerequisiteCircular
  BY <1>5, OutcomeKinds, ReturnKinds DEF PrerequisiteCircular, Return, EvalErrors
<1>6. CASE TargetsMatch
  BY <1>6, OutcomeKinds, PlainReasons, ReturnKinds DEF TargetsMatch, Return
<1>7. CASE PrerequisiteInvalid
  <2>1. HasErrorKind(ErrorDetail("MALFORMED_FLAG"))
    BY DEF HasErrorKind, ErrorDetail, DefaultDetail, ErrorReason, NewReason
  <2> QED BY <1>7, <2>1, ReturnKinds DEF PrerequisiteInvalid
<1>8. ASSUME RecordEvent, PrerequisiteReturns
      PROVE  \A i \in DOMAIN events' : HasErrorKind(events'[i].detail)
  <2>1. events \in Seq(EventRecord)
    BY DEF TypeInv, TypeOK
  <2>2. \A i \in DOMAIN events : HasErrorKind(events[i].detail)
    BY DEF ErrorInv, NeverException, HasErrorKind
  <2>3. HasErrorKind(PrerequisiteFlagEvent.detail)
    BY <1>1, <1>8 DEF PrerequisiteReturns, PrerequisiteFlagEvent
  <2> HIDE DEF returned
  <2>4. CASE events' = events
    BY <2>2, <2>4
  <2>5. CASE events' = Append(events, PrerequisiteFlagEvent)
    <3>1. \A i \in DOMAIN events' : IF i \in DOMAIN events THEN events'[i] = events[i]
                                     ELSE events'[i] = PrerequisiteFlagEvent
      BY <2>1, <2>5
    <3> QED BY <2>2, <2>3, <3>1
  <2> QED BY <1>8, <2>4, <2>5 DEF RecordEvent
<1>9. CASE PrerequisitePassed
  <2>1. \A i \in DOMAIN events' : HasErrorKind(events'[i].detail)
    BY <1>8, <1>9 DEF PrerequisitePassed
  <2>2. evalRet' = <<>> /\ UNCHANGED <<segRet, result>>
    BY <1>9 DEF PrerequisitePassed
  <2> QED BY <2>1, <2>2 DEF ErrorInv, SegmentErrorsWrapped, NeverException, HasErrorKind
<1>10. CASE PrerequisiteFailed
  <2> DEFINE outcome == GetOffValue(Caller.flag, PrerequisiteFailedReason(CallerPrereq.key))
  <2>1. \A i \in DOMAIN events' : HasErrorKind(events'[i].detail)
    BY <1>8, <1>10 DEF PrerequisiteFailed
  <2>2. HasErrorKind(outcome.detail)
    BY OutcomeKinds, PlainReasons
  <2>3. evalRet' = <<[detail |-> outcome.detail, ok |-> TRUE]>> /\ UNCHANGED <<segRet, result>>
    BY <1>10 DEF PrerequisiteFailed
  <2> HIDE DEF outcome
  <2> QED BY <2>1, <2>2, <2>3 DEF ErrorInv, SegmentErrorsWrapped, NeverException, HasErrorKind
<1>11. CASE ReturnResult
  <2>1. IsDefined(evalRet)
    BY <1>11 DEF ReturnResult
  <2> DEFINE detail == [evalRet[1].detail EXCEPT !.reason.bigSegmentsStatus = Scope.bigSegmentsStatus]
  <2>2. HasErrorKind(detail)
    BY <1>1, <2>1 DEF HasErrorKind, Detail, Reason
  <2>3. /\ result' = <<[detail |-> detail,
                        isExperiment |-> IsExperiment(Scope.flag, detail.reason)]>>
        /\ evalRet' = <<>> /\ UNCHANGED <<segRet, events>>
    BY <1>11 DEF ReturnResult
  <2> HIDE DEF detail
  <2> QED BY <2>2, <2>3 DEF ErrorInv, SegmentErrorsWrapped, NeverException, HasErrorKind
<1> QED BY <1>2, <1>3, <1>4, <1>5, <1>6, <1>7, <1>9, <1>10, <1>11 DEF FlagStep

\* A cycle cannot be found in the rules of a flag itself, whose chain is empty.
LEMMA CircleIsInSegment ==
  ASSUME TypeInv, SegmentNesting, SegmentCircular
  PROVE  Len(walks) # 1
<1>1. SUFFICES ASSUME Len(walks) = 1 PROVE FALSE
  OBVIOUS
<1>2. walks[1].segmentChain \in Seq(SegmentKeys) /\ Len(walks[1].segmentChain) = 0
  <2>1. walks \in Seq(WalkRecord) /\ 1 \in 1..Len(walks)
    BY <1>1 DEF TypeInv, TypeOK
  <2>2. walks[1] \in WalkRecord
    BY <2>1
  <2> QED BY <2>1, <2>2 DEF SegmentNesting, ChainsAreSegmentsBelow, WalkRecord
<1>3. walks # <<>>
  BY <1>1
<1>4. Walk = walks[1]
  BY <1>1, <1>3, WalkTypes
<1>5. ToSet(Walk.segmentChain) = {}
  BY <1>2, <1>4 DEF ToSet
<1> QED BY <1>5 DEF SegmentCircular

LEMMA RuleStepKinds == TypeInv /\ SegmentNesting /\ ErrorInv /\ RuleStep => ErrorInv'
<1> SUFFICES ASSUME TypeInv, SegmentNesting, ErrorInv, RuleStep PROVE ErrorInv'
  OBVIOUS
<1>1. CASE NoSuchSegment \/ EnterSegment
  BY <1>1 DEF NoSuchSegment, EnterSegment, ErrorInv, SegmentErrorsWrapped, NeverException
<1>2. CASE FlagRuleMatches
  <2> DEFINE reason == RuleMatchReason(Walk.rule - 1)
             outcome == GetValueForVariationOrRollout(Scope.flag, Rule.vr, reason)
  <2>1. /\ AtRule /\ Return(outcome, TRUE) /\ UNCHANGED <<segRet, events, result>>
    BY <1>2 DEF FlagRuleMatches
  <2>2. Walk.rule - 1 \in Int
    BY <2>1, WalkTypes DEF AtRule, InRules, Walking, WalkRecord
  <2>3. HasErrorKind(outcome.detail)
    <3>1. reason \in Reason /\ reason.errorKind = ""
      BY <2>2, ReasonTypes, PlainReasons
    <3> HIDE DEF reason
    <3> QED BY <3>1, RolloutKinds
  <2> HIDE DEF outcome
  <2> QED BY <2>1, <2>3, ReturnKinds DEF Return
<1>3. CASE Fallthrough
  BY <1>3, ReasonTypes, RolloutKinds, ReturnKinds, PlainReasons DEF Fallthrough, Return, ReasonKinds
<1>4. CASE SegmentRuleMatches
  <2> DEFINE r == SegmentRuleWeightMatches(Rule, context, Walk.src.key, Walk.src.salt)
  <2>1. r.err \in {NoError, "badAttrRef"}
    BY SegmentWeightTypes
  <2>2. UNCHANGED <<events, result>>
    BY <1>4 DEF SegmentRuleMatches
  <2>3. \/ r.err # NoError /\ RuleFails(r.err)
        \/ SegmentReturns(Matched(TRUE)) /\ UNCHANGED evalRet
        \/ UNCHANGED <<evalRet, segRet>>
    BY <1>4 DEF SegmentRuleMatches
  <2> HIDE DEF r
  <2>4. CASE r.err # NoError /\ RuleFails(r.err)
    BY <2>1, <2>2, <2>4, RuleFailsKinds DEF EvalErrors
  <2>5. CASE SegmentReturns(Matched(TRUE)) /\ UNCHANGED evalRet
    BY <2>2, <2>5 DEF SegmentReturns, Matched, ErrorInv, SegmentErrorsWrapped, NeverException
  <2>6. CASE UNCHANGED <<evalRet, segRet>>
    BY <2>2, <2>6 DEF ErrorInv, SegmentErrorsWrapped, NeverException
  <2> QED BY <2>3, <2>4, <2>5, <2>6
<1>5. CASE SegmentRulesExhausted
  BY <1>5 DEF SegmentRulesExhausted, SegmentReturns, Matched, ErrorInv, SegmentErrorsWrapped,
              NeverException
<1>6. CASE PlainClause
  <2>1. ClauseMatchesContextNoSegments(CurrentClause, context).err
          \in {NoError, "emptyAttrRef", "badAttrRef"}
    BY DEF ClauseMatchesContextNoSegments, Matched, Failed
  <2> QED BY <1>6, <2>1, ClauseReturnsKinds DEF PlainClause, EvalErrors
<1>7. CASE SegmentClauseExhausted
  BY <1>7, ClauseReturnsKinds DEF SegmentClauseExhausted, Matched
\* The segment in whose rules the cycle is found wraps the error.
<1>8. CASE SegmentCircular
  <2>1. ClauseReturns(Failed("circularSegment")) /\ UNCHANGED <<events, result>>
    BY <1>8 DEF SegmentCircular
  <2>2. RuleFails("circularSegment")
    BY <2>1 DEF ClauseReturns, Failed, NoError
  <2>3. Len(walks) # 1
    BY <1>8, CircleIsInSegment
  <2>4. SegmentReturns(Failed("malformedSegment")) /\ UNCHANGED evalRet
    BY <2>2, <2>3 DEF RuleFails
  <2>5. UNCHANGED <<events, result>>
    BY <2>1
  <2> QED BY <2>4, <2>5
          DEF SegmentReturns, Failed, ErrorInv, SegmentErrorsWrapped, NeverException
<1>9. CASE SegmentReturned
  <2>1. /\ IsDefined(segRet) /\ UNCHANGED <<events, result>>
        /\ \/ segRet[1].err # NoError /\ ClauseReturns(segRet[1])
           \/ ClauseReturns(Matched(~CurrentClause.negate))
           \/ segRet' = <<>> /\ UNCHANGED evalRet
    BY <1>9 DEF SegmentReturned
  <2>2. segRet[1].err \in {NoError, "malformedSegment"}
    <3>1. segRet \in Optional(MatchResult)
      BY DEF TypeInv, TypeOK
    <3>2. 1 \in DOMAIN segRet
      BY <2>1, <3>1, OptionalValues
    <3> QED BY <3>2 DEF ErrorInv, SegmentErrorsWrapped
  <2>3. CASE segRet[1].err # NoError /\ ClauseReturns(segRet[1])
    BY <2>1, <2>2, <2>3, ClauseReturnsKinds DEF EvalErrors
  <2>4. CASE ClauseReturns(Matched(~CurrentClause.negate))
    BY <2>1, <2>4, ClauseReturnsKinds DEF Matched
  <2>5. CASE segRet' = <<>> /\ UNCHANGED evalRet
    BY <2>1, <2>5 DEF ErrorInv, SegmentErrorsWrapped, NeverException
  <2> QED BY <2>1, <2>3, <2>4, <2>5
<1> QED BY <1>1, <1>2, <1>3, <1>4, <1>5, <1>6, <1>7, <1>8, <1>9 DEF RuleStep

LEMMA BigSegmentStepKinds == TypeInv /\ ErrorInv /\ BigSegmentStep => ErrorInv'
<1> SUFFICES ASSUME TypeInv, ErrorInv, BigSegmentStep PROVE ErrorInv'
  OBVIOUS
<1>1. UNCHANGED <<evalRet, events, result>>
  BY DEF BigSegmentStep, ListedSegment, BigSegmentWithoutGeneration, BigSegmentOfOtherKind,
         MembershipCached, BigSegmentsNotConfigured, QueryMembership
<1>2. \/ \E m : SegmentReturns(Matched(m))
      \/ UNCHANGED segRet
  BY DEF BigSegmentStep, ListedSegment, BigSegmentWithoutGeneration, BigSegmentOfOtherKind,
         MembershipCached, BigSegmentsNotConfigured, QueryMembership, Decided
<1> QED BY <1>1, <1>2
        DEF SegmentReturns, Matched, ErrorInv, SegmentErrorsWrapped, NeverException

LEMMA InitKinds == Init => ErrorInv /\ SegmentNesting
BY DEF Init, ErrorInv, SegmentErrorsWrapped, NeverException, SegmentNesting,
       ChainsAreSegmentsBelow, SegmentsDiffer

LEMMA NextKinds == TypeInv /\ SegmentNesting /\ ErrorInv /\ [Next]_vars => ErrorInv'
<1> SUFFICES ASSUME TypeInv, SegmentNesting, ErrorInv, [Next]_vars PROVE ErrorInv'
  OBVIOUS
<1>1. CASE Step
  BY <1>1, FlagStepKinds, RuleStepKinds, BigSegmentStepKinds DEF Step
<1>2. CASE RejectContext
  <2>1. result' = <<[detail |-> ErrorDetail("USER_NOT_SPECIFIED"), isExperiment |-> FALSE]>>
    BY <1>2 DEF RejectContext
  <2>2. ErrorDetail("USER_NOT_SPECIFIED").reason.errorKind # "EXCEPTION"
    BY DEF ErrorDetail, DefaultDetail, ErrorReason, NewReason
  <2>3. UNCHANGED <<evalRet, segRet, events>>
    BY <1>2 DEF RejectContext
  <2> QED BY <2>1, <2>2, <2>3 DEF ErrorInv, SegmentErrorsWrapped, NeverException
<1>3. CASE EvaluateSome \/ StoreUpdate \/ Returned \/ UNCHANGED vars
  <2>1. UNCHANGED <<evalRet, segRet, events, result>>
    BY <1>3 DEF EvaluateSome, Evaluate, StoreUpdate, UpdateFlag, UpdateSegment,
                UpdateBigSegments, Returned, vars, evaluation
  <2> QED BY <2>1 DEF ErrorInv, SegmentErrorsWrapped, NeverException
<1> QED BY <1>1, <1>2, <1>3 DEF Next

\* Whatever the stores do, no result and no event says EXCEPTION.
THEOREM ErrorsHaveKinds == Spec => []NeverException
<1>1. ErrorInv => NeverException
  BY DEF ErrorInv
<1> QED BY <1>1, InitKinds, NextKinds, InitTypes, NextTypes, SegmentNestingStep, PTL DEF Spec

------------------------------------------------------------------------------
(***************************************************************************)
(* Every outcome of a flag that evaluate() returns is sound: a variation   *)
(* of that flag or none, or the error that is logged.  It makes the        *)
(* callers give up if the error is one that concerns them all.             *)
(***************************************************************************)
PlainReason(reason) == reason.kind # "ERROR" /\ reason.errorKind = ""
PlainDetail(detail) == PlainReason(detail.reason)
MalformedDetail(detail) ==
  /\ detail.variation = <<>>
  /\ detail.reason.kind = "ERROR"
  /\ detail.reason.errorKind = "MALFORMED_FLAG"

SoundOutcome(flag, outcome, ok) ==
  /\ InRange(flag, outcome.detail)
  /\ outcome.err = NoError => ok /\ PlainDetail(outcome.detail)
  /\ outcome.err # NoError => outcome.err \in EvalErrors /\ MalformedDetail(outcome.detail)
  /\ ok => outcome.err \notin FatalErrors

\* An outcome that says nothing of prerequisites.
NoVerdict(outcome) ==
  outcome.err # "circularPrereq" /\ outcome.detail.reason.kind # "PREREQUISITE_FAILED"

LEMMA ErrorsAreSound ==
  /\ MalformedDetail(ErrorDetail("MALFORMED_FLAG"))
  /\ \A flag : \A err \in EvalErrors : SoundOutcome(flag, ErrorOutcome(err), FALSE)
  /\ \A flag : \A err \in EvalErrors \ FatalErrors : SoundOutcome(flag, ErrorOutcome(err), TRUE)
  /\ \A err \in EvalErrors \ {"circularPrereq"} : NoVerdict(ErrorOutcome(err))
<1>1. MalformedDetail(ErrorDetail("MALFORMED_FLAG"))
  BY DEF MalformedDetail, ErrorDetail, DefaultDetail, ErrorReason, NewReason
<1>2. \A err \in EvalErrors : ErrorOutcome(err).detail = ErrorDetail("MALFORMED_FLAG")
                              /\ ErrorOutcome(err).err = err
  BY DEF ErrorOutcome, ErrorKindForError
<1>3. \A err \in EvalErrors : err # NoError
  BY DEF EvalErrors, NoError
<1>4. \A flag, detail : MalformedDetail(detail) => InRange(flag, detail)
  BY DEF MalformedDetail, InRange, IsDefined
<1>5. \A err \in EvalErrors \ {"circularPrereq"} : NoVerdict(ErrorOutcome(err))
  BY <1>1, <1>2 DEF NoVerdict, MalformedDetail
<1> QED BY <1>1, <1>2, <1>3, <1>4, <1>5 DEF SoundOutcome

\* getVariation and getOffValue.
LEMMA VariationsAreSound ==
  ASSUME NEW flag, NEW reason, PlainReason(reason)
  PROVE  /\ \A index : SoundOutcome(flag, GetVariation(flag, index, reason), TRUE)
         /\ SoundOutcome(flag, GetOffValue(flag, reason), TRUE)
         /\ reason.kind # "PREREQUISITE_FAILED" =>
              /\ \A index : NoVerdict(GetVariation(flag, index, reason))
              /\ NoVerdict(GetOffValue(flag, reason))
<1>1. NoError \notin FatalErrors
  BY DEF NoError, FatalErrors
<1>2. "badVariation" \in EvalErrors \ FatalErrors
  BY DEF EvalErrors, FatalErrors
<1>3. ASSUME NEW index
      PROVE  SoundOutcome(flag, GetVariation(flag, index, reason), TRUE)
  <2>1. CASE index \in 0..(flag.variations - 1)
    <3>1. GetVariation(flag, index, reason) = Outcome(NewDetail(index, reason))
      BY <2>1 DEF GetVariation
    <3>2. InRange(flag, NewDetail(index, reason)) /\ PlainDetail(NewDetail(index, reason))
      BY <2>1 DEF InRange, NewDetail, PlainDetail
    <3> QED BY <1>1, <3>1, <3>2 DEF Outcome, SoundOutcome
  <2>2. CASE ~(index \in 0..(flag.variations - 1))
    BY <1>2, <2>2, ErrorsAreSound DEF GetVariation
  <2> QED BY <2>1, <2>2
<1>4. SoundOutcome(flag, Outcome(DefaultDetail(reason)), TRUE)
  BY <1>1 DEF Outcome, DefaultDetail, SoundOutcome, InRange, IsDefined, PlainDetail
<1>5. ASSUME reason.kind # "PREREQUISITE_FAILED"
      PROVE  /\ \A index : NoVerdict(GetVariation(flag, index, reason))
             /\ NoVerdict(Outcome(DefaultDetail(reason)))
  <2>1. /\ \A index : NoVerdict(Outcome(NewDetail(index, reason)))
        /\ NoVerdict(Outcome(DefaultDetail(reason)))
    BY <1>5 DEF NoVerdict, Outcome, NewDetail, DefaultDetail, NoError
  <2>2. NoVerdict(ErrorOutcome("badVariation"))
    <3>1. "badVariation" \in EvalErrors \ {"circularPrereq"}
      BY DEF EvalErrors
    <3> QED BY <3>1, ErrorsAreSound
  <2> QED BY <2>1, <2>2 DEF GetVariation
<1> QED BY <1>3, <1>4, <1>5 DEF GetOffValue

\* The reasons for variations.
LEMMA ReasonsArePlain ==
  /\ \A kind : kind # "ERROR" => PlainReason(NewReason(kind))
  /\ \A key : PlainReason(PrerequisiteFailedReason(key))
  /\ \A i : PlainReason(RuleMatchReason(i))
  /\ \A reason \in Reason : PlainReason(reason) => PlainReason(ReasonToExperimentReason(reason))
BY DEF PlainReason, NewReason, PrerequisiteFailedReason, RuleMatchReason,
       ReasonToExperimentReason, Reason

LEMMA RolloutsAreSound ==
  ASSUME NEW flag, NEW vr, NEW reason \in Reason, PlainReason(reason)
  PROVE  /\ SoundOutcome(flag, GetValueForVariationOrRollout(flag, vr, reason), TRUE)
         /\ reason.kind # "PREREQUISITE_FAILED" =>
              NoVerdict(GetValueForVariationOrRollout(flag, vr, reason))
<1> DEFINE r == VariationOrRolloutResult(vr, context, flag.key, flag.salt)
<1>1. r.err \in {NoError, "emptyRollout", "badAttrRef"}
  BY RolloutErrors
<1>2. {"emptyRollout", "badAttrRef"} \subseteq EvalErrors \ FatalErrors
  BY DEF EvalErrors, FatalErrors
<1>3. /\ PlainReason(ReasonToExperimentReason(reason))
      /\ ReasonToExperimentReason(reason).kind = reason.kind
  BY ReasonsArePlain DEF ReasonToExperimentReason, Reason
<1> HIDE DEF r
<1>4. CASE r.err # NoError
  <2>1. GetValueForVariationOrRollout(flag, vr, reason) = ErrorOutcome(r.err)
    BY <1>4 DEF GetValueForVariationOrRollout, r
  <2>2. r.err \in EvalErrors \ {"circularPrereq"}
    BY <1>1, <1>2, <1>4
  <2> QED BY <1>1, <1>2, <1>4, <2>1, <2>2, ErrorsAreSound
<1>5. CASE r.err = NoError
  <2>1. \E plain : /\ PlainReason(plain) /\ plain.kind = reason.kind
                   /\ GetValueForVariationOrRollout(flag, vr, reason)
                        = GetVariation(flag, r.variation, plain)
    BY <1>3, <1>5 DEF GetValueForVariationOrRollout, r
  <2> QED BY <2>1, VariationsAreSound
<1> QED BY <1>4, <1>5

------------------------------------------------------------------------------
(***************************************************************************)
(* The steps of evaluate() in the running scope: it goes on, or returns.   *)
(***************************************************************************)
Returns == \E outcome, ok : SoundOutcome(Scope.flag, outcome, ok) /\ Return(outcome, ok)
GoesOn == UNCHANGED <<evalRet, log>>
ReturnsNoVerdict ==
  \E outcome, ok :
    SoundOutcome(Scope.flag, outcome, ok) /\ NoVerdict(outcome) /\ Return(outcome, ok)
InnerStep ==
  /\ scopes # <<>> /\ evalRet = <<>>
  /\ UNCHANGED <<scopes, result, events, consults>>
  /\ Returns \/ GoesOn

LEMMA RuleFailsInside ==
  ASSUME NEW err \in EvalErrors \ {"circularPrereq"}, RuleFails(err)
  PROVE  ReturnsNoVerdict \/ GoesOn
<1>1. CASE Return(ErrorOutcome(err), FALSE)
  BY <1>1, ErrorsAreSound DEF ReturnsNoVerdict
<1>2. CASE UNCHANGED <<evalRet, log>>
  BY <1>2 DEF GoesOn
<1> QED BY <1>1, <1>2 DEF RuleFails

LEMMA ClauseReturnsInside ==
  ASSUME NEW r, r.err \in (EvalErrors \ {"circularPrereq"}) \cup {NoError}, ClauseReturns(r)
  PROVE  ReturnsNoVerdict \/ GoesOn
BY RuleFailsInside DEF ClauseReturns, GoesOn

LEMMA FlagStepsInside ==
  ASSUME TypeInv,
         FlagIsOff \/ PrerequisiteMissing \/ PrerequisiteCircular \/ TargetsMatch \/ StartRules
  PROVE  InnerStep
<1>1. scopes # <<>> /\ evalRet = <<>> /\ UNCHANGED <<scopes, result, events, consults>>
  BY DEF FlagIsOff, PrerequisiteMissing, PrerequisiteCircular, TargetsMatch, StartRules,
         AtPrerequisite, AfterPrerequisites, BeforeRules
<1>2. CASE FlagIsOff
  <2>1. Return(GetOffValue(Scope.flag, NewReason("OFF")), TRUE)
    BY <1>2 DEF FlagIsOff
  <2> QED BY <1>1, <2>1, ReasonsArePlain, VariationsAreSound DEF InnerStep, Returns
<1>3. CASE PrerequisiteMissing
  <2>1. Return(GetOffValue(Scope.flag, PrerequisiteFailedReason(Prereq.key)), TRUE)
    BY <1>3 DEF PrerequisiteMissing
  <2> QED BY <1>1, <2>1, ReasonsArePlain, VariationsAreSound DEF InnerStep, Returns
<1>4. CASE PrerequisiteCircular
  <2>1. Return(ErrorOutcome("circularPrereq"), FALSE)
    BY <1>4 DEF PrerequisiteCircular
  <2>2. "circularPrereq" \in EvalErrors
    BY DEF EvalErrors
  <2> QED BY <1>1, <2>1, <2>2, ErrorsAreSound DEF InnerStep, Returns
<1>5. CASE TargetsMatch
  <2>1. \E index : Return(GetVariation(Scope.flag, index, NewReason("TARGET_MATCH")), TRUE)
    BY <1>5 DEF TargetsMatch
  <2> QED BY <1>1, <2>1, ReasonsArePlain, VariationsAreSound DEF InnerStep, Returns
<1>6. CASE StartRules
  BY <1>1, <1>6 DEF StartRules, InnerStep, GoesOn
<1> QED BY <1>2, <1>3, <1>4, <1>5, <1>6

LEMMA RuleStepsInside ==
  ASSUME TypeInv, SegmentNesting, ErrorInv, RuleStep
  PROVE  InnerStep /\ (ReturnsNoVerdict \/ GoesOn)
<1>1. walks # <<>>
  BY DEF RuleStep, FlagRuleMatches, Fallthrough, SegmentRuleMatches, SegmentRulesExhausted,
         PlainClause, NoSuchSegment, SegmentCircular, EnterSegment, SegmentClauseExhausted,
         SegmentReturned, AtSegmentValue, AtSegmentClause, AtClause, AtRule, InRules, Walking,
         TypeInv, ControlOK, IsDefined
<1>2. /\ scopes # <<>> /\ evalRet = <<>>
      /\ UNCHANGED <<scopes, result, events, consults>>
  BY <1>1 DEF TypeInv, ControlOK, RuleStep, FlagRuleMatches, Fallthrough, SegmentRuleMatches,
         SegmentRulesExhausted, PlainClause, NoSuchSegment, SegmentCircular, EnterSegment,
         SegmentClauseExhausted, SegmentReturned
<1>3. SUFFICES ReturnsNoVerdict \/ GoesOn
  BY <1>2 DEF InnerStep, Returns, ReturnsNoVerdict
<1>4. CASE FlagRuleMatches
  <2> DEFINE reason == RuleMatchReason(Walk.rule - 1)
  <2>1. Return(GetValueForVariationOrRollout(Scope.flag, Rule.vr, reason), TRUE)
    BY <1>4 DEF FlagRuleMatches
  <2>2. Walk.rule - 1 \in Int
    BY <1>1, WalkTypes DEF WalkRecord
  <2>3. reason \in Reason /\ PlainReason(reason) /\ reason.kind # "PREREQUISITE_FAILED"
    BY <2>2, ReasonTypes, ReasonsArePlain DEF RuleMatchReason, NewReason
  <2> HIDE DEF reason
  <2> QED BY <2>1, <2>3, RolloutsAreSound DEF ReturnsNoVerdict
<1>5. CASE Fallthrough
  <2> DEFINE reason == NewReason("FALLTHROUGH")
  <2>1. Return(GetValueForVariationOrRollout(Scope.flag, Scope.flag.fallthrough, reason), TRUE)
    BY <1>5 DEF Fallthrough
  <2>2. reason \in Reason /\ PlainReason(reason) /\ reason.kind # "PREREQUISITE_FAILED"
    BY ReasonTypes, ReasonsArePlain DEF ReasonKinds, NewReason
  <2> HIDE DEF reason
  <2> QED BY <2>1, <2>2, RolloutsAreSound DEF ReturnsNoVerdict
<1>6. CASE SegmentRuleMatches
  <2> DEFINE r == SegmentRuleWeightMatches(Rule, context, Walk.src.key, Walk.src.salt)
  <2>1. r.err \in {NoError, "badAttrRef"}
    BY SegmentWeightTypes
  <2>2. (r.err # NoError /\ RuleFails(r.err)) \/ GoesOn
    BY <1>6 DEF SegmentRuleMatches, GoesOn
  <2>3. "badAttrRef" \in EvalErrors \ {"circularPrereq"}
    BY DEF EvalErrors
  <2> HIDE DEF r
  <2> QED BY <2>1, <2>2, <2>3, RuleFailsInside
<1>7. CASE PlainClause
  <2> DEFINE r == ClauseMatchesContextNoSegments(CurrentClause, context)
  <2>1. r.err \in {NoError, "emptyAttrRef", "badAttrRef"}
    BY ClauseTypes
  <2>2. ClauseReturns(r)
    BY <1>7 DEF PlainClause
  <2>3. {"emptyAttrRef", "badAttrRef"} \subseteq EvalErrors \ {"circularPrereq"}
    BY DEF EvalErrors
  <2> HIDE DEF r
  <2> QED BY <2>1, <2>2, <2>3, ClauseReturnsInside
<1>8. CASE SegmentCircular
  <2>1. RuleFails("circularSegment")
    BY <1>8 DEF SegmentCircular, ClauseReturns, Failed, NoError
  <2> QED BY <1>8, <2>1, CircleIsInSegment DEF RuleFails, GoesOn
<1>9. CASE SegmentClauseExhausted
  BY <1>9, ClauseReturnsInside DEF SegmentClauseExhausted, Matched
<1>10. CASE SegmentReturned
  <2>1. /\ IsDefined(segRet)
        /\ \/ segRet[1].err # NoError /\ ClauseReturns(segRet[1])
           \/ ClauseReturns(Matched(~CurrentClause.negate))
           \/ GoesOn
    BY <1>10 DEF SegmentReturned, GoesOn
  <2>2. segRet[1].err \in {NoError, "malformedSegment"}
    <3>1. segRet \in Optional(MatchResult)
      BY DEF TypeInv, TypeOK
    <3>2. 1 \in DOMAIN segRet
      BY <2>1, <3>1, OptionalValues
    <3> QED BY <3>2 DEF ErrorInv, SegmentErrorsWrapped
  <2>3. "malformedSegment" \in EvalErrors \ {"circularPrereq"}
    BY DEF EvalErrors
  <2>4. Matched(~CurrentClause.negate).err = NoError
    BY DEF Matched
  <2> QED BY <2>1, <2>2, <2>3, <2>4, ClauseReturnsInside
<1>11. CASE SegmentRulesExhausted \/ NoSuchSegment \/ EnterSegment
  BY <1>11 DEF SegmentRulesExhausted, NoSuchSegment, EnterSegment, GoesOn
<1> QED BY <1>4, <1>5, <1>6, <1>7, <1>8, <1>9, <1>10, <1>11 DEF RuleStep

\* Trying a big segment: nothing of what is returned changes.
LEMMA BigSegmentStepsInside ==
  ASSUME TypeInv, BigSegmentStep
  PROVE  /\ scopes # <<>> /\ evalRet = <<>>
         /\ UNCHANGED <<evalRet, log, events, result>>
BY DEF TypeInv, ControlOK, BigSegmentStep, ListedSegment, BigSegmentWithoutGeneration,
       BigSegmentOfOtherKind, MembershipCached, BigSegmentsNotConfigured, QueryMembership,
       AtBigSegment, Entering, Walking

\* An off flag and a target match say nothing of prerequisites.
LEMMA PlainFlagSteps ==
  ASSUME FlagIsOff \/ TargetsMatch \/ StartRules
  PROVE  ReturnsNoVerdict \/ GoesOn
<1>1. CASE FlagIsOff
  <2>1. Return(GetOffValue(Scope.flag, NewReason("OFF")), TRUE)
    BY <1>1 DEF FlagIsOff
  <2>2. NewReason("OFF").kind # "PREREQUISITE_FAILED"
    BY DEF NewReason
  <2> QED BY <2>1, <2>2, ReasonsArePlain, VariationsAreSound DEF ReturnsNoVerdict
<1>2. CASE TargetsMatch
  <2>1. \E index : Return(GetVariation(Scope.flag, index, NewReason("TARGET_MATCH")), TRUE)
    BY <1>2 DEF TargetsMatch
  <2>2. NewReason("TARGET_MATCH").kind # "PREREQUISITE_FAILED"
    BY DEF NewReason
  <2> QED BY <2>1, <2>2, ReasonsArePlain, VariationsAreSound DEF ReturnsNoVerdict
<1>3. CASE StartRules
  BY <1>3 DEF StartRules, GoesOn
<1> QED BY <1>1, <1>2, <1>3

\* Every step is one of these.
LEMMA StepCases ==
  ASSUME TypeInv, SegmentNesting, ErrorInv, Step
  PROVE  \/ InnerStep \/ BigSegmentStep \/ EvaluatePrerequisite
         \/ PrerequisiteInvalid \/ PrerequisitePassed \/ PrerequisiteFailed \/ ReturnResult
BY FlagStepsInside, RuleStepsInside DEF Step, FlagStep

------------------------------------------------------------------------------
(***************************************************************************)
(* The answers.  What is on its way back to a caller is sound for the      *)
(* running flag, and an error that concerns every caller makes them give   *)
(* up until it is the result.                                              *)
(***************************************************************************)
SoundDetail(detail) == PlainDetail(detail) \/ (MalformedDetail(detail) /\ log # <<>>)
ReturnIsSound ==
  IsDefined(evalRet) =>
    /\ InRange(Scope.flag, evalRet[1].detail)
    /\ SoundDetail(evalRet[1].detail)
    /\ ~evalRet[1].ok => MalformedDetail(evalRet[1].detail)
ResultIsSound ==
  IsDefined(result) =>
    /\ scopes = <<>>
    /\ SoundDetail(result[1].detail) \/ result[1].detail = ErrorDetail("USER_NOT_SPECIFIED")
EventsAreSound ==
  \A i \in 1..Len(events) : InRange(events[i].prerequisiteFlag, events[i].detail)
FatalErrorsEnd ==
  Logged(FatalErrors) => GivingUp \/ (IsDefined(result) /\ MalformedDetail(result[1].detail))
AnswerInv == ReturnIsSound /\ ResultIsSound /\ EventsAreSound /\ FatalErrorsEnd

\* One more message in the log.
LEMMA OneMoreMessage ==
  ASSUME TypeInv, NEW flag, NEW err, log' = Append(log, [flag |-> flag, err |-> err])
  PROVE  log' # <<>> /\ (Logged(FatalErrors)' => Logged(FatalErrors) \/ err \in FatalErrors)
<1> DEFINE message == [flag |-> flag, err |-> err]
<1>1. log \in Seq(LogRecord) /\ log' = Append(log, message) /\ message.err = err
  BY DEF TypeInv, TypeOK, LogRecord
<1> HIDE DEF message
<1>2. /\ log' # <<>>
      /\ \A i \in DOMAIN log' : (i \in DOMAIN log /\ log'[i] = log[i]) \/ log'[i] = message
  BY <1>1
<1> QED BY <1>1, <1>2 DEF Logged

\* evaluate() returns a sound outcome for the running flag, whichever that is afterwards.
LEMMA SoundReturn ==
  ASSUME TypeInv, AnswerInv, NEW flag, NEW outcome, NEW ok, NEW key,
         SoundOutcome(flag, outcome, ok), Scope'.flag = flag,
         scopes # <<>>, scopes' # <<>>, ~GivingUp,
         evalRet' = <<[detail |-> outcome.detail, ok |-> ok]>>,
         log' = IF outcome.err = NoError THEN log
                ELSE Append(log, [flag |-> key, err |-> outcome.err]),
         UNCHANGED result
  PROVE  ReturnIsSound' /\ ResultIsSound' /\ FatalErrorsEnd'
<1>1. /\ evalRet'[1].detail = outcome.detail /\ evalRet'[1].ok = ok /\ IsDefined(evalRet')
  BY DEF IsDefined
<1>2. ~IsDefined(result) /\ ~IsDefined(result')
  BY DEF AnswerInv, ResultIsSound, IsDefined
<1>3. outcome.err # NoError =>
        log' # <<>> /\ (Logged(FatalErrors)' => Logged(FatalErrors) \/ outcome.err \in FatalErrors)
  BY OneMoreMessage
<1>4. outcome.err = NoError => (Logged(FatalErrors)' => Logged(FatalErrors))
  BY DEF Logged
<1>5. ~Logged(FatalErrors)
  BY <1>2 DEF AnswerInv, FatalErrorsEnd
<1>6. ReturnIsSound'
  BY <1>1, <1>3 DEF ReturnIsSound, SoundOutcome, SoundDetail
<1>7. FatalErrorsEnd'
  BY <1>1, <1>3, <1>4, <1>5 DEF FatalErrorsEnd, SoundOutcome, GivingUp
<1> QED BY <1>2, <1>6, <1>7 DEF ResultIsSound

\* The event of a prerequisite is sound.
LEMMA SoundEvent ==
  ASSUME TypeInv, AnswerInv, RecordEvent, IsDefined(evalRet)
  PROVE  EventsAreSound'
<1>1. events \in Seq(EventRecord) /\ Len(events) \in Nat
  BY DEF TypeInv, TypeOK
<1>2. CASE events' = events
  BY <1>2 DEF AnswerInv, EventsAreSound
<1>3. CASE events' = Append(events, PrerequisiteFlagEvent)
  <2> DEFINE event == PrerequisiteFlagEvent
  <2>1. InRange(event.prerequisiteFlag, event.detail)
    BY DEF PrerequisiteFlagEvent, AnswerInv, ReturnIsSound
  <2> HIDE DEF event
  <2>2. \A i \in 1..Len(events') : (i \in 1..Len(events) /\ events'[i] = events[i]) \/ events'[i] = event
    BY <1>1, <1>3 DEF event
  <2> QED BY <2>1, <2>2 DEF AnswerInv, EventsAreSound
<1> QED BY <1>2, <1>3 DEF RecordEvent

\* The flag of the scope that a prerequisite gives way to.
LEMMA PoppedFlag ==
  ASSUME TypeInv, PrerequisiteInvalid \/ PrerequisitePassed \/ PrerequisiteFailed
  PROVE  /\ scopes # <<>> /\ scopes' # <<>>
         /\ Scope'.flag = Caller.flag
<1>1. PICK step \in {0, 1} : PrerequisiteReturns /\ scopes' = AfterPop(step)
  BY DEF PrerequisiteInvalid, PrerequisitePassed, PrerequisiteFailed
<1>2. Len(scopes) \in Nat \ {0, 1} /\ Caller \in ScopeRecord /\ scopes # <<>>
  BY <1>1, ScopeTypes, EmptySeq DEF PrerequisiteReturns, TypeInv, TypeOK
<1>3. /\ scopes' \in Seq(ScopeRecord) /\ Len(scopes') = Len(scopes) - 1
      /\ scopes'[Len(scopes) - 1] =
           [Caller EXCEPT !.bigSegmentsStatus = MergedStatus, !.prereq = @ + step]
  BY <1>1, PopTypes DEF PrerequisiteReturns
<1>4. scopes'[Len(scopes')].flag = Caller.flag
  BY <1>2, <1>3 DEF ScopeRecord
<1>5. scopes' # <<>>
  BY <1>2, <1>3
<1> QED BY <1>2, <1>4, <1>5 DEF Scope, Last

LEMMA AnswerStep == TypeInv /\ SegmentNesting /\ ErrorInv /\ AnswerInv /\ [Next]_vars => AnswerInv'
<1> SUFFICES ASSUME TypeInv, SegmentNesting, ErrorInv, AnswerInv, [Next]_vars
             PROVE  AnswerInv'
  OBVIOUS
<1>1. ASSUME UNCHANGED <<evalRet, log, events, result>>,
             evalRet = <<>>, scopes' = <<>> \/ result = <<>>
      PROVE  AnswerInv'
  BY <1>1 DEF AnswerInv, ReturnIsSound, ResultIsSound, EventsAreSound, FatalErrorsEnd,
              SoundDetail, GivingUp, Logged, IsDefined
<1>2. evalRet # <<>> => scopes # <<>>
  BY DEF TypeInv, ControlOK
<1>3. scopes # <<>> => result = <<>>
  BY DEF AnswerInv, ResultIsSound, IsDefined
<1>4. CASE InnerStep
  <2>1. /\ scopes # <<>> /\ evalRet = <<>> /\ result = <<>> /\ Scope' = Scope
        /\ UNCHANGED <<scopes, result, events>>
    BY <1>3, <1>4 DEF InnerStep, Scope
  <2>2. CASE GoesOn
    BY <1>1, <2>1, <2>2 DEF GoesOn
  <2>3. CASE Returns
    <3>1. PICK outcome, ok : SoundOutcome(Scope.flag, outcome, ok) /\ Return(outcome, ok)
      BY <2>3 DEF Returns
    <3>2. ~GivingUp
      BY <2>1 DEF GivingUp, IsDefined
    <3>3. ReturnIsSound' /\ ResultIsSound' /\ FatalErrorsEnd'
      BY <2>1, <3>1, <3>2, SoundReturn DEF Return
    <3> QED BY <2>1, <3>3 DEF AnswerInv, EventsAreSound
  <2> QED BY <1>4, <2>2, <2>3 DEF InnerStep
<1>5. CASE BigSegmentStep
  BY <1>1, <1>3, <1>5, BigSegmentStepsInside
<1>6. CASE EvaluatePrerequisite
  BY <1>1, <1>3, <1>6 DEF EvaluatePrerequisite, AtPrerequisite, BeforeRules
<1>7. CASE PrerequisiteInvalid
  <2>1. /\ evalRet' = <<[detail |-> ErrorDetail("MALFORMED_FLAG"), ok |-> FALSE]>>
        /\ IsDefined(evalRet) /\ ~evalRet[1].ok
        /\ UNCHANGED <<log, events, result>>
    BY <1>7 DEF PrerequisiteInvalid, PrerequisiteReturns, PrerequisiteValid
  <2>2. MalformedDetail(evalRet'[1].detail) /\ ~evalRet'[1].ok /\ IsDefined(evalRet')
    BY <2>1, ErrorsAreSound DEF IsDefined
  <2>3. log # <<>> /\ result = <<>>
    BY <1>2, <1>3, <2>1
       DEF AnswerInv, ReturnIsSound, SoundDetail, PlainDetail, PlainReason, MalformedDetail, IsDefined
  <2> QED BY <2>1, <2>2, <2>3
          DEF AnswerInv, ReturnIsSound, ResultIsSound, EventsAreSound, FatalErrorsEnd,
              SoundDetail, GivingUp, InRange, MalformedDetail, IsDefined
<1>8. CASE PrerequisitePassed
  <2>1. /\ IsDefined(evalRet) /\ evalRet[1].ok /\ RecordEvent
        /\ evalRet' = <<>> /\ UNCHANGED <<log, result>>
    BY <1>8 DEF PrerequisitePassed, PrerequisiteReturns, PrerequisiteValid
  <2>2. EventsAreSound' /\ result = <<>>
    BY <1>2, <1>3, <2>1, SoundEvent DEF IsDefined
  <2>3. ~Logged(FatalErrors)
    BY <2>1, <2>2 DEF AnswerInv, FatalErrorsEnd, GivingUp, IsDefined
  <2> QED BY <2>1, <2>2, <2>3
          DEF AnswerInv, ReturnIsSound, ResultIsSound, FatalErrorsEnd, Logged, IsDefined
<1>9. CASE PrerequisiteFailed
  <2> DEFINE outcome == GetOffValue(Caller.flag, PrerequisiteFailedReason(CallerPrereq.key))
  <2>1. /\ IsDefined(evalRet) /\ evalRet[1].ok /\ RecordEvent
        /\ evalRet' = <<[detail |-> outcome.detail, ok |-> TRUE]>>
        /\ log' = IF outcome.err = NoError THEN log
                  ELSE Append(log, [flag |-> Caller.flag.key, err |-> outcome.err])
        /\ UNCHANGED result
    BY <1>9 DEF PrerequisiteFailed, PrerequisiteReturns, PrerequisiteValid
  <2>2. SoundOutcome(Caller.flag, outcome, TRUE)
    BY ReasonsArePlain, VariationsAreSound
  <2>3. scopes # <<>> /\ scopes' # <<>> /\ Scope'.flag = Caller.flag
    BY <1>9, PoppedFlag
  <2>4. ~GivingUp
    BY <2>1 DEF GivingUp
  <2> HIDE DEF outcome
  <2>5. ReturnIsSound' /\ ResultIsSound' /\ FatalErrorsEnd'
    BY <2>1, <2>2, <2>3, <2>4, SoundReturn
  <2> QED BY <2>1, <2>5, SoundEvent DEF AnswerInv
<1>10. CASE ReturnResult
  <2> DEFINE detail == [evalRet[1].detail EXCEPT !.reason.bigSegmentsStatus = Scope.bigSegmentsStatus]
  <2>1. /\ IsDefined(evalRet) /\ evalRet' = <<>> /\ scopes' = <<>>
        /\ result' = <<[detail |-> detail,
                        isExperiment |-> IsExperiment(Scope.flag, detail.reason)]>>
        /\ UNCHANGED <<events, log>>
    BY <1>10 DEF ReturnResult
  <2>2. evalRet[1].detail \in Detail
    BY <2>1, OptionalValues DEF TypeInv, TypeOK, EvalReturn
  <2>3. /\ PlainDetail(evalRet[1].detail) => PlainDetail(detail)
        /\ MalformedDetail(evalRet[1].detail) => MalformedDetail(detail)
    BY <2>2 DEF PlainDetail, PlainReason, MalformedDetail, Detail, Reason
  <2> HIDE DEF detail
  <2>4. result'[1].detail = detail /\ IsDefined(result')
    BY <2>1 DEF IsDefined
  <2>5. ResultIsSound'
    BY <2>1, <2>3, <2>4 DEF AnswerInv, ReturnIsSound, ResultIsSound, SoundDetail
  <2>6. FatalErrorsEnd'
    BY <1>2, <1>3, <2>1, <2>3, <2>4
       DEF AnswerInv, ReturnIsSound, FatalErrorsEnd, Logged, GivingUp, IsDefined
  <2> QED BY <2>1, <2>5, <2>6 DEF AnswerInv, ReturnIsSound, EventsAreSound, IsDefined
<1>11. CASE RejectContext
  <2>1. /\ scopes = <<>> /\ result = <<>> /\ UNCHANGED <<scopes, evalRet, events, log>>
        /\ result' = <<[detail |-> ErrorDetail("USER_NOT_SPECIFIED"), isExperiment |-> FALSE]>>
    BY <1>11 DEF RejectContext
  <2>2. evalRet = <<>> /\ ~Logged(FatalErrors)
    BY <1>2, <2>1 DEF AnswerInv, FatalErrorsEnd, GivingUp, IsDefined
  <2> QED BY <2>1, <2>2 DEF AnswerInv, ReturnIsSound, ResultIsSound, EventsAreSound,
                           FatalErrorsEnd, Logged, IsDefined
<1>12. CASE EvaluateSome
  BY <1>1, <1>2, <1>12 DEF EvaluateSome, Evaluate
<1>13. CASE StoreUpdate \/ Returned \/ UNCHANGED vars
  <2>1. UNCHANGED <<scopes, evalRet, log, events, result>>
    BY <1>13 DEF StoreUpdate, UpdateFlag, UpdateSegment, UpdateBigSegments, Returned, vars, evaluation
  <2> QED BY <2>1 DEF AnswerInv, ReturnIsSound, ResultIsSound, EventsAreSound, FatalErrorsEnd,
                      SoundDetail, GivingUp, Logged, Scope
<1> QED BY <1>4, <1>5, <1>6, <1>7, <1>8, <1>9, <1>10, <1>11, <1>12, <1>13, StepCases DEF Next

LEMMA InitAnswers == Init => AnswerInv
BY DEF Init, AnswerInv, ReturnIsSound, ResultIsSound, EventsAreSound, FatalErrorsEnd, Logged,
       IsDefined

\* Everything that these proofs know of a state.
EvaluationInv == TypeInv /\ SegmentNesting /\ ErrorInv /\ AnswerInv

LEMMA EvaluationKeepsInv == Spec => []EvaluationInv
<1>1. Init => EvaluationInv
  BY InitTypes, InitKinds, InitAnswers DEF EvaluationInv
<1>2. EvaluationInv /\ [Next]_vars => EvaluationInv'
  BY NextTypes, SegmentNestingStep, NextKinds, AnswerStep DEF EvaluationInv
<1> QED BY <1>1, <1>2, PTL DEF Spec

------------------------------------------------------------------------------
\* A cycle, a malformed clause or a malformed segment, at whatever depth of prerequisites and
\* segments, is what the caller of Evaluate is told.
THEOREM FatalErrorsReachCaller == Spec => []FatalErrorReachesCaller
<1>1. EvaluationInv => FatalErrorReachesCaller
  <2> SUFFICES ASSUME EvaluationInv PROVE FatalErrorReachesCaller
    OBVIOUS
  <2>1. IsDefined(result) => ~GivingUp
    BY DEF EvaluationInv, AnswerInv, ResultIsSound, TypeInv, ControlOK, GivingUp, IsDefined
  <2> QED BY <2>1 DEF EvaluationInv, AnswerInv, FatalErrorsEnd, FatalErrorReachesCaller,
                      MalformedDetail
<1> QED BY <1>1, EvaluationKeepsInv, PTL

\* No flag fails without a message.
THEOREM ErrorsAreLogged == Spec => []ErrorIsLogged
<1>1. EvaluationInv => ErrorIsLogged
  <2>1. ErrorDetail("USER_NOT_SPECIFIED").reason.errorKind = "USER_NOT_SPECIFIED"
    BY DEF ErrorDetail, DefaultDetail, ErrorReason, NewReason
  <2> QED BY <2>1 DEF EvaluationInv, AnswerInv, ResultIsSound, SoundDetail, PlainDetail,
                      PlainReason, ErrorIsLogged
<1> QED BY <1>1, EvaluationKeepsInv, PTL

\* Whatever index the data asks for, the variation that comes back exists in the flag.
THEOREM VariationsExist == Spec => []VariationExists
<1>1. EvaluationInv => VariationExists
  <2> SUFFICES ASSUME EvaluationInv PROVE VariationExists
    OBVIOUS
  <2>1. events \in Seq(EventRecord) /\ evalRet \in Optional(EvalReturn)
    BY DEF EvaluationInv, TypeInv, TypeOK, EvalReturn
  <2>2. DOMAIN events = 1..Len(events)
    BY <2>1, LenProperties
  <2>3. \A i \in DOMAIN evalRet : IsDefined(evalRet) /\ i = 1
    BY <2>1, OptionalValues DEF IsDefined
  <2> QED BY <2>2, <2>3 DEF EvaluationInv, AnswerInv, ReturnIsSound, EventsAreSound, VariationExists
<1> QED BY <1>1, EvaluationKeepsInv, PTL

\* Once evaluate() has failed for good, nothing happens any more but returning.
THEOREM GivingUpIsFinal == Spec => GivesUpAtOnce
<1>1. EvaluationInv /\ [Next]_vars => [GivingUp => UNCHANGED <<events, consults, log>>]_vars
  <2> SUFFICES ASSUME EvaluationInv, Next, GivingUp PROVE UNCHANGED <<events, consults, log>>
    BY DEF vars
  <2>1. evalRet # <<>> /\ ~evalRet[1].ok /\ scopes # <<>>
    BY DEF GivingUp, IsDefined, EvaluationInv, TypeInv, ControlOK
  <2>2. CASE Step
    <3>1. ~InnerStep /\ ~BigSegmentStep /\ ~EvaluatePrerequisite
      BY <2>1, BigSegmentStepsInside
         DEF EvaluationInv, InnerStep, EvaluatePrerequisite, AtPrerequisite, BeforeRules
    <3>2. ~PrerequisitePassed /\ ~PrerequisiteFailed
      BY <2>1 DEF PrerequisitePassed, PrerequisiteFailed, PrerequisiteValid
    <3> QED BY <2>2, <3>1, <3>2, StepCases DEF EvaluationInv, PrerequisiteInvalid, ReturnResult
  <2>3. CASE ~Step
    BY <2>1, <2>3 DEF Next, RejectContext, EvaluateSome, Evaluate, StoreUpdate, UpdateFlag,
                      UpdateSegment, UpdateBigSegments, Returned, vars, evaluation
  <2> QED BY <2>2, <2>3
<1> QED BY <1>1, EvaluationKeepsInv, PTL DEF Spec, GivesUpAtOnce

------------------------------------------------------------------------------
(***************************************************************************)
(* How steps change the stack of scopes.                                   *)
(***************************************************************************)
\* A prerequisite adds a scope that begins as a copy of the one that was running.
LEMMA ScopePushed ==
  ASSUME TypeInv, EvaluatePrerequisite
  PROVE  /\ Len(scopes) \in Nat \ {0}
         /\ Len(scopes') = Len(scopes) + 1
         /\ \A i \in 1..Len(scopes) : scopes'[i] = scopes[i]
         /\ scopes'[Len(scopes')].bigSegmentsMemberships =
              scopes[Len(scopes)].bigSegmentsMemberships
         /\ scopes'[Len(scopes')].bigSegmentsStatus = scopes[Len(scopes)].bigSegmentsStatus
<1>1. /\ scopes \in Seq(ScopeRecord) /\ Len(scopes) \in Nat \ {0}
      /\ Scope = scopes[Len(scopes)]
  BY ScopeTypes DEF TypeInv, TypeOK, EvaluatePrerequisite, AtPrerequisite, BeforeRules
<1>2. PICK flag : scopes' = Append(scopes, NewScope(flag, ExtendedChain,
                              Scope.bigSegmentsStatus, Scope.bigSegmentsMemberships))
  BY DEF EvaluatePrerequisite
<1> DEFINE scope == NewScope(flag, ExtendedChain,
                             Scope.bigSegmentsStatus, Scope.bigSegmentsMemberships)
<1>3. /\ scope.bigSegmentsMemberships = Scope.bigSegmentsMemberships
      /\ scope.bigSegmentsStatus = Scope.bigSegmentsStatus
  BY DEF NewScope
<1> HIDE DEF scope
<1>4. /\ Len(scopes') = Len(scopes) + 1
      /\ \A i \in 1..Len(scopes) : scopes'[i] = scopes[i]
      /\ scopes'[Len(scopes) + 1] = scope
  BY <1>1, <1>2 DEF scope
<1> QED BY <1>1, <1>3, <1>4

\* When a prerequisite is done, its caller keeps its own memberships.
LEMMA ScopePopped ==
  ASSUME TypeInv, PrerequisiteInvalid \/ PrerequisitePassed \/ PrerequisiteFailed
  PROVE  /\ Len(scopes) \in Nat \ {0, 1}
         /\ Len(scopes') = Len(scopes) - 1
         /\ \A i \in 1..(Len(scopes) - 2) : scopes'[i] = scopes[i]
         /\ scopes'[Len(scopes')].bigSegmentsMemberships =
              scopes[Len(scopes')].bigSegmentsMemberships
         /\ scopes'[Len(scopes')].bigSegmentsStatus = MergedStatus
<1>1. PICK step \in {0, 1} : PrerequisiteReturns /\ scopes' = AfterPop(step)
  BY DEF PrerequisiteInvalid, PrerequisitePassed, PrerequisiteFailed
<1>2. Len(scopes) \in Nat \ {0, 1} /\ Caller \in ScopeRecord /\ Caller = scopes[Len(scopes) - 1]
  BY <1>1, ScopeTypes, EmptySeq DEF PrerequisiteReturns, TypeInv, TypeOK, Caller
<1>3. /\ Len(scopes') = Len(scopes) - 1
      /\ \A i \in 1..(Len(scopes) - 2) : scopes'[i] = scopes[i]
      /\ scopes'[Len(scopes) - 1] =
           [Caller EXCEPT !.bigSegmentsStatus = MergedStatus, !.prereq = @ + step]
  BY <1>1, PopTypes DEF PrerequisiteReturns
<1>4. /\ scopes'[Len(scopes) - 1].bigSegmentsMemberships = Caller.bigSegmentsMemberships
      /\ scopes'[Len(scopes) - 1].bigSegmentsStatus = MergedStatus
  BY <1>2, <1>3 DEF ScopeRecord
<1> QED BY <1>2, <1>3, <1>4

\* Trying a big segment changes the running scope only.
LEMMA ScopeReplaced ==
  ASSUME TypeInv, BigSegmentStep
  PROVE  /\ Len(scopes) \in Nat \ {0}
         /\ Len(scopes') = Len(scopes)
         /\ \A i \in 1..(Len(scopes) - 1) : scopes'[i] = scopes[i]
<1>1. scopes # <<>>
  BY DEF BigSegmentStep, ListedSegment, BigSegmentWithoutGeneration, BigSegmentOfOtherKind,
         MembershipCached, BigSegmentsNotConfigured, QueryMembership, AtBigSegment, Entering,
         Walking, TypeInv, ControlOK
<1>2. scopes \in Seq(ScopeRecord) /\ Len(scopes) \in Nat \ {0}
  BY <1>1, ScopeTypes DEF TypeInv, TypeOK
<1>3. CASE UNCHANGED scopes
  BY <1>2, <1>3
<1>4. CASE \E status : scopes' = SetStatus(status)
  BY <1>2, <1>4 DEF SetStatus
<1>5. CASE \E status, memberships :
             scopes' = [SetStatus(status) EXCEPT ![Len(scopes)].bigSegmentsMemberships = memberships]
  BY <1>2, <1>5 DEF SetStatus
<1> QED BY <1>3, <1>4, <1>5
        DEF BigSegmentStep, ListedSegment, BigSegmentWithoutGeneration, BigSegmentOfOtherKind,
            MembershipCached, BigSegmentsNotConfigured, QueryMembership

\* The steps that leave the scopes alone.
LEMMA ScopesStay ==
  ASSUME \/ FlagIsOff \/ PrerequisiteMissing \/ PrerequisiteCircular \/ TargetsMatch \/ StartRules
         \/ RuleStep \/ RejectContext \/ StoreUpdate \/ Returned \/ UNCHANGED vars
  PROVE  UNCHANGED <<scopes, consults>>
BY DEF FlagIsOff, PrerequisiteMissing, PrerequisiteCircular, TargetsMatch, StartRules,
       RuleStep, FlagRuleMatches, Fallthrough, SegmentRuleMatches, SegmentRulesExhausted,
       PlainClause, NoSuchSegment, SegmentCircular, EnterSegment, SegmentClauseExhausted,
       SegmentReturned, RejectContext, StoreUpdate, UpdateFlag, UpdateSegment, UpdateBigSegments,
       Returned, vars, evaluation

------------------------------------------------------------------------------
(***************************************************************************)
(* No two scopes share a map of memberships.  A scope makes its map when   *)
(* its rules first need one, and it starts prerequisites only before its   *)
(* rules: until then, the running scope has no map to share.               *)
(***************************************************************************)
RunningScopeIsFresh ==
  scopes # <<>> /\ walks = <<>> /\ evalRet = <<>> =>
    scopes[Len(scopes)].bigSegmentsMemberships = NoMemberships
MembershipInv == NoSharedMemberships /\ RunningScopeIsFresh

\* Once its rules have started, the running scope is on its way to a result.
LEMMA RulesGoOn ==
  ASSUME TypeInv, RuleStep \/ BigSegmentStep
  PROVE  walks' # <<>> \/ evalRet' # <<>>
<1>1. walks # <<>>
  BY DEF RuleStep, FlagRuleMatches, Fallthrough, SegmentRuleMatches, SegmentRulesExhausted,
         PlainClause, NoSuchSegment, SegmentCircular, EnterSegment, SegmentClauseExhausted,
         SegmentReturned, AtSegmentValue, AtSegmentClause, AtClause, AtRule, InRules, Walking,
         TypeInv, ControlOK, IsDefined,
         BigSegmentStep, ListedSegment, BigSegmentWithoutGeneration, BigSegmentOfOtherKind,
         MembershipCached, BigSegmentsNotConfigured, QueryMembership, AtBigSegment, Entering
<1>2. walks \in Seq(WalkRecord) /\ Len(walks) \in Nat \ {0}
  BY <1>1, WalkTypes DEF TypeInv, TypeOK
<1>3. Len(walks) > 1 => Front(walks) # <<>>
  BY <1>1, <1>2, Stacks, EmptySeq
<1>4. NextClause # <<>> /\ NextRule # <<>> /\ NextValue # <<>>
  BY <1>1, WalkTypes
<1>5. ASSUME NEW outcome, NEW ok, Return(outcome, ok) PROVE evalRet' # <<>>
  BY <1>5 DEF Return
<1>6. ASSUME NEW err, RuleFails(err) PROVE walks' # <<>> \/ evalRet' # <<>>
  BY <1>3, <1>5, <1>6 DEF RuleFails, SegmentReturns
<1>7. ASSUME NEW r, ClauseReturns(r) PROVE walks' # <<>> \/ evalRet' # <<>>
  BY <1>4, <1>6, <1>7 DEF ClauseReturns
<1>8. CASE RuleStep
  <2>1. CASE FlagRuleMatches \/ Fallthrough
    BY <1>5, <2>1 DEF FlagRuleMatches, Fallthrough
  <2>2. CASE SegmentRuleMatches \/ SegmentRulesExhausted
    <3>1. Len(walks) > 1
      <4>1. ~InFlagRules
        BY <2>2 DEF SegmentRuleMatches, SegmentRulesExhausted
      <4>2. Len(walks) # 1
        BY <4>1 DEF InFlagRules
      <4>3. \A k \in Nat \ {0} : k # 1 => k > 1
        OBVIOUS
      <4> QED BY <1>2, <4>2, <4>3
    <3> QED BY <1>3, <1>4, <1>6, <2>2, <3>1
            DEF SegmentRuleMatches, SegmentRulesExhausted, SegmentReturns
  <2>3. CASE PlainClause \/ SegmentCircular \/ SegmentClauseExhausted
    BY <1>7, <2>3 DEF PlainClause, SegmentCircular, SegmentClauseExhausted
  <2>4. CASE NoSuchSegment \/ SegmentReturned
    BY <1>4, <1>7, <2>4 DEF NoSuchSegment, SegmentReturned
  <2>5. CASE EnterSegment
    BY <1>2, <2>5 DEF EnterSegment
  <2> QED BY <1>8, <2>1, <2>2, <2>3, <2>4, <2>5 DEF RuleStep
<1>9. CASE BigSegmentStep
  <2>1. Len(walks) > 1
    <3>1. Walk.rule = 0
      BY <1>9 DEF BigSegmentStep, ListedSegment, BigSegmentWithoutGeneration,
                  BigSegmentOfOtherKind, MembershipCached, BigSegmentsNotConfigured,
                  QueryMembership, AtBigSegment, Entering
    <3> QED BY <1>1, <1>2, <3>1, WalkTypes DEF TypeInv, ControlOK
  <2>2. walks' \in {Front(walks), NextRule}
    BY <1>9, WalksAfter
       DEF BigSegmentStep, ListedSegment, BigSegmentWithoutGeneration, BigSegmentOfOtherKind,
           MembershipCached, BigSegmentsNotConfigured, QueryMembership
  <2> QED BY <1>3, <1>4, <2>1, <2>2
<1> QED BY <1>8, <1>9

LEMMA MembershipStep == TypeInv /\ MembershipInv /\ [Next]_vars => MembershipInv'
<1> SUFFICES ASSUME TypeInv, MembershipInv, [Next]_vars PROVE MembershipInv'
  OBVIOUS
<1>1. Len(scopes) \in Nat /\ (scopes # <<>> => Len(scopes) \in Nat \ {0})
  BY EmptySeq DEF TypeInv, TypeOK
<1>2. ASSUME UNCHANGED scopes, walks' # <<>> \/ evalRet' # <<>> \/ UNCHANGED <<walks, evalRet>>
      PROVE  MembershipInv'
  BY <1>2 DEF MembershipInv, NoSharedMemberships, RunningScopeIsFresh
<1>3. CASE EvaluateSome
  BY <1>3 DEF EvaluateSome, Evaluate, NewScope, MembershipInv, NoSharedMemberships,
              RunningScopeIsFresh
<1>4. CASE FlagIsOff \/ PrerequisiteMissing \/ PrerequisiteCircular \/ TargetsMatch
  <2>1. evalRet' # <<>>
    <3>1. \A outcome, ok : Return(outcome, ok) => evalRet' # <<>>
      BY DEF Return
    <3>2. \E outcome, ok : Return(outcome, ok)
      BY <1>4 DEF FlagIsOff, PrerequisiteMissing, PrerequisiteCircular, TargetsMatch
    <3> QED BY <3>1, <3>2
  <2> QED BY <1>2, <1>4, <2>1, ScopesStay
<1>5. CASE StartRules
  <2>1. walks' # <<>>
    BY <1>5 DEF StartRules
  <2> QED BY <1>2, <1>5, <2>1, ScopesStay
<1>6. CASE EvaluatePrerequisite
  <2>1. scopes[Len(scopes)].bigSegmentsMemberships = NoMemberships
    BY <1>6 DEF EvaluatePrerequisite, AtPrerequisite, BeforeRules, MembershipInv,
                RunningScopeIsFresh
  <2> QED BY <1>6, <2>1, ScopePushed DEF MembershipInv, NoSharedMemberships, RunningScopeIsFresh
<1>7. CASE PrerequisiteInvalid \/ PrerequisitePassed \/ PrerequisiteFailed
  BY <1>7, ScopePopped DEF MembershipInv, NoSharedMemberships, RunningScopeIsFresh
<1>8. CASE ReturnResult
  BY <1>8 DEF ReturnResult, MembershipInv, NoSharedMemberships, RunningScopeIsFresh
<1>9. CASE RuleStep
  BY <1>2, <1>9, ScopesStay, RulesGoOn
<1>10. CASE BigSegmentStep
  BY <1>10, ScopeReplaced, RulesGoOn DEF MembershipInv, NoSharedMemberships, RunningScopeIsFresh
<1>11. CASE RejectContext \/ StoreUpdate \/ Returned \/ UNCHANGED vars
  <2>1. UNCHANGED <<walks, evalRet>>
    BY <1>11 DEF RejectContext, StoreUpdate, UpdateFlag, UpdateSegment, UpdateBigSegments,
                 Returned, vars, evaluation
  <2> QED BY <1>2, <1>11, <2>1, ScopesStay
<1> QED BY <1>3, <1>4, <1>5, <1>6, <1>7, <1>8, <1>9, <1>10, <1>11 DEF Next, Step, FlagStep

\* However deep prerequisites nest, no scope that waits for one has made its map.
THEOREM MembershipsAreNotShared == Spec => []NoSharedMemberships
<1>1. Init => MembershipInv
  BY DEF Init, MembershipInv, NoSharedMemberships, RunningScopeIsFresh
<1>2. MembershipInv => NoSharedMemberships
  BY DEF MembershipInv
<1> QED BY <1>1, <1>2, InitTypes, NextTypes, MembershipStep, PTL DEF Spec

------------------------------------------------------------------------------
(***************************************************************************)
(* The status that is reported is the most problematic one that was met.   *)
(* The running scope has it; a scope that waits has some status that was   *)
(* met, so that it cannot replace what the prerequisite found.  Only an    *)
(* evaluation that has not begun has met none.                             *)
(***************************************************************************)
WaitingScopesHaveSeen ==
  \A i \in 1..Len(scopes) : scopes[i].bigSegmentsStatus \in StatusesSeen \cup {NoStatus}
RunningScopeHasWorst ==
  scopes # <<>> => scopes[Len(scopes)].bigSegmentsStatus \in WorstOf(StatusesSeen)
NothingSeenBefore == scopes = <<>> /\ result = <<>> => consults = <<>>
OverWhenReturned == result # <<>> => scopes = <<>>
ResultHasWorst ==
  IsDefined(result) => result[1].detail.reason.bigSegmentsStatus \in WorstOf(StatusesSeen)
StatusInv ==
  /\ WaitingScopesHaveSeen /\ RunningScopeHasWorst /\ NothingSeenBefore
  /\ OverWhenReturned /\ ResultHasWorst

\* Statuses have the priorities 0 to 3, and nothing is worse than NOT_CONFIGURED.
LEMMA Priorities ==
  /\ \A status \in BigSegmentsStatus : GetBigSegmentsStatusPriority(status) \in 0..3
  /\ GetBigSegmentsStatusPriority("NOT_CONFIGURED") = 3
  /\ GetBigSegmentsStatusPriority(NoStatus) = 0
BY DEF GetBigSegmentsStatusPriority, BigSegmentsStatus, ProviderStatus, NoStatus

\* The merge of the worst status seen with another one is the worst of both.
LEMMA WorstStatus ==
  ASSUME NEW seen \in SUBSET ProviderStatus, NEW worst \in WorstOf(seen)
  PROVE  /\ worst \in BigSegmentsStatus
         /\ \A new \in ProviderStatus :
              ComputeUpdatedBigSegmentsStatus(worst, new) \in WorstOf(seen \cup {new})
         /\ "NOT_CONFIGURED" \in WorstOf(seen \cup {"NOT_CONFIGURED"})
         /\ \A old \in seen \cup {NoStatus} : ComputeUpdatedBigSegmentsStatus(old, worst) = worst
<1> DEFINE priority(status) == GetBigSegmentsStatusPriority(status)
<1>1. \A status \in ProviderStatus : status \in BigSegmentsStatus /\ status # NoStatus
  BY DEF BigSegmentsStatus, ProviderStatus, NoStatus
<1>2. CASE seen = {}
  <2>1. worst = NoStatus
    BY <1>2 DEF WorstOf
  <2> QED BY <1>1, <1>2, <2>1, Priorities
          DEF WorstOf, ComputeUpdatedBigSegmentsStatus, BigSegmentsStatus, ProviderStatus
<1>3. CASE seen # {}
  <2>1. worst \in seen /\ \A status \in seen : priority(status) <= priority(worst)
    BY <1>3 DEF WorstOf
  <2>2. \A status \in seen : priority(status) \in 0..3
    BY <1>1, Priorities
  <2>3. ASSUME NEW new \in ProviderStatus
        PROVE  ComputeUpdatedBigSegmentsStatus(worst, new) \in WorstOf(seen \cup {new})
    <3>1. priority(new) \in 0..3
      BY <1>1, Priorities
    <3> QED BY <2>1, <2>2, <3>1, <1>1 DEF WorstOf, ComputeUpdatedBigSegmentsStatus
  <2>4. "NOT_CONFIGURED" \in WorstOf(seen \cup {"NOT_CONFIGURED"})
    BY <2>2, Priorities DEF WorstOf
  <2>5. ASSUME NEW old \in seen \cup {NoStatus}
        PROVE  ComputeUpdatedBigSegmentsStatus(old, worst) = worst
    BY <2>1, <2>2, Priorities DEF ComputeUpdatedBigSegmentsStatus
  <2> QED BY <1>1, <2>1, <2>3, <2>4, <2>5
<1> QED BY <1>2, <1>3

\* Another status has been obtained.
LEMMA StatusesSeenGrow ==
  ASSUME TypeInv, NEW key, NEW status, Consulted(key, status)
  PROVE  StatusesSeen' = StatusesSeen \cup {status}
<1> DEFINE consult == [path |-> Path, contextKey |-> key, status |-> status]
<1>1. consults \in Seq(ConsultRecord) /\ Len(consults) \in Nat
  BY DEF TypeInv, TypeOK
<1>2. consults' = Append(consults, consult) /\ consult.status = status
  BY DEF Consulted
<1> HIDE DEF consult
<1>3. /\ DOMAIN consults = 1..Len(consults)
      /\ DOMAIN consults' = 1..(Len(consults) + 1)
      /\ \A i \in 1..Len(consults) : consults'[i] = consults[i]
      /\ consults'[Len(consults) + 1] = consult
  BY <1>1, <1>2
<1>4. \A i \in DOMAIN consults' : i \in DOMAIN consults \/ i = Len(consults) + 1
  BY <1>1, <1>3
<1>5. DOMAIN consults \subseteq DOMAIN consults' /\ Len(consults) + 1 \in DOMAIN consults'
  BY <1>1, <1>3
<1>6. StatusesSeen' = {consults'[i].status : i \in DOMAIN consults'}
  BY DEF StatusesSeen
<1> QED BY <1>2, <1>3, <1>4, <1>5, <1>6 DEF StatusesSeen

\* The key that is queried is one of the context's keys.
LEMMA QueriedKeyTypes ==
  ASSUME TypeInv, QueryMembership
  PROVE  BigSegmentKey[1] \in ContextKeys
<1>1. IsContext(context)
  BY EvaluatorAssumption DEF TypeInv, TypeOK
<1>2. IsDefined(BigSegmentKey)
  BY DEF QueryMembership
<1> QED BY <1>1, <1>2
        DEF BigSegmentKey, GetApplicableContextKeyByKind, HasKind, IndividualContextByKind,
            IsContext, IndividualContext, IsDefined

LEMMA StatusStep == TypeInv /\ StatusInv /\ [Next]_vars => StatusInv'
<1> SUFFICES ASSUME TypeInv, StatusInv, [Next]_vars PROVE StatusInv'
  OBVIOUS
<1> DEFINE status(i) == scopes[i].bigSegmentsStatus
           n == Len(scopes)
<1>1. n \in Nat /\ (scopes # <<>> => n \in Nat \ {0})
  BY EmptySeq DEF TypeInv, TypeOK
<1>2. StatusesSeen \in SUBSET ProviderStatus
  <2>1. consults \in Seq(ConsultRecord)
    BY DEF TypeInv, TypeOK
  <2>2. \A i \in DOMAIN consults : consults[i] \in ConsultRecord
    BY <2>1
  <2>3. \A r \in ConsultRecord : r.status \in ProviderStatus
    BY DEF ConsultRecord
  <2> QED BY <2>2, <2>3 DEF StatusesSeen
<1>3. UNCHANGED consults => StatusesSeen' = StatusesSeen
  BY DEF StatusesSeen
<1>4. ASSUME UNCHANGED <<scopes, consults, result>> PROVE StatusInv'
  BY <1>3, <1>4
     DEF StatusInv, WaitingScopesHaveSeen, RunningScopeHasWorst, NothingSeenBefore,
         OverWhenReturned, ResultHasWorst
<1>5. CASE EvaluateSome
  <2>1. consults = <<>> /\ result = <<>> /\ UNCHANGED <<consults, result>>
    BY <1>5 DEF EvaluateSome, Evaluate, StatusInv, NothingSeenBefore
  <2>2. Len(scopes') = 1 /\ scopes' # <<>> /\ scopes'[1].bigSegmentsStatus = NoStatus
    BY <1>5 DEF EvaluateSome, Evaluate, NewScope
  <2>3. StatusesSeen' = {} /\ NoStatus \in WorstOf({})
    BY <2>1 DEF StatusesSeen, WorstOf
  <2> QED BY <2>1, <2>2, <2>3
          DEF StatusInv, WaitingScopesHaveSeen, RunningScopeHasWorst, NothingSeenBefore,
              OverWhenReturned, ResultHasWorst, IsDefined
<1>6. CASE EvaluatePrerequisite
  <2>1. UNCHANGED <<consults, result>>
    BY <1>6 DEF EvaluatePrerequisite
  <2>2. scopes # <<>> /\ scopes' # <<>> /\ result = <<>>
    <3>1. scopes # <<>>
      BY <1>6 DEF EvaluatePrerequisite, AtPrerequisite, BeforeRules
    <3> QED BY <1>1, <1>6, <3>1, ScopePushed DEF StatusInv, OverWhenReturned
  <2>3. WaitingScopesHaveSeen' /\ RunningScopeHasWorst'
    BY <1>3, <1>6, <2>1, <2>2, ScopePushed
       DEF StatusInv, WaitingScopesHaveSeen, RunningScopeHasWorst
  <2> QED BY <2>1, <2>2, <2>3
          DEF StatusInv, NothingSeenBefore, OverWhenReturned, ResultHasWorst, IsDefined
<1>7. CASE PrerequisiteInvalid \/ PrerequisitePassed \/ PrerequisiteFailed
  <2>1. UNCHANGED <<consults, result>>
    BY <1>7 DEF PrerequisiteInvalid, PrerequisitePassed, PrerequisiteFailed
  <2>2. n \in Nat \ {0, 1} /\ Len(scopes') = n - 1 /\ scopes # <<>> /\ scopes' # <<>>
    <3>1. n \in Nat \ {0, 1} /\ Len(scopes') = n - 1
      BY <1>7, ScopePopped
    <3>2. Len(scopes) # 0 /\ Len(scopes') # 0
      BY <3>1
    <3>3. scopes # <<>> /\ scopes' # <<>>
      BY <3>2, EmptySeq
    <3> QED BY <3>1, <3>3
  <2>3. MergedStatus = status(n)
    <3>1. Scope = scopes[n] /\ Caller = scopes[n - 1]
      BY <2>2, ScopeTypes DEF TypeInv, Caller
    <3>2. status(n - 1) \in StatusesSeen \cup {NoStatus} /\ status(n) \in WorstOf(StatusesSeen)
      BY <2>2 DEF StatusInv, WaitingScopesHaveSeen, RunningScopeHasWorst
    <3>3. MergedStatus = ComputeUpdatedBigSegmentsStatus(status(n - 1), status(n))
      BY <3>1 DEF MergedStatus
    <3>4. StatusesSeen \in SUBSET ProviderStatus
      BY <1>2
    <3>5. \A old \in StatusesSeen \cup {NoStatus} :
            ComputeUpdatedBigSegmentsStatus(old, status(n)) = status(n)
      <4> DEFINE worst == status(n)
      <4> HIDE DEF worst
      <4>1. worst \in WorstOf(StatusesSeen)
        BY <3>2 DEF worst
      <4>2. \A old \in StatusesSeen \cup {NoStatus} :
              ComputeUpdatedBigSegmentsStatus(old, worst) = worst
        BY <3>4, <4>1, WorstStatus
      <4> QED BY <4>2 DEF worst
    <3> QED BY <3>2, <3>3, <3>5, Zenon
  <2>4. /\ scopes'[n - 1].bigSegmentsStatus = status(n)
        /\ \A i \in 1..(n - 2) : scopes'[i] = scopes[i]
    BY <1>7, <2>2, <2>3, ScopePopped
  <2>5. WaitingScopesHaveSeen'
    <3>1. \A i \in 1..Len(scopes') : (i = n - 1 \/ i \in 1..(n - 2)) /\ i \in 1..n /\ n \in 1..n
      BY <2>2
    <3>2. \A i \in 1..n : status(i) \in StatusesSeen \cup {NoStatus}
      BY DEF StatusInv, WaitingScopesHaveSeen
    <3> QED BY <1>3, <2>1, <2>4, <3>1, <3>2 DEF WaitingScopesHaveSeen
  <2>6. RunningScopeHasWorst'
    BY <1>3, <2>1, <2>2, <2>4 DEF StatusInv, RunningScopeHasWorst
  <2> QED BY <2>1, <2>2, <2>5, <2>6
          DEF StatusInv, NothingSeenBefore, OverWhenReturned, ResultHasWorst, IsDefined
<1>8. CASE ReturnResult
  <2>1. n = 1 /\ scopes # <<>> /\ Scope = scopes[1]
    BY <1>8, ScopeTypes DEF ReturnResult, TypeInv
  <2>2. IsDefined(evalRet) /\ evalRet \in Optional(EvalReturn)
    BY <1>8 DEF ReturnResult, TypeInv, TypeOK, EvalReturn
  <2>3. evalRet[1].detail \in Detail
    BY <2>2, OptionalValues DEF EvalReturn
  <2> DEFINE detail == [evalRet[1].detail EXCEPT !.reason.bigSegmentsStatus = Scope.bigSegmentsStatus]
  <2>4. detail.reason.bigSegmentsStatus = status(1)
    BY <2>1, <2>3 DEF Detail, Reason
  <2>5. /\ result' = <<[detail |-> detail,
                        isExperiment |-> IsExperiment(Scope.flag, detail.reason)]>>
        /\ scopes' = <<>> /\ UNCHANGED consults
    BY <1>8 DEF ReturnResult
  <2> HIDE DEF detail
  <2>6. result' # <<>> /\ result'[1].detail.reason.bigSegmentsStatus \in WorstOf(StatusesSeen)
    BY <2>1, <2>4, <2>5 DEF StatusInv, RunningScopeHasWorst
  <2> QED BY <1>3, <2>5, <2>6
          DEF StatusInv, WaitingScopesHaveSeen, RunningScopeHasWorst, NothingSeenBefore,
              OverWhenReturned, ResultHasWorst, IsDefined
<1>9. CASE RejectContext
  <2>1. scopes = <<>> /\ result = <<>> /\ UNCHANGED <<scopes, consults>>
    BY <1>9 DEF RejectContext
  <2>2. result' = <<[detail |-> ErrorDetail("USER_NOT_SPECIFIED"), isExperiment |-> FALSE]>>
    BY <1>9 DEF RejectContext
  <2>3. ErrorDetail("USER_NOT_SPECIFIED").reason.bigSegmentsStatus = NoStatus
    BY DEF ErrorDetail, DefaultDetail, ErrorReason, NewReason
  <2>4. StatusesSeen' = {} /\ NoStatus \in WorstOf({})
    BY <2>1 DEF StatusInv, NothingSeenBefore, StatusesSeen, WorstOf
  <2>5. result' # <<>> /\ result'[1].detail.reason.bigSegmentsStatus = NoStatus
    BY <2>2, <2>3
  <2> QED BY <2>1, <2>4, <2>5
          DEF StatusInv, WaitingScopesHaveSeen, RunningScopeHasWorst, NothingSeenBefore,
              OverWhenReturned, ResultHasWorst
<1>10. CASE BigSegmentStep
  <2>1. /\ n \in Nat \ {0} /\ Len(scopes') = n /\ scopes # <<>> /\ scopes' # <<>>
        /\ \A i \in 1..(n - 1) : scopes'[i] = scopes[i]
    BY <1>10, ScopeReplaced
  <2>2. result = <<>> /\ UNCHANGED result
    BY <1>10, <2>1
       DEF BigSegmentStep, ListedSegment, BigSegmentWithoutGeneration, BigSegmentOfOtherKind,
           MembershipCached, BigSegmentsNotConfigured, QueryMembership, StatusInv, OverWhenReturned
  <2>3. scopes \in Seq(ScopeRecord) /\ scopes[n] \in ScopeRecord /\ Scope = scopes[n]
    BY <2>1, ScopeTypes DEF TypeInv, TypeOK
  <2>4. status(n) \in WorstOf(StatusesSeen)
    BY <2>1 DEF StatusInv, RunningScopeHasWorst
  <2>5. ASSUME NEW key, NEW new \in ProviderStatus, Consulted(key, new),
               scopes'[n].bigSegmentsStatus \in WorstOf(StatusesSeen \cup {new})
        PROVE  StatusInv'
    <3>1. StatusesSeen' = StatusesSeen \cup {new}
      BY <2>5, StatusesSeenGrow
    <3>2. WorstOf(StatusesSeen') \subseteq StatusesSeen' \cup {NoStatus}
      BY DEF WorstOf
    <3>3. \A i \in 1..n : i = n \/ i \in 1..(n - 1)
      BY <2>1
    <3>4. \A i \in 1..n : scopes'[i].bigSegmentsStatus \in StatusesSeen' \cup {NoStatus}
      BY <2>1, <2>5, <3>1, <3>2, <3>3 DEF StatusInv, WaitingScopesHaveSeen
    <3> QED BY <2>1, <2>2, <2>5, <3>1, <3>4
            DEF StatusInv, WaitingScopesHaveSeen, RunningScopeHasWorst, NothingSeenBefore,
                OverWhenReturned, ResultHasWorst, IsDefined
  <2>6. CASE ListedSegment \/ BigSegmentOfOtherKind \/ MembershipCached
    BY <1>4, <2>6 DEF ListedSegment, BigSegmentOfOtherKind, MembershipCached
  <2>7. CASE BigSegmentWithoutGeneration \/ BigSegmentsNotConfigured
    <3>1. scopes' = SetStatus("NOT_CONFIGURED") /\ Consulted(<<>>, "NOT_CONFIGURED")
      BY <2>7 DEF BigSegmentWithoutGeneration, BigSegmentsNotConfigured
    <3>2. scopes'[n].bigSegmentsStatus = "NOT_CONFIGURED"
      BY <2>1, <2>3, <3>1 DEF SetStatus, ScopeRecord
    <3>3. "NOT_CONFIGURED" \in ProviderStatus
      BY DEF ProviderStatus
    <3>4. "NOT_CONFIGURED" \in WorstOf(StatusesSeen \cup {"NOT_CONFIGURED"})
      BY <1>2, <2>4, WorstStatus
    <3> QED BY <2>5, <3>1, <3>2, <3>3, <3>4
  <2>8. CASE QueryMembership
    <3>1. PICK key, memberships : LET answer == bigSegmentData[key] IN
            /\ key = BigSegmentKey[1]
            /\ scopes' = [SetStatus(ComputeUpdatedBigSegmentsStatus(
                             Scope.bigSegmentsStatus, answer.status))
                            EXCEPT ![Len(scopes)].bigSegmentsMemberships = memberships]
            /\ Consulted(<<key>>, answer.status)
      BY <2>8 DEF QueryMembership
    <3> DEFINE new == bigSegmentData[key].status
               merged == ComputeUpdatedBigSegmentsStatus(status(n), new)
    <3>2. new \in ProviderStatus
      <4>1. bigSegmentData \in [ContextKeys -> BigSegmentAnswers]
        BY DEF TypeInv, TypeOK
      <4>2. key \in ContextKeys
        BY <2>8, <3>1, QueriedKeyTypes
      <4> QED BY <4>1, <4>2, EvaluatorAssumption
    <3>3. scopes'[n].bigSegmentsStatus = merged
      BY <2>1, <2>3, <3>1 DEF SetStatus, ScopeRecord
    <3>4. merged \in WorstOf(StatusesSeen \cup {new})
      BY <1>2, <2>4, <3>2, WorstStatus
    <3> QED BY <2>5, <3>1, <3>2, <3>3, <3>4
  <2> QED BY <1>10, <2>6, <2>7, <2>8 DEF BigSegmentStep
<1>11. CASE \/ FlagIsOff \/ PrerequisiteMissing \/ PrerequisiteCircular \/ TargetsMatch
            \/ StartRules \/ RuleStep \/ StoreUpdate \/ Returned \/ UNCHANGED vars
  <2>1. UNCHANGED result
    BY <1>11
       DEF FlagIsOff, PrerequisiteMissing, PrerequisiteCircular, TargetsMatch, StartRules,
           RuleStep, FlagRuleMatches, Fallthrough, SegmentRuleMatches, SegmentRulesExhausted,
           PlainClause, NoSuchSegment, SegmentCircular, EnterSegment, SegmentClauseExhausted,
           SegmentReturned, StoreUpdate, UpdateFlag, UpdateSegment, UpdateBigSegments, Returned,
           vars, evaluation
  <2> QED BY <1>4, <1>11, <2>1, ScopesStay
<1> QED BY <1>5, <1>6, <1>7, <1>8, <1>9, <1>10, <1>11 DEF Next, Step, FlagStep

\* Whatever was asked, in whatever order and depth, the worst status is the one reported.
THEOREM WorstStatusIsReported == Spec => []StatusIsWorstSeen
<1>1. Init => StatusInv
  BY DEF Init, StatusInv, WaitingScopesHaveSeen, RunningScopeHasWorst, NothingSeenBefore,
         OverWhenReturned, ResultHasWorst, IsDefined
<1>2. TypeInv /\ StatusInv => StatusIsWorstSeen
  <2>1. TypeInv /\ scopes # <<>> => Scope = scopes[Len(scopes)]
    BY ScopeTypes DEF TypeInv
  <2> QED BY <2>1 DEF StatusInv, RunningScopeHasWorst, ResultHasWorst, StatusIsWorstSeen
<1> QED BY <1>1, <1>2, InitTypes, NextTypes, StatusStep, PTL DEF Spec


------------------------------------------------------------------------------
(***************************************************************************)
(* Places in the tree of evaluations.  A place p is passed when the loop   *)
(* of some scope, whose place is q, has gone beyond it; it is within q     *)
(* when it is q or below q.                                                *)
(***************************************************************************)
Passed(p, q) ==
  \E m \in (1..Len(p)) \cap (1..Len(q)) : p[m] < q[m] /\ \A k \in 1..(m - 1) : p[k] = q[k]
Within(p, q) == Len(q) <= Len(p) /\ \A k \in 1..Len(q) : p[k] = q[k]

\* A place is a sequence of numbers: the positions of the loops down to it.
LEMMA PlaceTypes ==
  \A p \in Seq(Nat) : /\ Len(p) \in Nat /\ DOMAIN p = 1..Len(p)
                      /\ \A k \in 1..Len(p) : p[k] \in Nat
BY ElementOfSeq, LenProperties

\* A place that has been passed stays passed while the stack only grows.
LEMMA PassedStays ==
  ASSUME NEW p \in Seq(Nat), NEW q \in Seq(Nat), NEW r \in Seq(Nat),
         Len(q) <= Len(r), \A k \in 1..Len(q) : r[k] = q[k],
         Passed(p, q)
  PROVE  Passed(p, r)
<1>1. PICK m \in (1..Len(p)) \cap (1..Len(q)) : p[m] < q[m] /\ \A k \in 1..(m - 1) : p[k] = q[k]
  BY DEF Passed
<1>2. Len(q) \in Nat /\ Len(r) \in Nat
  OBVIOUS
<1>3. m \in 1..Len(r) /\ r[m] = q[m] /\ \A k \in 1..(m - 1) : r[k] = q[k]
  <2>1. \A i, j \in Nat : i <= j =>
          \A n \in 1..i : n \in 1..j /\ \A k \in 1..(n - 1) : k \in 1..i
    OBVIOUS
  <2>2. m \in 1..Len(r) /\ \A k \in 1..(m - 1) : k \in 1..Len(q)
    BY <1>1, <1>2, <2>1, Zenon
  <2> QED BY <1>1, <2>2
<1> QED BY <1>1, <1>3 DEF Passed

\* When the innermost loop ends, all that was over or within its caller's place is within
\* that place, or is passed if the caller's loop goes on.
LEMMA OverAfterReturn ==
  ASSUME NEW p \in Seq(Nat), NEW q \in Seq(Nat), NEW r \in Seq(Nat), NEW step \in {0, 1},
         Len(r) \in Nat \ {0}, Len(q) = Len(r) + 1,
         \A k \in 1..(Len(r) - 1) : r[k] = q[k],
         r[Len(r)] = q[Len(r)] + step,
         Passed(p, q) \/ (Len(r) <= Len(p) /\ \A k \in 1..Len(r) : p[k] = q[k])
  PROVE  /\ step = 0 => Passed(p, r) \/ Within(p, r)
         /\ step = 1 => Passed(p, r)
<1> DEFINE n == Len(r)
<1>1. n \in Nat \ {0} /\ Len(q) = n + 1 /\ Len(p) \in Nat
  OBVIOUS
<1>2. \A k \in 1..n : k = n \/ k \in 1..(n - 1)
  BY <1>1
<1>3. q[n] \in Nat /\ r[n] \in Nat
  BY <1>1, PlaceTypes
<1>4. CASE n <= Len(p) /\ \A k \in 1..n : p[k] = q[k]
  <2>1. n \in (1..Len(p)) \cap (1..n) /\ \A k \in 1..(n - 1) : p[k] = r[k]
    BY <1>1, <1>4
  <2>2. CASE step = 0
    BY <1>1, <1>2, <1>3, <1>4, <2>1, <2>2 DEF Within
  <2>3. CASE step = 1
    <3>1. p[n] = q[n] /\ r[n] = q[n] + 1
      BY <1>1, <1>4, <2>3
    <3>2. p[n] < r[n]
      BY <1>3, <3>1
    <3> QED BY <2>1, <2>3, <3>2 DEF Passed
  <2> QED BY <2>2, <2>3
<1>5. CASE Passed(p, q)
  <2>1. PICK m \in (1..Len(p)) \cap (1..Len(q)) : p[m] < q[m] /\ \A k \in 1..(m - 1) : p[k] = q[k]
    BY <1>5 DEF Passed
  <2>2. CASE m <= n
    <3>1. m \in 1..n /\ \A k \in 1..(m - 1) : k \in 1..(n - 1)
      BY <1>1, <2>1, <2>2
    <3>2. p[m] \in Nat /\ q[m] \in Nat
      BY <2>1, PlaceTypes
    <3>3. p[m] < r[m]
      <4>1. CASE m = n
        <5>1. \A a, b \in Nat : a < b => a < b + step
          OBVIOUS
        <5> QED BY <2>1, <3>2, <4>1, <5>1
      <4>2. CASE m # n
        BY <1>2, <2>1, <3>1, <4>2
      <4> QED BY <4>1, <4>2
    <3> QED BY <2>1, <3>1, <3>3 DEF Passed
  <2>3. CASE m > n
    <3>1. m = n + 1
      BY <1>1, <2>1, <2>3
    <3>2. n <= Len(p) /\ \A k \in 1..n : p[k] = q[k]
      BY <1>1, <2>1, <3>1
    <3> QED BY <1>4, <3>2
  <2> QED BY <1>1, <2>1, <2>2, <2>3
<1> QED BY <1>4, <1>5

\* A place that is over comes before the caller's place in post-order, and differs from it.
LEMMA OverComesBefore ==
  ASSUME NEW p \in Seq(Nat), NEW q \in Seq(Nat), NEW r \in Seq(Nat),
         Len(q) = Len(r) + 1, \A k \in 1..Len(r) : r[k] = q[k],
         Passed(p, q) \/ Within(p, q)
  PROVE  VisitedBefore(p, r) /\ p # r
<1>1. Len(p) \in Nat /\ Len(q) \in Nat /\ Len(r) \in Nat
  OBVIOUS
<1>2. CASE Len(r) < Len(p) /\ \A k \in 1..Len(r) : p[k] = r[k]
  <2>1. p # r
    BY <1>1, <1>2
  <2>2. SubSeq(r, 1, Len(r)) = SubSeq(p, 1, Len(r))
    <3>1. \A m, n \in Nat : m < n => \A k \in 1..m : k \in 1..n
      OBVIOUS
    <3>2. \A k \in 1..Len(r) : k \in 1..Len(p)
      BY <1>1, <1>2, <3>1, Zenon
    <3>3. \A k \in 1..Len(r) : r[k] \in Nat /\ p[k] \in Nat
      BY <3>2, PlaceTypes, Zenon
    <3> QED BY <1>1, <1>2, <3>2, <3>3
  <2> QED BY <1>1, <1>2, <2>1, <2>2 DEF VisitedBefore, IsStrictPrefix, IsPrefix
<1>3. CASE Within(p, q)
  <2>1. Len(r) < Len(p) /\ \A k \in 1..Len(r) : k \in 1..Len(q)
    BY <1>1, <1>3 DEF Within
  <2>2. \A k \in 1..Len(r) : p[k] = r[k]
    BY <1>3, <2>1, Zenon DEF Within
  <2> QED BY <1>2, <2>1, <2>2
<1>4. CASE Passed(p, q)
  <2>1. PICK m \in (1..Len(p)) \cap (1..Len(q)) : p[m] < q[m] /\ \A k \in 1..(m - 1) : p[k] = q[k]
    BY <1>4 DEF Passed
  <2>2. CASE m <= Len(r)
    <3>1. m \in 1..Len(r) /\ \A k \in 1..(m - 1) : k \in 1..Len(r)
      BY <1>1, <2>1, <2>2
    <3>2. p[m] < r[m] /\ \A k \in 1..(m - 1) : p[k] = r[k]
      BY <2>1, <3>1
    <3>3. DOMAIN p = 1..Len(p) /\ DOMAIN r = 1..Len(r) /\ p[m] \in Nat /\ r[m] \in Nat
      BY <2>1, <3>1, PlaceTypes
    <3>4. p # r
      BY <3>2, <3>3
    <3> QED BY <2>1, <3>1, <3>2, <3>3, <3>4 DEF VisitedBefore
  <2>3. CASE m > Len(r)
    <3>1. Len(r) < Len(p) /\ \A k \in 1..Len(r) : p[k] = r[k]
      BY <1>1, <2>1, <2>3
    <3> QED BY <1>2, <3>1
  <2> QED BY <1>1, <2>1, <2>2, <2>3
<1> QED BY <1>3, <1>4

------------------------------------------------------------------------------
(***************************************************************************)
(* How steps change the places of the scopes on the stack.                 *)
(***************************************************************************)
PositionsOf(stack) == [i \in 1..Len(stack) |-> stack[i].prereq]
Positions == PositionsOf(scopes)

\* The positions of a stack of scopes are a place.
LEMMA PositionTypes ==
  ASSUME NEW stack \in Seq(ScopeRecord)
  PROVE  /\ PositionsOf(stack) \in Seq(Nat)
         /\ Len(PositionsOf(stack)) = Len(stack)
         /\ \A i \in 1..Len(stack) : PositionsOf(stack)[i] = stack[i].prereq
<1>1. Len(stack) \in Nat /\ \A i \in 1..Len(stack) : stack[i] \in ScopeRecord
  BY ElementOfSeq
<1>2. \A r \in ScopeRecord : r.prereq \in Nat
  BY DEF ScopeRecord
<1>3. PositionsOf(stack) \in [1..Len(stack) -> Nat]
  BY <1>1, <1>2 DEF PositionsOf
<1>4. PositionsOf(stack) \in Seq(Nat)
  BY <1>1, <1>3, SeqDef
<1>5. Len(PositionsOf(stack)) = Len(stack)
  BY <1>1, <1>3, <1>4, LenProperties
<1> QED BY <1>4, <1>5 DEF PositionsOf

\* The path of the running scope is the place of its caller.
LEMMA PathTypes ==
  ASSUME TypeInv, scopes # <<>>
  PROVE  /\ Path \in Seq(Nat) /\ Len(Path) = Len(scopes) - 1
         /\ \A i \in 1..(Len(scopes) - 1) : Path[i] = Positions[i]
         /\ Positions \in Seq(Nat) /\ Len(Positions) = Len(scopes)
<1>1. scopes \in Seq(ScopeRecord) /\ Len(scopes) \in Nat \ {0}
  BY ScopeTypes DEF TypeInv, TypeOK
<1>2. Path \in Seq(Nat)
  BY ScopeUpdates DEF TypeInv
<1>3. Len(scopes) - 1 \in Nat /\ DOMAIN Path = 1..(Len(scopes) - 1)
  BY <1>1 DEF Path
<1>4. Len(Path) = Len(scopes) - 1
  BY <1>2, <1>3, LenProperties
<1>5. \A i \in 1..(Len(scopes) - 1) : Path[i] = Positions[i]
  BY <1>1 DEF Path, Positions, PositionsOf
<1> QED BY <1>1, <1>2, <1>4, <1>5, PositionTypes DEF Positions

\* A prerequisite returns to the scope that waits for it, whose loop goes on or ends.
LEMMA PositionsPopped ==
  ASSUME TypeInv, NEW step \in {0, 1}, PrerequisiteReturns, scopes' = AfterPop(step)
  PROVE  /\ scopes # <<>> /\ scopes' # <<>>
         /\ Len(scopes') \in Nat \ {0} /\ Len(scopes) = Len(scopes') + 1
         /\ \A i \in 1..Len(scopes') : scopes'[i].flag = scopes[i].flag
         /\ \A i \in 1..(Len(scopes') - 1) : scopes'[i] = scopes[i]
         /\ scopes'[Len(scopes')].prereq = scopes[Len(scopes')].prereq + step
<1>1. Len(scopes) \in Nat \ {0, 1} /\ scopes # <<>>
  <2>1. scopes \in Seq(ScopeRecord) /\ Len(scopes) \in Nat /\ Len(scopes) > 1
    BY DEF PrerequisiteReturns, TypeInv, TypeOK
  <2>2. Len(scopes) \in Nat \ {0, 1}
    <3>1. \A k \in Nat : k > 1 => k \in Nat \ {0, 1}
      OBVIOUS
    <3> QED BY <2>1, <3>1, Zenon
  <2>3. scopes # <<>>
    BY <2>2, EmptySeq
  <2> QED BY <2>2, <2>3
<1>2. Caller \in ScopeRecord /\ Caller = scopes[Len(scopes) - 1]
  <2>1. Len(scopes) > 1
    BY <1>1
  <2> QED BY <1>1, <2>1, ScopeTypes DEF TypeInv, Caller
<1>3. /\ Len(scopes') = Len(scopes) - 1
      /\ scopes' \in Seq(ScopeRecord)
      /\ \A i \in 1..(Len(scopes) - 2) : scopes'[i] = scopes[i]
      /\ scopes'[Len(scopes) - 1] =
           [Caller EXCEPT !.bigSegmentsStatus = MergedStatus, !.prereq = @ + step]
  BY PopTypes DEF PrerequisiteReturns
<1>4. /\ scopes'[Len(scopes) - 1].flag = Caller.flag
      /\ scopes'[Len(scopes) - 1].prereq = Caller.prereq + step
  BY <1>2, <1>3 DEF ScopeRecord
<1>5. Len(scopes') \in Nat \ {0} /\ Len(scopes) = Len(scopes') + 1
  BY <1>1, <1>3
<1>6. \A i \in 1..Len(scopes') : i = Len(scopes) - 1 \/ i \in 1..(Len(scopes) - 2)
  BY <1>1, <1>3
<1>7. \A i \in 1..Len(scopes') : scopes'[i].flag = scopes[i].flag
  BY <1>2, <1>3, <1>4, <1>6
<1>8. scopes' # <<>>
  BY <1>5
<1>9. \A i \in 1..(Len(scopes') - 1) : scopes'[i] = scopes[i]
  BY <1>1, <1>3
<1>10. scopes'[Len(scopes')].prereq = scopes[Len(scopes')].prereq + step
  BY <1>2, <1>3, <1>4
<1> QED BY <1>1, <1>5, <1>7, <1>8, <1>9, <1>10

\* A prerequisite starts in a scope of its own, on top of the others.
LEMMA PositionsPushed ==
  ASSUME TypeInv, EvaluatePrerequisite
  PROVE  /\ scopes # <<>> /\ scopes' # <<>>
         /\ Len(scopes) \in Nat \ {0} /\ Len(scopes') = Len(scopes) + 1
         /\ \A i \in 1..Len(scopes) : scopes'[i] = scopes[i]
         /\ scopes'[Len(scopes')].flag = flagData[Prereq.key][1]
         /\ scopes'[Len(scopes')].prereq = 1
<1>1. scopes \in Seq(ScopeRecord) /\ Len(scopes) \in Nat \ {0} /\ scopes # <<>>
  BY ScopeTypes DEF TypeInv, TypeOK, EvaluatePrerequisite, AtPrerequisite, BeforeRules
<1> DEFINE scope == NewScope(flagData[Prereq.key][1], ExtendedChain,
                             Scope.bigSegmentsStatus, Scope.bigSegmentsMemberships)
<1>2. scopes' = Append(scopes, scope)
  BY DEF EvaluatePrerequisite
<1>3. scope.flag = flagData[Prereq.key][1] /\ scope.prereq = 1
  BY DEF NewScope
<1> HIDE DEF scope
<1>4. /\ Len(scopes') = Len(scopes) + 1
      /\ \A i \in 1..Len(scopes) : scopes'[i] = scopes[i]
      /\ scopes'[Len(scopes) + 1] = scope
      /\ scopes' # <<>>
  BY <1>1, <1>2
<1> QED BY <1>1, <1>3, <1>4

\* Trying a big segment leaves the places alone, and forgets no membership.
LEMMA PositionsStay ==
  ASSUME TypeInv, BigSegmentStep
  PROVE  /\ scopes # <<>> /\ scopes' # <<>>
         /\ Len(scopes) \in Nat \ {0} /\ Len(scopes') = Len(scopes)
         /\ \A i \in 1..Len(scopes) : /\ scopes'[i].flag = scopes[i].flag
                                      /\ scopes'[i].prereq = scopes[i].prereq
                                      /\ DOMAIN scopes[i].bigSegmentsMemberships
                                           \subseteq DOMAIN scopes'[i].bigSegmentsMemberships
<1> DEFINE n == Len(scopes)
<1>1. scopes # <<>>
  BY BigSegmentStepsInside
<1>2. /\ scopes \in Seq(ScopeRecord) /\ n \in Nat \ {0} /\ Scope = scopes[n]
      /\ scopes[n] \in ScopeRecord
  BY <1>1, ScopeTypes DEF TypeInv, TypeOK
<1>3. /\ Len(scopes') = n /\ \A i \in 1..(n - 1) : scopes'[i] = scopes[i]
  BY ScopeReplaced
<1>4. \A i \in 1..n : i = n \/ i \in 1..(n - 1)
  BY <1>2
<1>5. scopes' # <<>>
  BY <1>2, <1>3
<1>6. SUFFICES /\ scopes'[n].flag = scopes[n].flag
               /\ scopes'[n].prereq = scopes[n].prereq
               /\ DOMAIN scopes[n].bigSegmentsMemberships
                    \subseteq DOMAIN scopes'[n].bigSegmentsMemberships
  BY <1>1, <1>2, <1>3, <1>4, <1>5
<1>7. CASE UNCHANGED scopes
  BY <1>7
<1>8. CASE \E status : scopes' = SetStatus(status)
  BY <1>2, <1>8 DEF SetStatus, ScopeRecord
<1>9. CASE QueryMembership
  <2>1. PICK status, key, membership :
          scopes' = [SetStatus(status) EXCEPT ![n].bigSegmentsMemberships =
                       CacheMembership(@, key, membership)]
    BY <1>9 DEF QueryMembership
  <2>2. SetStatus(status)[n] = [scopes[n] EXCEPT !.bigSegmentsStatus = status]
    BY <1>2 DEF SetStatus
  <2>3. scopes'[n] = [SetStatus(status)[n] EXCEPT !.bigSegmentsMemberships =
                        CacheMembership(@, key, membership)]
    <3>1. DOMAIN SetStatus(status) = 1..n
      BY <1>2 DEF SetStatus
    <3> QED BY <1>2, <2>1, <3>1
  <2>4. DOMAIN scopes[n].bigSegmentsMemberships
          \subseteq DOMAIN CacheMembership(scopes[n].bigSegmentsMemberships, key, membership)
    BY DEF CacheMembership
  <2> QED BY <1>2, <2>2, <2>3, <2>4 DEF ScopeRecord
<1> QED BY <1>7, <1>8, <1>9
        DEF BigSegmentStep, ListedSegment, BigSegmentWithoutGeneration, BigSegmentOfOtherKind,
            MembershipCached, BigSegmentsNotConfigured, QueryMembership

------------------------------------------------------------------------------
(***************************************************************************)
(* The tour.  Whatever has been recorded about a prerequisite is over: the *)
(* loop of some scope has passed it, or it lies within the place where the *)
(* running scope is about to return.  A membership that was asked for is   *)
(* over, too, or it was asked for in the running scope, which has it in    *)
(* its map.                                                                *)
(***************************************************************************)
OverFor(p, place, returning) == Passed(p, place) \/ (returning /\ Within(p, place))
Over(p) == OverFor(p, Positions, evalRet # <<>>)
EventsAreOver == scopes # <<>> => \A i \in 1..Len(events) : Over(events[i].path)
QueryHere(c) ==
  /\ c.path = Path
  /\ c.contextKey[1] \in DOMAIN scopes[Len(scopes)].bigSegmentsMemberships
QueriesAreOver ==
  scopes # <<>> =>
    \A i \in 1..Len(consults) :
      IsDefined(consults[i].contextKey) => Over(consults[i].path) \/ QueryHere(consults[i])
NoEventsBefore == scopes = <<>> /\ result = <<>> => events = <<>>
TourInv == EventsAreOver /\ QueriesAreOver /\ NoEventsBefore

\* The paths in the histories are places.
LEMMA HistoryTypes ==
  ASSUME TypeInv
  PROVE  /\ Len(events) \in Nat /\ DOMAIN events = 1..Len(events)
         /\ \A i \in 1..Len(events) : events[i].path \in Seq(Nat)
         /\ Len(consults) \in Nat /\ DOMAIN consults = 1..Len(consults)
         /\ \A i \in 1..Len(consults) : consults[i].path \in Seq(Nat)
<1>1. events \in Seq(EventRecord) /\ consults \in Seq(ConsultRecord)
  BY DEF TypeInv, TypeOK
<1>2. /\ \A e \in EventRecord : e.path \in Seq(Nat)
      /\ \A c \in ConsultRecord : c.path \in Seq(Nat)
  BY DEF EventRecord, ConsultRecord
<1> QED BY <1>1, <1>2, LenProperties, ElementOfSeq

\* What is over stays over while the running scope works or calls another.
LEMMA OverStays ==
  ASSUME TypeInv, NEW stack \in Seq(ScopeRecord), Len(scopes) <= Len(stack),
         \A i \in 1..Len(scopes) : stack[i].prereq = scopes[i].prereq,
         evalRet = <<>> \/ Len(stack) = Len(scopes),
         NEW p \in Seq(Nat), Over(p)
  PROVE  OverFor(p, PositionsOf(stack), evalRet # <<>>)
<1> DEFINE q == PositionsOf(scopes)
           r == PositionsOf(stack)
<1>1. scopes \in Seq(ScopeRecord) /\ Len(scopes) \in Nat /\ Len(stack) \in Nat
  BY DEF TypeInv, TypeOK
<1>2. /\ q \in Seq(Nat) /\ Len(q) = Len(scopes)
      /\ \A i \in 1..Len(scopes) : q[i] = scopes[i].prereq
      /\ r \in Seq(Nat) /\ Len(r) = Len(stack)
      /\ \A i \in 1..Len(stack) : r[i] = stack[i].prereq
  BY <1>1, PositionTypes
<1>3. \A i \in 1..Len(q) : r[i] = q[i]
  <2>1. \A i \in 1..Len(scopes) : i \in 1..Len(stack)
    BY <1>1
  <2> QED BY <1>2, <2>1
<1>4. Len(q) <= Len(r)
  BY <1>2
<1>5. Passed(p, q) \/ (evalRet # <<>> /\ Within(p, q))
  BY DEF Over, OverFor, Positions
<1> HIDE DEF q, r
<1>6. CASE Passed(p, q)
  BY <1>2, <1>3, <1>4, <1>6, PassedStays DEF OverFor, r
<1>7. CASE evalRet # <<>> /\ Within(p, q)
  BY <1>2, <1>3, <1>7 DEF OverFor, Within, r
<1> QED BY <1>5, <1>6, <1>7

\* When a prerequisite returns, its own place is over, and what was over still is.
LEMMA OverWhenPopped ==
  ASSUME TypeInv, TypeInv', NEW step \in {0, 1}, PrerequisiteReturns, scopes' = AfterPop(step),
         step = 0 => evalRet' # <<>>,
         NEW p \in Seq(Nat), Over(p) \/ p = Path
  PROVE  OverFor(p, PositionsOf(scopes'), evalRet' # <<>>)
<1> DEFINE q == PositionsOf(scopes)
           r == PositionsOf(scopes')
<1>1. /\ scopes # <<>> /\ scopes' # <<>>
      /\ Len(scopes') \in Nat \ {0} /\ Len(scopes) = Len(scopes') + 1
      /\ \A i \in 1..(Len(scopes') - 1) : scopes'[i] = scopes[i]
      /\ scopes'[Len(scopes')].prereq = scopes[Len(scopes')].prereq + step
  BY PositionsPopped
<1>2. scopes \in Seq(ScopeRecord) /\ scopes' \in Seq(ScopeRecord)
  BY DEF TypeInv, TypeOK
<1>3. /\ q \in Seq(Nat) /\ Len(q) = Len(scopes)
      /\ \A i \in 1..Len(scopes) : q[i] = scopes[i].prereq
      /\ r \in Seq(Nat) /\ Len(r) = Len(scopes')
      /\ \A i \in 1..Len(scopes') : r[i] = scopes'[i].prereq
  BY <1>2, PositionTypes
<1>4. \A i \in 1..Len(scopes') : i \in 1..Len(scopes)
  BY <1>1
<1> HIDE DEF q, r
<1>5. /\ Len(r) \in Nat \ {0} /\ Len(q) = Len(r) + 1
      /\ \A k \in 1..(Len(r) - 1) : r[k] = q[k]
      /\ r[Len(r)] = q[Len(r)] + step
  <2>1. \A k \in 1..(Len(scopes') - 1) : k \in 1..Len(scopes')
    BY <1>1
  <2>2. Len(scopes') \in 1..Len(scopes')
    BY <1>1
  <2>3. ASSUME NEW k \in 1..(Len(scopes') - 1) PROVE r[k] = q[k]
    <3>1. k \in 1..Len(scopes') /\ scopes'[k] = scopes[k]
      BY <1>1, <2>1
    <3> QED BY <1>3, <1>4, <3>1
  <2>4. r[Len(scopes')] = q[Len(scopes')] + step
    BY <1>1, <1>3, <1>4, <2>2
  <2> QED BY <1>1, <1>3, <2>3, <2>4
<1>6. Passed(p, q) \/ (Len(r) <= Len(p) /\ \A k \in 1..Len(r) : p[k] = q[k])
  <2>1. CASE Over(p)
    <3>1. CASE Within(p, q)
      <4>1. Len(r) \in Nat /\ Len(p) \in Nat /\ \A k \in 1..Len(r) : k \in 1..Len(q)
        BY <1>5
      <4> QED BY <1>5, <3>1, <4>1 DEF Within
    <3> QED BY <2>1, <3>1 DEF Over, OverFor, Positions, q
  <2>2. CASE p = Path
    <3>1. /\ Len(p) = Len(scopes) - 1
          /\ \A i \in 1..(Len(scopes) - 1) : p[i] = q[i]
      BY <1>1, <2>2, PathTypes DEF Positions, q
    <3>2. Len(scopes) - 1 = Len(r)
      BY <1>1, <1>3
    <3>3. Len(r) <= Len(p)
      BY <1>5, <3>1, <3>2
    <3> QED BY <3>1, <3>2, <3>3
  <2> QED BY <2>1, <2>2
<1>7. (step = 0 => Passed(p, r) \/ Within(p, r)) /\ (step = 1 => Passed(p, r))
  BY <1>3, <1>5, <1>6, OverAfterReturn
<1> QED BY <1>7 DEF OverFor, r

\* Every step is one of these, as far as the tour is concerned.
SameStack ==
  /\ UNCHANGED <<scopes, result, events, consults>>
  /\ evalRet = <<>> \/ UNCHANGED evalRet
Popped(step) == PrerequisiteReturns /\ scopes' = AfterPop(step)
\* The case distinction, under what is known of a state.
LEMMA TourCases ==
  ASSUME EvaluationInv, [Next]_vars
  PROVE  \/ SameStack
         \/ BigSegmentStep
         \/ EvaluatePrerequisite
         \/ PrerequisitePassed /\ Popped(1)
         \/ PrerequisiteFailed /\ Popped(0)
         \/ PrerequisiteInvalid /\ Popped(0)
         \/ ReturnResult
         \/ RejectContext
         \/ EvaluateSome
<1>1. CASE StoreUpdate \/ Returned \/ UNCHANGED vars
  BY <1>1 DEF SameStack, StoreUpdate, UpdateFlag, UpdateSegment, UpdateBigSegments, Returned,
              vars, evaluation
<1>2. CASE Step
  <2>1. InnerStep => SameStack
    BY DEF InnerStep, SameStack
  <2>2. /\ PrerequisitePassed => Popped(1)
        /\ PrerequisiteFailed => Popped(0)
        /\ PrerequisiteInvalid => Popped(0)
    BY DEF PrerequisitePassed, PrerequisiteFailed, PrerequisiteInvalid, Popped
  <2> QED BY <1>2, <2>1, <2>2, StepCases DEF EvaluationInv
<1> QED BY <1>1, <1>2 DEF Next

\* There is a result when the evaluation is over, and not before.
LEMMA ResultEndsAll ==
  ASSUME EvaluationInv
  PROVE  /\ scopes # <<>> => result = <<>>
         /\ evalRet # <<>> => scopes # <<>>
BY DEF EvaluationInv, TypeInv, ControlOK, AnswerInv, ResultIsSound, IsDefined

\* An event is added to those before, or none if there is no recorder.
LEMMA RecordedEvent ==
  ASSUME TypeInv, RecordEvent
  PROVE  /\ Len(events') \in Nat
         /\ \A i \in 1..Len(events) : i \in 1..Len(events') /\ events'[i] = events[i]
         /\ \A i \in 1..Len(events') :
              \/ i \in 1..Len(events) /\ events'[i] = events[i]
              \/ i = Len(events) + 1 /\ events'[i] = PrerequisiteFlagEvent
         /\ RecorderProvided => events'[Len(events) + 1] = PrerequisiteFlagEvent
                                /\ Len(events') = Len(events) + 1
         /\ ~RecorderProvided => events' = events
<1> DEFINE event == PrerequisiteFlagEvent
<1>1. events \in Seq(EventRecord) /\ Len(events) \in Nat
  BY DEF TypeInv, TypeOK
<1> HIDE DEF event
<1>2. CASE RecorderProvided
  <2>1. events' = Append(events, event)
    BY <1>2 DEF RecordEvent, event
  <2>2. /\ Len(events') = Len(events) + 1
        /\ \A i \in 1..Len(events) : events'[i] = events[i]
        /\ events'[Len(events) + 1] = event
    BY <1>1, <2>1
  <2>3. \A i \in 1..Len(events') : i \in 1..Len(events) \/ i = Len(events) + 1
    BY <1>1, <2>2
  <2> QED BY <1>1, <1>2, <2>2, <2>3 DEF event
<1>3. CASE ~RecorderProvided
  BY <1>1, <1>3 DEF RecordEvent
<1> QED BY <1>2, <1>3

\* Every step leaves the recorded prerequisites behind (evaluatePrerequisite's event).
LEMMA EventsStep ==
  ASSUME EvaluationInv, TypeInv', [Next]_vars, EventsAreOver, NoEventsBefore
  PROVE  EventsAreOver' /\ NoEventsBefore'
<1>1. /\ scopes \in Seq(ScopeRecord) /\ scopes' \in Seq(ScopeRecord) /\ Len(scopes) \in Nat
      /\ TypeInv
  BY DEF EvaluationInv, TypeInv, TypeOK
<1>2. \A i \in 1..Len(events) : events[i].path \in Seq(Nat)
  BY <1>1, HistoryTypes
<1>3. scopes # <<>> => \A i \in 1..Len(events) : Over(events[i].path)
  BY DEF EventsAreOver
<1>4. ASSUME UNCHANGED events, scopes # <<>>, scopes' # <<>>, Len(scopes) <= Len(scopes'),
             \A i \in 1..Len(scopes) : scopes'[i].prereq = scopes[i].prereq,
             evalRet = <<>> \/ (UNCHANGED evalRet /\ Len(scopes') = Len(scopes))
      PROVE  EventsAreOver' /\ NoEventsBefore'
  <2>1. \A p \in Seq(Nat) : Over(p) => OverFor(p, PositionsOf(scopes'), evalRet' # <<>>)
    BY <1>1, <1>4, OverStays DEF OverFor
  <2> QED BY <1>2, <1>3, <1>4, <2>1 DEF EventsAreOver, NoEventsBefore, Over, Positions
<1>5. CASE SameStack
  <2>1. CASE scopes # <<>>
    BY <1>1, <1>4, <1>5, <2>1 DEF SameStack
  <2>2. CASE scopes = <<>>
    BY <1>5, <2>2 DEF SameStack, EventsAreOver, NoEventsBefore
  <2> QED BY <2>1, <2>2
<1>6. CASE BigSegmentStep
  <2>1. UNCHANGED <<events, evalRet>>
    BY <1>1, <1>6, BigSegmentStepsInside
  <2> QED BY <1>1, <1>4, <1>6, <2>1, PositionsStay
<1>7. CASE EvaluatePrerequisite
  <2>1. UNCHANGED events /\ evalRet = <<>>
    BY <1>7 DEF EvaluatePrerequisite, AtPrerequisite, BeforeRules
  <2> QED BY <1>1, <1>4, <1>7, <2>1, PositionsPushed
<1>8. ASSUME NEW step \in {0, 1}, Popped(step), RecordEvent \/ UNCHANGED events,
             step = 0 => evalRet' # <<>>
      PROVE  EventsAreOver' /\ NoEventsBefore'
  <2>1. scopes # <<>> /\ scopes' # <<>>
    BY <1>1, <1>8, PositionsPopped DEF Popped
  <2>2. \A p \in Seq(Nat) :
          Over(p) \/ p = Path => OverFor(p, PositionsOf(scopes'), evalRet' # <<>>)
    BY <1>1, <1>8, OverWhenPopped DEF Popped
  <2>3. Path \in Seq(Nat)
    BY <1>1, <2>1, PathTypes
  <2>4. \A i \in 1..Len(events') :
          OverFor(events'[i].path, PositionsOf(scopes'), evalRet' # <<>>)
    <3>1. CASE UNCHANGED events
      BY <1>2, <1>3, <2>1, <2>2, <3>1
    <3>2. CASE RecordEvent
      <4>1. PrerequisiteFlagEvent.path = Path
        BY DEF PrerequisiteFlagEvent
      <4>2. TAKE i \in 1..Len(events')
      <4>3. \/ i \in 1..Len(events) /\ events'[i] = events[i]
            \/ events'[i] = PrerequisiteFlagEvent
        BY <1>1, <3>2, RecordedEvent
      <4> QED BY <1>2, <1>3, <2>1, <2>2, <2>3, <4>1, <4>3
    <3> QED BY <1>8, <3>1, <3>2
  <2> QED BY <2>1, <2>4 DEF EventsAreOver, NoEventsBefore, Over, Positions
<1>9. CASE PrerequisitePassed /\ Popped(1)
  BY <1>8, <1>9 DEF PrerequisitePassed
<1>10. CASE PrerequisiteFailed /\ Popped(0)
  <2>1. RecordEvent /\ evalRet' # <<>>
    BY <1>10 DEF PrerequisiteFailed
  <2> QED BY <1>8, <1>10, <2>1
<1>11. CASE PrerequisiteInvalid /\ Popped(0)
  <2>1. UNCHANGED events /\ evalRet' # <<>>
    BY <1>11 DEF PrerequisiteInvalid
  <2> QED BY <1>8, <1>11, <2>1
<1>12. CASE ReturnResult
  BY <1>12 DEF ReturnResult, EventsAreOver, NoEventsBefore
<1>13. CASE RejectContext
  BY <1>13 DEF RejectContext, EventsAreOver, NoEventsBefore
<1>14. CASE EvaluateSome
  <2>1. events' = <<>> /\ scopes' # <<>>
    BY <1>14 DEF EvaluateSome, Evaluate, NoEventsBefore
  <2> QED BY <2>1 DEF EventsAreOver, NoEventsBefore
<1> QED BY <1>5, <1>6, <1>7, <1>9, <1>10, <1>11, <1>12, <1>13, <1>14, TourCases

\* What has been recorded comes before the place of the running scope's caller.
LEMMA EventsComeBefore ==
  ASSUME TypeInv, EventsAreOver, scopes # <<>>
  PROVE  \A i \in 1..Len(events) : VisitedBefore(events[i].path, Path) /\ events[i].path # Path
<1>1. /\ Path \in Seq(Nat) /\ Positions \in Seq(Nat) /\ Len(Positions) = Len(Path) + 1
      /\ \A k \in 1..Len(Path) : Path[k] = Positions[k]
  <2>1. Len(scopes) \in Nat
    BY DEF TypeInv, TypeOK
  <2> QED BY <2>1, PathTypes
<1> TAKE i \in 1..Len(events)
<1>2. events[i].path \in Seq(Nat) /\ Over(events[i].path)
  BY HistoryTypes DEF EventsAreOver
<1> QED BY <1>1, <1>2, OverComesBefore DEF Over, OverFor

\* A new event is later in the tour than every event before it.
LEMMA PostOrderStep ==
  ASSUME EvaluationInv, [Next]_vars, EventsAreOver, EventsInPostOrder
  PROVE  EventsInPostOrder'
<1>1. TypeInv
  BY DEF EvaluationInv
<1>2. CASE UNCHANGED events
  BY <1>2 DEF EventsInPostOrder
<1>3. CASE PrerequisiteReturns /\ RecordEvent
  <2>1. scopes # <<>>
    BY <1>3, ResultEndsAll DEF PrerequisiteReturns, IsDefined
  <2>2. \A i \in 1..Len(events) : VisitedBefore(events[i].path, Path)
    BY <1>1, <2>1, EventsComeBefore
  <2>3. PrerequisiteFlagEvent.path = Path
    BY DEF PrerequisiteFlagEvent
  <2>4. /\ Len(events) \in Nat /\ DOMAIN events = 1..Len(events)
    BY <1>1, HistoryTypes
  <2>5. Len(events') \in Nat /\ DOMAIN events' = 1..Len(events')
    <3>1. CASE RecorderProvided
      BY <1>1, <1>3, <3>1 DEF TypeInv, TypeOK, RecordEvent
    <3>2. CASE ~RecorderProvided
      BY <1>3, <2>4, <3>2 DEF RecordEvent
    <3> QED BY <3>1, <3>2
  <2>6. ASSUME NEW i \in 1..Len(events'), NEW j \in 1..Len(events'), i < j
        PROVE  VisitedBefore(events'[i].path, events'[j].path)
    <3>1. i \in 1..Len(events) /\ events'[i] = events[i]
      <4>1. i # Len(events) + 1
        <5>1. j \in 1..(Len(events) + 1)
          BY <1>1, <1>3, <2>4, RecordedEvent
        <5> QED BY <2>4, <2>6, <5>1
      <4> QED BY <1>1, <1>3, <4>1, RecordedEvent
    <3>2. CASE j \in 1..Len(events) /\ events'[j] = events[j]
      BY <2>4, <2>6, <3>1, <3>2 DEF EventsInPostOrder
    <3>3. CASE events'[j] = PrerequisiteFlagEvent
      BY <2>2, <2>3, <3>1, <3>3
    <3> QED BY <1>1, <1>3, <3>2, <3>3, RecordedEvent
  <2> QED BY <2>5, <2>6 DEF EventsInPostOrder
<1>4. UNCHANGED events \/ (PrerequisiteReturns /\ RecordEvent)
  BY <1>1, TourCases, BigSegmentStepsInside
     DEF SameStack, EvaluatePrerequisite, PrerequisitePassed, PrerequisiteFailed,
         PrerequisiteInvalid, ReturnResult, RejectContext, EvaluateSome, Evaluate
<1> QED BY <1>2, <1>3, <1>4

\* Another status is added to those before.
LEMMA AddedConsult ==
  ASSUME TypeInv, NEW key, NEW status, Consulted(key, status)
  PROVE  /\ Len(consults') = Len(consults) + 1 /\ DOMAIN consults' = 1..Len(consults')
         /\ \A i \in 1..Len(consults) : consults'[i] = consults[i]
         /\ consults'[Len(consults) + 1].path = Path
         /\ consults'[Len(consults) + 1].contextKey = key
         /\ consults'[Len(consults) + 1].status = status
<1> DEFINE consult == [path |-> Path, contextKey |-> key, status |-> status]
<1>1. consults \in Seq(ConsultRecord) /\ Len(consults) \in Nat
  BY DEF TypeInv, TypeOK
<1>2. /\ consults' = Append(consults, consult)
      /\ consult.path = Path /\ consult.contextKey = key /\ consult.status = status
  BY DEF Consulted
<1> HIDE DEF consult
<1>3. /\ Len(consults') = Len(consults) + 1 /\ DOMAIN consults' = 1..Len(consults')
      /\ \A i \in 1..Len(consults) : consults'[i] = consults[i]
      /\ consults'[Len(consults) + 1] = consult
  BY <1>1, <1>2
<1> QED BY <1>2, <1>3

\* A membership that is asked for goes into the map of the running scope.
LEMMA QueriedKeyIsCached ==
  ASSUME TypeInv, QueryMembership
  PROVE  BigSegmentKey[1] \in DOMAIN scopes'[Len(scopes)].bigSegmentsMemberships
<1> DEFINE n == Len(scopes)
<1>1. scopes # <<>>
  BY BigSegmentStepsInside DEF BigSegmentStep
<1>2. scopes \in Seq(ScopeRecord) /\ n \in Nat \ {0} /\ scopes[n] \in ScopeRecord
  BY <1>1, ScopeTypes DEF TypeInv, TypeOK
<1>3. PICK status, membership :
        scopes' = [SetStatus(status) EXCEPT ![n].bigSegmentsMemberships =
                     CacheMembership(@, BigSegmentKey[1], membership)]
  BY DEF QueryMembership
<1>4. SetStatus(status)[n] = [scopes[n] EXCEPT !.bigSegmentsStatus = status]
      /\ DOMAIN SetStatus(status) = 1..n
  BY <1>2 DEF SetStatus
<1>5. scopes'[n] = [SetStatus(status)[n] EXCEPT !.bigSegmentsMemberships =
                      CacheMembership(@, BigSegmentKey[1], membership)]
  BY <1>2, <1>3, <1>4
<1>6. \A memberships : BigSegmentKey[1]
                         \in DOMAIN CacheMembership(memberships, BigSegmentKey[1], membership)
  BY DEF CacheMembership
<1> QED BY <1>2, <1>4, <1>5, <1>6 DEF ScopeRecord

\* Nothing has been asked at the place of the running scope that is not in its map.
LEMMA QueriedHereIsCached ==
  ASSUME TypeInv, QueriesAreOver, scopes # <<>>, NEW i \in 1..Len(consults),
         IsDefined(consults[i].contextKey), consults[i].path = Path
  PROVE  consults[i].contextKey[1] \in DOMAIN scopes[Len(scopes)].bigSegmentsMemberships
<1>1. /\ Path \in Seq(Nat) /\ Positions \in Seq(Nat) /\ Len(Positions) = Len(Path) + 1
      /\ \A k \in 1..Len(Path) : Path[k] = Positions[k]
  <2>1. Len(scopes) \in Nat
    BY DEF TypeInv, TypeOK
  <2> QED BY <2>1, PathTypes
<1>2. ~Over(Path)
  <2>1. \A r, q \in Seq(Nat) :
          Len(q) = Len(r) + 1 /\ (\A k \in 1..Len(r) : r[k] = q[k]) =>
            ~Passed(r, q) /\ ~Within(r, q)
    BY OverComesBefore, Zenon
  <2> QED BY <1>1, <2>1, Zenon DEF Over, OverFor
<1>3. QueryHere(consults[i]) \/ Over(consults[i].path)
  BY DEF QueriesAreOver
<1> QED BY <1>2, <1>3 DEF QueryHere

\* Every step leaves the memberships that were asked for behind, or in the map.
LEMMA QueriesStep ==
  ASSUME EvaluationInv, MembershipInv, StatusInv, TypeInv', [Next]_vars, QueriesAreOver
  PROVE  QueriesAreOver'
<1> DEFINE asked(i) == IsDefined(consults[i].contextKey)
<1>1. /\ scopes \in Seq(ScopeRecord) /\ scopes' \in Seq(ScopeRecord) /\ Len(scopes) \in Nat
      /\ TypeInv
  BY DEF EvaluationInv, TypeInv, TypeOK
<1>2. /\ \A i \in 1..Len(consults) : consults[i].path \in Seq(Nat)
      /\ Len(consults) \in Nat
  BY <1>1, HistoryTypes
<1>3. scopes # <<>> => \A i \in 1..Len(consults) :
                         asked(i) => Over(consults[i].path) \/ QueryHere(consults[i])
  BY DEF QueriesAreOver
<1>4. CASE SameStack
  <2>1. CASE scopes # <<>>
    <3>1. \A p \in Seq(Nat) : Over(p) => OverFor(p, PositionsOf(scopes'), evalRet' # <<>>)
      BY <1>1, <1>4, <2>1, OverStays DEF SameStack, OverFor
    <3>2. Path' = Path
      BY <1>4 DEF SameStack, Path
    <3> QED BY <1>2, <1>3, <1>4, <2>1, <3>1, <3>2
            DEF SameStack, QueriesAreOver, QueryHere, Over, Positions
  <2>2. CASE scopes = <<>>
    BY <1>4, <2>2 DEF SameStack, QueriesAreOver
  <2> QED BY <2>1, <2>2
<1>5. CASE BigSegmentStep
  <2>1. /\ scopes # <<>> /\ scopes' # <<>> /\ evalRet = <<>> /\ UNCHANGED evalRet
        /\ Len(scopes) \in Nat \ {0} /\ Len(scopes') = Len(scopes)
        /\ \A i \in 1..Len(scopes) : /\ scopes'[i].prereq = scopes[i].prereq
                                     /\ DOMAIN scopes[i].bigSegmentsMemberships
                                          \subseteq DOMAIN scopes'[i].bigSegmentsMemberships
    BY <1>1, <1>5, PositionsStay, BigSegmentStepsInside
  <2>2. \A p \in Seq(Nat) : Over(p) => OverFor(p, PositionsOf(scopes'), evalRet' # <<>>)
    BY <1>1, <2>1, OverStays
  <2>3. Path' = Path
    BY <2>1 DEF Path
  <2>4. \A i \in 1..Len(consults) : asked(i) =>
          \/ OverFor(consults[i].path, PositionsOf(scopes'), evalRet' # <<>>)
          \/ /\ consults[i].path = Path'
             /\ consults[i].contextKey[1] \in DOMAIN scopes'[Len(scopes')].bigSegmentsMemberships
    BY <1>2, <1>3, <2>1, <2>2, <2>3 DEF QueryHere
  <2>5. CASE UNCHANGED consults
    BY <2>4, <2>5 DEF QueriesAreOver, QueryHere, Over, Positions
  <2>6. ASSUME NEW key, NEW status, Consulted(key, status),
               IsDefined(key) => key[1] \in DOMAIN scopes'[Len(scopes)].bigSegmentsMemberships
        PROVE  QueriesAreOver'
    <3>1. /\ Len(consults') = Len(consults) + 1
          /\ \A i \in 1..Len(consults) : consults'[i] = consults[i]
          /\ consults'[Len(consults) + 1].path = Path
          /\ consults'[Len(consults) + 1].contextKey = key
      BY <1>1, <2>6, AddedConsult
    <3>2. \A i \in 1..Len(consults') : i \in 1..Len(consults) \/ i = Len(consults) + 1
      BY <1>2, <3>1
    <3> QED BY <2>1, <2>3, <2>4, <2>6, <3>1, <3>2 DEF QueriesAreOver, QueryHere, Over, Positions
  <2>7. CASE QueryMembership
    <3>1. PICK status : Consulted(<<BigSegmentKey[1]>>, status)
      BY <2>7 DEF QueryMembership
    <3>2. BigSegmentKey[1] \in DOMAIN scopes'[Len(scopes)].bigSegmentsMemberships
      BY <1>1, <2>7, QueriedKeyIsCached
    <3> QED BY <2>6, <3>1, <3>2
  <2>8. CASE BigSegmentWithoutGeneration \/ BigSegmentsNotConfigured
    BY <2>6, <2>8 DEF BigSegmentWithoutGeneration, BigSegmentsNotConfigured, IsDefined
  <2>9. CASE ListedSegment \/ BigSegmentOfOtherKind \/ MembershipCached
    BY <2>5, <2>9 DEF ListedSegment, BigSegmentOfOtherKind, MembershipCached
  <2> QED BY <1>5, <2>7, <2>8, <2>9 DEF BigSegmentStep
<1>6. CASE EvaluatePrerequisite
  <2>1. UNCHANGED <<consults, evalRet>> /\ evalRet = <<>> /\ walks = <<>>
    BY <1>6 DEF EvaluatePrerequisite, AtPrerequisite, BeforeRules
  <2>2. /\ scopes # <<>> /\ Len(scopes') = Len(scopes) + 1
        /\ \A i \in 1..Len(scopes) : scopes'[i].prereq = scopes[i].prereq
    BY <1>1, <1>6, PositionsPushed
  <2>3. DOMAIN scopes[Len(scopes)].bigSegmentsMemberships = {}
    BY <2>1, <2>2 DEF MembershipInv, RunningScopeIsFresh, NoMemberships
  <2>4. \A p \in Seq(Nat) : Over(p) => OverFor(p, PositionsOf(scopes'), evalRet' # <<>>)
    BY <1>1, <2>1, <2>2, OverStays
  <2> QED BY <1>2, <1>3, <2>1, <2>2, <2>3, <2>4
          DEF QueriesAreOver, QueryHere, Over, Positions
<1>7. ASSUME NEW step \in {0, 1}, Popped(step), UNCHANGED consults,
             step = 0 => evalRet' # <<>>
      PROVE  QueriesAreOver'
  <2>1. scopes # <<>>
    <3>1. Len(scopes) > 1
      BY <1>7 DEF Popped, PrerequisiteReturns
    <3> QED BY <3>1
  <2>2. \A p \in Seq(Nat) :
          Over(p) \/ p = Path => OverFor(p, PositionsOf(scopes'), evalRet' # <<>>)
    BY <1>1, <1>7, OverWhenPopped DEF Popped
  <2> QED BY <1>2, <1>3, <1>7, <2>1, <2>2 DEF QueriesAreOver, QueryHere, Over, Positions
<1>8. CASE PrerequisitePassed /\ Popped(1)
  BY <1>7, <1>8 DEF PrerequisitePassed
<1>9. CASE (PrerequisiteFailed \/ PrerequisiteInvalid) /\ Popped(0)
  <2>1. UNCHANGED consults
    BY <1>9, Zenon DEF PrerequisiteFailed, PrerequisiteInvalid
  <2>2. \A x : <<x>> # <<>>
    OBVIOUS
  <2>3. \E x : evalRet' = <<x>>
    BY <1>9, Zenon DEF PrerequisiteFailed, PrerequisiteInvalid
  <2> QED BY <1>7, <1>9, <2>1, <2>2, <2>3
<1>10. CASE ReturnResult \/ RejectContext
  BY <1>10 DEF ReturnResult, RejectContext, QueriesAreOver
<1>11. CASE EvaluateSome
  <2>1. consults' = <<>>
    BY <1>11 DEF EvaluateSome, Evaluate, StatusInv, NothingSeenBefore
  <2> QED BY <2>1 DEF QueriesAreOver
<1> QED BY <1>4, <1>5, <1>6, <1>8, <1>9, <1>10, <1>11, TourCases

\* A key that is asked for again at the same place would have been found in the map.
LEMMA QueriedOnceStep ==
  ASSUME EvaluationInv, [Next]_vars, QueriesAreOver, QueriedOncePerScope
  PROVE  QueriedOncePerScope'
<1>1. TypeInv
  BY DEF EvaluationInv
<1>2. CASE UNCHANGED consults
  BY <1>2 DEF QueriedOncePerScope, SameQuery
<1>3. ASSUME BigSegmentStep, NEW key, NEW status, Consulted(key, status),
             IsDefined(key) =>
               /\ key = <<key[1]>>
               /\ key[1] \notin DOMAIN scopes[Len(scopes)].bigSegmentsMemberships
      PROVE  QueriedOncePerScope'
  <2> DEFINE m == Len(consults) + 1
  <2>1. scopes # <<>>
    BY <1>1, <1>3, BigSegmentStepsInside
  <2>2. /\ DOMAIN consults = 1..Len(consults) /\ Len(consults) \in Nat
        /\ DOMAIN consults' = 1..m
        /\ \A i \in 1..Len(consults) : consults'[i] = consults[i]
        /\ consults'[m].path = Path /\ consults'[m].contextKey = key
    BY <1>1, <1>3, AddedConsult, HistoryTypes
  <2>3. \A i \in 1..Len(consults) :
          consults[i].path = Path /\ IsDefined(key) => consults[i].contextKey # key
    BY <1>1, <1>3, <2>1, QueriedHereIsCached
  <2>4. \A i \in 1..m : i \in 1..Len(consults) \/ i = m
    BY <2>2
  <2> HIDE DEF m
  <2>5. ASSUME NEW i \in 1..m, NEW j \in 1..m,
               SameQuery(consults'[i], consults'[j]), consults'[i].path = consults'[j].path
        PROVE  i = j
    <3>1. CASE i \in 1..Len(consults) /\ j \in 1..Len(consults)
      BY <2>2, <2>5, <3>1 DEF QueriedOncePerScope
    <3>2. CASE i \in 1..Len(consults) /\ j = m
      BY <2>2, <2>3, <2>5, <3>2 DEF SameQuery
    <3>3. CASE i = m /\ j \in 1..Len(consults)
      BY <2>2, <2>3, <2>5, <3>3 DEF SameQuery
    <3> QED BY <2>4, <3>1, <3>2, <3>3
  <2> QED BY <2>2, <2>5 DEF QueriedOncePerScope, SameQuery
<1>4. CASE QueryMembership
  <2>1. scopes # <<>> /\ BigSegmentStep
    BY <1>1, <1>4, BigSegmentStepsInside DEF BigSegmentStep
  <2>2. Scope = scopes[Len(scopes)]
    BY <1>1, <2>1, ScopeTypes DEF TypeInv
  <2>3. /\ BigSegmentKey[1] \notin DOMAIN scopes[Len(scopes)].bigSegmentsMemberships
        /\ \E status : Consulted(<<BigSegmentKey[1]>>, status)
    BY <1>4, <2>2 DEF QueryMembership
  <2> QED BY <1>3, <2>1, <2>3
<1>5. CASE BigSegmentWithoutGeneration \/ BigSegmentsNotConfigured
  <2>1. BigSegmentStep /\ Consulted(<<>>, "NOT_CONFIGURED")
    BY <1>5 DEF BigSegmentStep, BigSegmentWithoutGeneration, BigSegmentsNotConfigured
  <2> QED BY <1>3, <2>1 DEF IsDefined
<1>6. UNCHANGED consults \/ QueryMembership
        \/ BigSegmentWithoutGeneration \/ BigSegmentsNotConfigured
  BY TourCases
     DEF BigSegmentStep, ListedSegment, BigSegmentOfOtherKind, MembershipCached,
         SameStack, EvaluatePrerequisite, PrerequisitePassed, PrerequisiteFailed,
         PrerequisiteInvalid, ReturnResult, RejectContext, EvaluateSome, Evaluate
<1> QED BY <1>2, <1>4, <1>5, <1>6

\* Everything that the theorems below need of a state.
TourStateInv ==
  /\ EvaluationInv /\ MembershipInv /\ StatusInv /\ TourInv
  /\ EventsInPostOrder /\ QueriedOncePerScope

\* The invariant of the tour holds throughout an evaluation.
LEMMA EvaluationKeepsTour == Spec => []TourStateInv
<1>1. Init => TourStateInv
  <2>1. Init => EvaluationInv
    BY InitTypes, InitKinds, InitAnswers DEF EvaluationInv
  <2> QED BY <2>1 DEF Init, TourStateInv, MembershipInv, NoSharedMemberships,
               RunningScopeIsFresh, StatusInv, WaitingScopesHaveSeen, RunningScopeHasWorst,
               NothingSeenBefore, OverWhenReturned, ResultHasWorst, IsDefined, TourInv,
               EventsAreOver, QueriesAreOver, NoEventsBefore, EventsInPostOrder,
               QueriedOncePerScope
<1>2. TourStateInv /\ [Next]_vars => TourStateInv'
  <2> SUFFICES ASSUME TourStateInv, [Next]_vars PROVE TourStateInv'
    OBVIOUS
  <2>1. EvaluationInv /\ TypeInv /\ MembershipInv /\ StatusInv /\ TourInv
    BY DEF TourStateInv, EvaluationInv
  <2>2. EvaluationInv' /\ TypeInv'
    BY <2>1, NextTypes, SegmentNestingStep, NextKinds, AnswerStep DEF EvaluationInv
  <2>3. MembershipInv' /\ StatusInv'
    BY <2>1, MembershipStep, StatusStep
  <2>4. EventsAreOver' /\ NoEventsBefore' /\ QueriesAreOver'
    BY <2>1, <2>2, EventsStep, QueriesStep DEF TourInv
  <2>5. EventsInPostOrder' /\ QueriedOncePerScope'
    BY <2>1, PostOrderStep, QueriedOnceStep DEF TourInv, TourStateInv
  <2> QED BY <2>2, <2>3, <2>4, <2>5 DEF TourStateInv, TourInv
<1> QED BY <1>1, <1>2, PTL DEF Spec

\* Prerequisites are recorded in post-order, each at a place of its own, however deep they
\* nest and whatever the data store does meanwhile.
THEOREM EventsFollowTheTour == Spec => []EventsInPostOrder
BY EvaluationKeepsTour, PTL DEF TourStateInv

\* A scope never asks twice for the memberships of one context key.
THEOREM QueriesAreMadeOnce == Spec => []QueriedOncePerScope
BY EvaluationKeepsTour, PTL DEF TourStateInv
==============================================================================
