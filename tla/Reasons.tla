------------------------------- MODULE Reasons -------------------------------
(***************************************************************************)
(* Evaluation reasons and details (external, package ldreason), the error  *)
(* kinds of errors.go, and the ordering of big segment statuses.           *)
(***************************************************************************)
EXTENDS LDModel

(***************************************************************************)
(* Big segment statuses.  "" means that no big segment was consulted.      *)
(***************************************************************************)
NoStatus == ""
ProviderStatus == {"HEALTHY", "STALE", "STORE_ERROR", "NOT_CONFIGURED"}
BigSegmentsStatus == ProviderStatus \cup {NoStatus}

GetBigSegmentsStatusPriority(status) ==
  CASE status = "STALE"          -> 1
    [] status = "STORE_ERROR"    -> 2
    [] status = "NOT_CONFIGURED" -> 3
    [] OTHER                     -> 0

\* Mutant: the latest status replaces a worse one.
LatestBigSegmentsStatus(old, new) == new

ComputeUpdatedBigSegmentsStatus(old, new) ==
  IF /\ old # NoStatus
     /\ GetBigSegmentsStatusPriority(old) > GetBigSegmentsStatusPriority(new)
  THEN old
  ELSE new

(***************************************************************************)
(* Errors.  Every error type of errors.go has an errorKind() except        *)
(* circularSegmentReferenceError, which is meant to travel inside a        *)
(* malformedSegmentError only.                                             *)
(***************************************************************************)
NoError == "nil"
EvalErrors == {"badVariation", "emptyAttrRef", "badAttrRef", "emptyRollout",
               "circularPrereq", "malformedSegment"}
Errors == EvalErrors \cup {"circularSegment"}

\* Mutant: the error itself instead of its kind.
ErrorAsItsOwnKind(err) == err

ErrorKindForError(err) == IF err \in EvalErrors THEN "MALFORMED_FLAG" ELSE "EXCEPTION"
ErrorKinds == {"MALFORMED_FLAG", "EXCEPTION", "USER_NOT_SPECIFIED"}

(***************************************************************************)
(* Reasons and details.  ruleIndex counts from 0, as in the code; -1 is no *)
(* rule.                                                                   *)
(***************************************************************************)
ReasonKinds == {"", "OFF", "FALLTHROUGH", "TARGET_MATCH", "RULE_MATCH",
                "PREREQUISITE_FAILED", "ERROR"}
Reason == [kind: ReasonKinds, errorKind: ErrorKinds \cup {""}, ruleIndex: Int,
           inExperiment: BOOLEAN, prerequisiteKey: FlagKeys \cup {""},
           bigSegmentsStatus: BigSegmentsStatus]

NewReason(kind) ==
  [kind |-> kind, errorKind |-> "", ruleIndex |-> -1, inExperiment |-> FALSE,
   prerequisiteKey |-> "", bigSegmentsStatus |-> NoStatus]
RuleMatchReason(ruleIndex) == [NewReason("RULE_MATCH") EXCEPT !.ruleIndex = ruleIndex]
PrerequisiteFailedReason(key) ==
  [NewReason("PREREQUISITE_FAILED") EXCEPT !.prerequisiteKey = key]
ErrorReason(errorKind) == [NewReason("ERROR") EXCEPT !.errorKind = errorKind]

\* A detail has a variation index, or none when the caller's default applies.
Detail == [variation: Optional(Int), reason: Reason]
NewDetail(index, reason) == [variation |-> <<index>>, reason |-> reason]
DefaultDetail(reason) == [variation |-> <<>>, reason |-> reason]
ErrorDetail(errorKind) == DefaultDetail(ErrorReason(errorKind))
IsDefaultValue(detail) == ~IsDefined(detail.variation)

ReasonToExperimentReason(reason) ==
  IF reason.kind \in {"FALLTHROUGH", "RULE_MATCH"}
  THEN [reason EXCEPT !.inExperiment = TRUE]
  ELSE reason

\* Whether events for this result must carry full detail (legacy rule exclusion logic).
IsExperiment(flag, reason) ==
  \/ reason.inExperiment
  \/ reason.kind = "FALLTHROUGH" /\ flag.trackEventsFallthrough
  \/ /\ reason.kind = "RULE_MATCH"
     /\ reason.ruleIndex + 1 \in DOMAIN flag.rules
     /\ flag.rules[reason.ruleIndex + 1].trackEvents
==============================================================================
