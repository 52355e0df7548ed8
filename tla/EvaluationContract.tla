-------------------------- MODULE EvaluationContract --------------------------
(***************************************************************************)
(* What the caller of Evaluator.Evaluate sees of one call, and nothing of  *)
(* how it is computed: the big segment store being asked, prerequisite     *)
(* events and log messages arriving one at a time, and the result.         *)
(***************************************************************************)
EXTENDS Reasons

VARIABLES
  phase,      \* "idle", "running", "failing" or "returned"
  status,     \* the worst status that the big segment store has answered
  events,     \* the calls of the event recorder
  consults,   \* the answers of the big segment store
  log,        \* the calls of the error logger
  result      \* the result, if there is one

vars == <<phase, status, events, consults, log, result>>

Init ==
  /\ phase = "idle" /\ status = NoStatus
  /\ events = <<>> /\ consults = <<>> /\ log = <<>> /\ result = <<>>

\* Histories only grow, by one element at a time.
Kept(history, later) == \A i \in 1..Len(history) : later[i] = history[i]
OneMore(history, later) == Len(later) = Len(history) + 1 /\ Kept(history, later)
AtMostOneMore(history, later) == later = history \/ OneMore(history, later)

Start ==
  /\ phase = "idle" /\ phase' = "running"
  /\ UNCHANGED <<status, events, consults, log, result>>

\* An invalid context: an error, without any other call.
Reject ==
  /\ phase = "idle" /\ phase' = "returned"
  /\ result' = <<[detail |-> ErrorDetail("USER_NOT_SPECIFIED"), isExperiment |-> FALSE]>>
  /\ UNCHANGED <<status, events, consults, log>>

\* The status only gets worse.
Consult ==
  /\ phase = "running" /\ phase' = "running"
  /\ OneMore(consults, consults')
  /\ LET seen == consults'[Len(consults')].status
     IN  status' = ComputeUpdatedBigSegmentsStatus(status, seen)
  /\ UNCHANGED <<events, log, result>>

\* A prerequisite has been evaluated, for the first time at this place; its outcome may be
\* an error to be logged.
Record ==
  /\ phase = "running" /\ phase' = "running"
  /\ OneMore(events, events')
  /\ \A i \in 1..Len(events) : events[i].path # events'[Len(events')].path
  /\ AtMostOneMore(log, log')
  /\ UNCHANGED <<status, consults, result>>

\* An error in one of the flags, after which the evaluation goes on.
LogError ==
  /\ phase = "running" /\ phase' = "running"
  /\ OneMore(log, log')
  /\ UNCHANGED <<status, events, consults, result>>

\* An error that concerns the whole evaluation.
GiveUp ==
  /\ phase = "running" /\ phase' = "failing"
  /\ OneMore(log, log')
  /\ ErrorKindForError(log'[Len(log')].err) = "MALFORMED_FLAG"
  /\ UNCHANGED <<status, events, consults, result>>

IsMalformed(detail) == detail.reason.kind = "ERROR" /\ detail.reason.errorKind = "MALFORMED_FLAG"

\* The result carries the status, and an error in it has been logged.  After giving up,
\* nothing but the error comes back.
Answer ==
  /\ phase \in {"running", "failing"} /\ phase' = "returned"
  /\ Len(result') = 1
  /\ LET detail == result'[1].detail
     IN  /\ detail.reason.bigSegmentsStatus = status
         /\ detail.reason.kind = "ERROR" => IsMalformed(detail) /\ detail.variation = <<>>
         /\ detail.reason.kind = "ERROR" => log # <<>>
         /\ phase = "failing" => IsMalformed(detail)
  /\ UNCHANGED <<status, events, consults, log>>

Next == Start \/ Reject \/ Consult \/ Record \/ LogError \/ GiveUp \/ Answer
Spec == Init /\ [][Next]_vars
==============================================================================
