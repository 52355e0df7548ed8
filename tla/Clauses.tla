------------------------------- MODULE Clauses -------------------------------
(***************************************************************************)
(* Matching one clause that is not a segment match against a context       *)
(* (evaluator_clause.go), with the accessors of ldmodel/eval_accessors.go  *)
(* that read a clause's values either as they are or preprocessed.         *)
(*                                                                         *)
(* What Go's libraries compute on strings is given by tables: StringTests  *)
(* holds <<operator, context string, clause string>> for every test that   *)
(* is true, and the parse tables map the strings that parse.               *)
(***************************************************************************)
EXTENDS Reasons

CONSTANTS
  StringTests,     \* strings.HasPrefix, HasSuffix and Contains
  Regexps,         \* valid regular expression -> the strings it matches
  Timestamps,      \* valid RFC3339 string -> time
  SemVers,         \* valid semantic version -> rank in precedence order
  ZeroTime,        \* Go's zero time.Time, which IsZero() recognises
  MillisLimit      \* numbers of milliseconds in [-MillisLimit, MillisLimit) fit in int64 nanoseconds

ASSUME ClauseTablesAssumption ==
  /\ \A s \in DOMAIN Regexps : Regexps[s] \subseteq STRING
  /\ \A s \in DOMAIN Timestamps : Timestamps[s] \in Int
  /\ \A s \in DOMAIN SemVers : SemVers[s] \in Int
  /\ ZeroTime \in Int
  /\ MillisLimit \in Nat \ {0}

NoSemVer == 0

IsString(v) == Type(v) = "string"
IsNumber(v) == Type(v) = "number"

(***************************************************************************)
(* Conversions.  Each yields an optional result.  A number is truncated    *)
(* towards zero to whole milliseconds, and the product with the number of  *)
(* nanoseconds in a millisecond wraps around int64.                        *)
(***************************************************************************)
TruncateToInt(halves) == IF halves >= 0 THEN halves \div 2 ELSE -((-halves) \div 2)
UnixMillisToUtcTime(millis) == ((millis + MillisLimit) % (2 * MillisLimit)) - MillisLimit

ParseRegexp(v) ==
  IF IsString(v) /\ v[2] \in DOMAIN Regexps THEN <<Regexps[v[2]]>> ELSE <<>>
ValueToTimestamp(v) ==
  CASE IsString(v) /\ v[2] \in DOMAIN Timestamps -> <<Timestamps[v[2]]>>
    [] IsNumber(v)                               -> <<UnixMillisToUtcTime(TruncateToInt(v[2]))>>
    [] OTHER                                     -> <<>>
ValueToSemanticVersion(v) ==
  IF IsString(v) /\ v[2] \in DOMAIN SemVers THEN <<SemVers[v[2]]>> ELSE <<>>

(***************************************************************************)
(* Preprocessing.                                                          *)
(***************************************************************************)
DateOperators == {"before", "after"}
SemVerOperators == {"semVerEqual", "semVerLessThan", "semVerGreaterThan"}

\* The parsed form of one value of a clause; a failed parse leaves Go's zero values.
PreprocessValue(op, v) ==
  LET r == IF op = "matches" THEN ParseRegexp(v) ELSE <<>>
      t == IF op \in DateOperators THEN ValueToTimestamp(v) ELSE <<>>
      s == IF op \in SemVerOperators THEN ValueToSemanticVersion(v) ELSE <<>>
  IN  [valid  |-> \E o \in {r, t, s} : IsDefined(o),
       regexp |-> r,
       time   |-> IF IsDefined(t) THEN t[1] ELSE ZeroTime,
       semver |-> IF IsDefined(s) THEN s[1] ELSE NoSemVer]

ValuesMap(c) ==
  IF c.op = "in" /\ Len(c.values) > 1 /\ \A i \in DOMAIN c.values : IsPrimitive(c.values[i])
  THEN <<{c.values[i] : i \in DOMAIN c.values}>>
  ELSE <<>>

PreprocessClause(c) ==
  [c EXCEPT !.preprocessed =
     [valuesMap |-> ValuesMap(c),
      values    |-> IF c.op \in {"matches"} \cup DateOperators \cup SemVerOperators
                    THEN <<[i \in DOMAIN c.values |-> PreprocessValue(c.op, c.values[i])]>>
                    ELSE <<>>]]

(***************************************************************************)
(* Accessors: the preprocessed data if it is there, else the value itself. *)
(***************************************************************************)
ClauseFindValue(c, value) ==
  /\ IsPrimitive(value)
  /\ IF IsDefined(c.preprocessed.valuesMap)
     THEN value \in c.preprocessed.valuesMap[1]
     ELSE \E i \in DOMAIN c.values : c.values[i] = value

ClauseGetValueAsRegexp(c, i) ==
  IF IsDefined(c.preprocessed.values)
  THEN c.preprocessed.values[1][i].regexp
  ELSE ParseRegexp(c.values[i])

ClauseGetValueAsTimestamp(c, i) ==
  IF IsDefined(c.preprocessed.values)
  THEN LET t == c.preprocessed.values[1][i].time
       IN  IF t # ZeroTime THEN <<t>> ELSE <<>>
  ELSE ValueToTimestamp(c.values[i])

\* Mutant: a preprocessed value that is not a version counts as version zero.
SemanticVersionWithoutValidity(c, i) ==
  IF IsDefined(c.preprocessed.values)
  THEN <<c.preprocessed.values[1][i].semver>>
  ELSE ValueToSemanticVersion(c.values[i])

ClauseGetValueAsSemanticVersion(c, i) ==
  IF IsDefined(c.preprocessed.values)
  THEN LET p == c.preprocessed.values[1][i]
       IN  IF p.valid THEN <<p.semver>> ELSE <<>>
  ELSE ValueToSemanticVersion(c.values[i])

(***************************************************************************)
(* Operators.                                                              *)
(***************************************************************************)
StringOperator(op, ctxValue, clValue) ==
  /\ IsString(ctxValue)
  /\ IsString(clValue)
  /\ <<op, ctxValue[2], clValue[2]>> \in StringTests

OperatorMatchesFn(c, ctxValue, i) ==
  LET r == ClauseGetValueAsRegexp(c, i)
  IN  IsString(ctxValue) /\ IsDefined(r) /\ ctxValue[2] \in r[1]

\* Mutant: "or equal" is forgotten.
ComparesStrictly(op, a, b) ==
  IF op \in {"lessThan", "lessThanOrEqual"} THEN a < b ELSE a > b

Compares(op, a, b) ==
  CASE op = "lessThan"           -> a < b
    [] op = "lessThanOrEqual"    -> a <= b
    [] op = "greaterThan"        -> a > b
    [] op = "greaterThanOrEqual" -> a >= b

NumericOperator(op, ctxValue, clValue) ==
  IsNumber(ctxValue) /\ IsNumber(clValue) /\ Compares(op, ctxValue[2], clValue[2])

DateOperator(c, ctxValue, i) ==
  LET clTime  == ClauseGetValueAsTimestamp(c, i)
      ctxTime == ValueToTimestamp(ctxValue)
  IN  /\ IsDefined(clTime)
      /\ IsDefined(ctxTime)
      /\ IF c.op = "before" THEN ctxTime[1] < clTime[1] ELSE ctxTime[1] > clTime[1]

SemVerOperator(c, ctxValue, i) ==
  LET clVersion  == ClauseGetValueAsSemanticVersion(c, i)
      ctxVersion == ValueToSemanticVersion(ctxValue)
  IN  /\ IsDefined(clVersion)
      /\ IsDefined(ctxVersion)
      /\ CASE c.op = "semVerEqual"       -> ctxVersion[1] = clVersion[1]
           [] c.op = "semVerLessThan"    -> ctxVersion[1] < clVersion[1]
           [] c.op = "semVerGreaterThan" -> ctxVersion[1] > clVersion[1]

DoOp(c, ctxValue, i) ==
  CASE c.op \in {"endsWith", "startsWith", "contains"} ->
         StringOperator(c.op, ctxValue, c.values[i])
    [] c.op = "matches" -> OperatorMatchesFn(c, ctxValue, i)
    [] c.op \in {"lessThan", "lessThanOrEqual", "greaterThan", "greaterThanOrEqual"} ->
         NumericOperator(c.op, ctxValue, c.values[i])
    [] c.op \in DateOperators -> DateOperator(c, ctxValue, i)
    [] c.op \in SemVerOperators -> SemVerOperator(c, ctxValue, i)
    [] OTHER -> FALSE

MatchAny(c, value) ==
  IF c.op = "in"
  THEN ClauseFindValue(c, value)
  ELSE \E i \in DOMAIN c.values : DoOp(c, value, i)

\* Mutant: negation is forgotten.
NeverNegate(negate, result) == result

MaybeNegate(negate, result) == IF negate THEN ~result ELSE result

ClauseMatchByKind(c, context) ==
  \E kind \in DOMAIN context.individuals : MatchAny(c, StringValue(kind))

(***************************************************************************)
(* The outcome of a clause: whether it matched, and the error if any.      *)
(***************************************************************************)
MatchResult == [match: BOOLEAN, err: Errors \cup {NoError}]
Matched(m) == [match |-> m, err |-> NoError]
Failed(err) == [match |-> FALSE, err |-> err]

\* An array matches if any of its elements does.
MatchValueOrElements(c, value) ==
  IF Type(value) = "array"
  THEN \E i \in DOMAIN value[2] : MatchAny(c, value[2][i])
  ELSE MatchAny(c, value)

ClauseMatchesContextNoSegments(c, context) ==
  LET value == GetValueForRef(IndividualContextByKind(context, c.contextKind),
                              c.contextKind, c.attribute)
  IN  CASE c.attribute = UndefinedRef -> Failed("emptyAttrRef")
        [] c.attribute = InvalidRef   -> Failed("badAttrRef")
        [] c.attribute = "kind"       ->
             Matched(MaybeNegate(c.negate, ClauseMatchByKind(c, context)))
        [] OTHER ->
             IF ~HasKind(context, c.contextKind) THEN Matched(FALSE)
             ELSE IF value = Null THEN Matched(FALSE)
             ELSE Matched(MaybeNegate(c.negate, MatchValueOrElements(c, value)))
==============================================================================
