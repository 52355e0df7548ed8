-------------------------- MODULE ClauseProperties --------------------------
(***************************************************************************)
(* What the matching of clauses promises.  A behaviour tests one clause    *)
(* against one context.                                                    *)
(***************************************************************************)
EXTENDS Clauses

CONSTANT ClauseCases   \* pairs of a clause, as it was written, and a context

ASSUME ValuesAssumption == \A v \in Values : IsNumber(v) => v[2] \in Int
ASSUME ClauseCasesAssumption ==
  \A case \in ClauseCases :
    /\ case[1] \in Clause /\ case[1].preprocessed = NotPreprocessed
    /\ IsContext(case[2])

VARIABLES clause, context, outcome
clauseVars == <<clause, context, outcome>>

Match(c) == ClauseMatchesContextNoSegments(c, context)

ClauseInit ==
  /\ \E case \in ClauseCases : clause = case[1] /\ context = case[2]
  /\ outcome = <<>>
Test ==
  /\ outcome = <<>>
  /\ outcome' = <<Match(clause)>>
  /\ UNCHANGED <<clause, context>>
ClauseSpec == ClauseInit /\ [][Test]_clauseVars

------------------------------------------------------------------------------
IsDone == IsDefined(outcome)

\* Whether there is a value to test, and the value.
HasAttribute ==
  /\ clause.attribute \notin {UndefinedRef, InvalidRef, "kind"}
  /\ HasKind(context, clause.contextKind)
TestedValue ==
  GetValueForRef(IndividualContextByKind(context, clause.contextKind), clause.contextKind,
                 clause.attribute)
UsesZeroTime == \E i \in DOMAIN clause.values : ValueToTimestamp(clause.values[i]) = <<ZeroTime>>

\* Preprocessing a clause changes how its values are looked up and never whether it matches
\* or fails, whatever its operator and the types of its values.
PreprocessingIsTransparent ==
  IsDone /\ ~UsesZeroTime => Match(PreprocessClause(clause)) = outcome[1]

\* Negation is not a complement where there is nothing to test: a clause on an attribute or
\* a kind that the context lacks, or on a malformed attribute, does not match either way.
\* Everywhere else the negated clause matches exactly when the clause does not.
NegationNeedsAValue ==
  IsDone /\ ~clause.negate =>
    LET negated == Match([clause EXCEPT !.negate = TRUE])
        hasValue == clause.attribute = "kind" \/ (HasAttribute /\ TestedValue # Null)
    IN  /\ negated.err = outcome[1].err
        /\ negated.match = (hasValue /\ ~outcome[1].match)

\* The operators of one family agree with each other on a single value: a value is before or
\* after another or neither but not both, versions compare in at most one way, and of two
\* numbers the first is at most the second or greater, and less than it or at least as great.
Holds(op) == Match([clause EXCEPT !.op = op]).match
BothNumbers == IsNumber(TestedValue) /\ IsNumber(clause.values[1])
OperatorsAgree ==
  IsDone /\ ~clause.negate /\ Len(clause.values) = 1 /\ HasAttribute
    /\ Type(TestedValue) # "array" =>
      /\ ~(Holds("before") /\ Holds("after"))
      /\ \A op, other \in SemVerOperators : Holds(op) /\ Holds(other) => op = other
      /\ BothNumbers =>
           /\ Holds("lessThanOrEqual") # Holds("greaterThan")
           /\ Holds("greaterThanOrEqual") # Holds("lessThan")

\* operators.go:31-35: "before" matches if both values are timestamps and the former is less
\* than the latter, where a number is treated as Unix milliseconds.
NumbersAreMilliseconds ==
  IsDone /\ ~clause.negate /\ clause.op = "before" /\ HasAttribute /\ Len(clause.values) = 1 =>
    LET a == TestedValue
        b == clause.values[1]
    IN  IsNumber(a) /\ IsNumber(b) /\ TruncateToInt(a[2]) < TruncateToInt(b[2]) =>
          outcome[1].match

\* eval_accessors.go:114-115: a clause value is returned as a time "if the value is a string or
\* number in the correct format", which a preprocessed value is too.
DatesInCorrectFormatAreFound ==
  IsDone /\ clause.op \in DateOperators =>
    \A i \in DOMAIN clause.values :
      IsDefined(ValueToTimestamp(clause.values[i])) =>
        IsDefined(ClauseGetValueAsTimestamp(PreprocessClause(clause), i))
==============================================================================
