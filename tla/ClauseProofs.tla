---------------------------- MODULE ClauseProofs ----------------------------
(***************************************************************************)
(* The matching of clauses keeps its promises, whatever the values, the    *)
(* attributes of the context, and the tables that stand for Go's libraries;*)
(* and the times that clauses compare are parsed as their grammar says,    *)
(* whatever the text.                                                      *)
(***************************************************************************)
EXTENDS ClauseProperties, TimeProperties, SequenceTheorems, RecursionFacts

\* A clause is tested as it was written, and the outcome is that of the test.
ClauseInv ==
  /\ clause \in Clause
  /\ clause.preprocessed = NotPreprocessed
  /\ IsContext(context)
  /\ outcome \in {<<>>, <<Match(clause)>>}

LEMMA ClauseInvHolds == ClauseSpec => []ClauseInv
<1>1. ClauseInit => ClauseInv
  BY ClauseCasesAssumption DEF ClauseInit, ClauseInv
<1>2. ClauseInv /\ [Test]_clauseVars => ClauseInv'
  <2> SUFFICES ASSUME ClauseInv, [Test]_clauseVars PROVE ClauseInv'
    OBVIOUS
  <2>1. UNCHANGED <<clause, context>>
    BY DEF Test, clauseVars
  <2>2. outcome' \in {<<>>, <<Match(clause)>>}
    BY DEF Test, clauseVars, ClauseInv
  <2>3. Match(clause)' = Match(clause)
    BY <2>1 DEF Match
  <2> QED BY <2>1, <2>2, <2>3 DEF ClauseInv
<1> QED BY <1>1, <1>2, PTL DEF ClauseSpec

\* When there is an outcome, it is that of the clause.
LEMMA OutcomeIsTheMatch ==
  ASSUME ClauseInv, IsDone
  PROVE  outcome[1] = Match(clause)
<1>1. outcome = <<Match(clause)>>
  BY DEF ClauseInv, IsDone, IsDefined
<1>2. \A x : <<x>>[1] = x
  OBVIOUS
<1> QED BY <1>1, <1>2, Zenon

------------------------------------------------------------------------------
(***************************************************************************)
(* Two clauses that look their values up alike match alike.                *)
(***************************************************************************)

\* The clauses have the operator and the values in common, and find the same in them.
LooksUpAlike(c, d) ==
  /\ c.op = d.op /\ c.values = d.values
  /\ c.op = "in" => \A v : ClauseFindValue(c, v) = ClauseFindValue(d, v)
  /\ \A i \in DOMAIN c.values :
       /\ c.op = "matches" => ClauseGetValueAsRegexp(c, i) = ClauseGetValueAsRegexp(d, i)
       /\ c.op \in DateOperators =>
            ClauseGetValueAsTimestamp(c, i) = ClauseGetValueAsTimestamp(d, i)
       /\ c.op \in SemVerOperators =>
            ClauseGetValueAsSemanticVersion(c, i) = ClauseGetValueAsSemanticVersion(d, i)

\* Whatever the operator, one value of the clause is compared with the same result.
LEMMA SameComparison ==
  ASSUME NEW c, NEW d, LooksUpAlike(c, d), NEW i \in DOMAIN c.values, NEW v
  PROVE  DoOp(c, v, i) = DoOp(d, v, i)
<1>1. c.op = d.op /\ c.values = d.values
  BY DEF LooksUpAlike
<1>2. c.op = "matches" => OperatorMatchesFn(c, v, i) = OperatorMatchesFn(d, v, i)
  BY DEF LooksUpAlike, OperatorMatchesFn
<1>3. c.op \in DateOperators => DateOperator(c, v, i) = DateOperator(d, v, i)
  <2> SUFFICES ASSUME c.op \in DateOperators PROVE DateOperator(c, v, i) = DateOperator(d, v, i)
    OBVIOUS
  <2>1. ClauseGetValueAsTimestamp(c, i) = ClauseGetValueAsTimestamp(d, i)
    BY DEF LooksUpAlike
  <2> QED BY <1>1, <2>1, Zenon DEF DateOperator
<1>4. c.op \in SemVerOperators => SemVerOperator(c, v, i) = SemVerOperator(d, v, i)
  <2> SUFFICES ASSUME c.op \in SemVerOperators
               PROVE  SemVerOperator(c, v, i) = SemVerOperator(d, v, i)
    OBVIOUS
  <2>1. ClauseGetValueAsSemanticVersion(c, i) = ClauseGetValueAsSemanticVersion(d, i)
    BY DEF LooksUpAlike
  <2> QED BY <1>1, <2>1, Zenon DEF SemVerOperator
<1>5. CASE c.op = "matches"
  BY <1>1, <1>2, <1>5 DEF DoOp, DateOperators, SemVerOperators
<1>6. CASE c.op \in DateOperators
  BY <1>1, <1>3, <1>6 DEF DoOp, DateOperators, SemVerOperators
<1>7. CASE c.op \in SemVerOperators
  BY <1>1, <1>4, <1>7 DEF DoOp, DateOperators, SemVerOperators
<1>8. CASE c.op \notin {"matches"} \cup DateOperators \cup SemVerOperators
  BY <1>1, <1>8 DEF DoOp
<1> QED BY <1>5, <1>6, <1>7, <1>8

LEMMA SameMatch ==
  ASSUME NEW c, NEW d, LooksUpAlike(c, d)
  PROVE  \A v : MatchAny(c, v) = MatchAny(d, v)
<1>1. c.op = d.op /\ c.values = d.values
  BY DEF LooksUpAlike
<1>2. c.op = "in" => \A v : ClauseFindValue(c, v) = ClauseFindValue(d, v)
  BY DEF LooksUpAlike
<1>3. \A v : \A i \in DOMAIN c.values : DoOp(c, v, i) = DoOp(d, v, i)
  BY SameComparison
<1> QED BY <1>1, <1>2, <1>3, Zenon DEF MatchAny

\* So do arrays of values, and the kinds of a context.
LEMMA SameMatches ==
  ASSUME NEW c, NEW d, LooksUpAlike(c, d)
  PROVE  /\ \A v : MatchValueOrElements(c, v) = MatchValueOrElements(d, v)
         /\ \A ctx : ClauseMatchByKind(c, ctx) = ClauseMatchByKind(d, ctx)
<1>1. \A v : MatchAny(c, v) = MatchAny(d, v)
  BY SameMatch
<1>2. \A v : MatchValueOrElements(c, v) = MatchValueOrElements(d, v)
  <2> SUFFICES ASSUME NEW v PROVE MatchValueOrElements(c, v) = MatchValueOrElements(d, v)
    OBVIOUS
  <2>1. (\E i \in DOMAIN v[2] : MatchAny(c, v[2][i])) =
          (\E i \in DOMAIN v[2] : MatchAny(d, v[2][i]))
    BY <1>1, Zenon
  <2>2. MatchAny(c, v) = MatchAny(d, v)
    BY <1>1
  <2> QED BY <2>1, <2>2, Zenon DEF MatchValueOrElements
<1>3. \A ctx : ClauseMatchByKind(c, ctx) = ClauseMatchByKind(d, ctx)
  BY <1>1, Zenon DEF ClauseMatchByKind
<1> QED BY <1>2, <1>3

\* Whether something matches is true or false.
LEMMA MatchesAreBoolean ==
  ASSUME NEW c
  PROVE  /\ \A v : MatchValueOrElements(c, v) \in BOOLEAN
         /\ \A ctx : ClauseMatchByKind(c, ctx) \in BOOLEAN
<1>1. \A v : MatchAny(c, v) \in BOOLEAN
  BY Zenon DEF MatchAny, ClauseFindValue
<1> QED BY <1>1, Zenon DEF MatchValueOrElements, ClauseMatchByKind

------------------------------------------------------------------------------
(***************************************************************************)
(* Preprocessing.                                                          *)
(***************************************************************************)

\* What preprocessing leaves alone, and what it adds.
LEMMA PreprocessedFields ==
  ASSUME NEW c \in Clause
  PROVE  LET p == PreprocessClause(c)
         IN  /\ p.op = c.op /\ p.attribute = c.attribute /\ p.values = c.values
             /\ p.negate = c.negate /\ p.contextKind = c.contextKind
             /\ p.preprocessed.valuesMap = ValuesMap(c)
             /\ p.preprocessed.values =
                  IF c.op \in {"matches"} \cup DateOperators \cup SemVerOperators
                  THEN <<[i \in DOMAIN c.values |-> PreprocessValue(c.op, c.values[i])]>>
                  ELSE <<>>
BY DEF PreprocessClause, Clause

\* A value of a clause that is written down has no preprocessed form.
LEMMA NotPreprocessedFields ==
  /\ ~IsDefined(NotPreprocessed.valuesMap)
  /\ ~IsDefined(NotPreprocessed.values)
BY DEF NotPreprocessed, IsDefined

\* The conversions yield one result or none.
LEMMA Conversions ==
  ASSUME NEW v
  PROVE  /\ ValueToTimestamp(v) = <<>> \/ \E t : ValueToTimestamp(v) = <<t>>
         /\ ValueToSemanticVersion(v) = <<>> \/ \E s : ValueToSemanticVersion(v) = <<s>>
BY DEF ValueToTimestamp, ValueToSemanticVersion

\* The parsed form of a value is what the accessors would have parsed.
LEMMA PreprocessedValues ==
  ASSUME NEW op, NEW v
  PROVE  /\ op = "matches" => PreprocessValue(op, v).regexp = ParseRegexp(v)
         /\ op \in DateOperators =>
              PreprocessValue(op, v).time = IF IsDefined(ValueToTimestamp(v))
                                            THEN ValueToTimestamp(v)[1] ELSE ZeroTime
         /\ op \in SemVerOperators =>
              /\ PreprocessValue(op, v).valid = IsDefined(ValueToSemanticVersion(v))
              /\ PreprocessValue(op, v).semver = IF IsDefined(ValueToSemanticVersion(v))
                                                 THEN ValueToSemanticVersion(v)[1] ELSE NoSemVer
<1>1. op = "matches" => op \notin DateOperators /\ op \notin SemVerOperators
  BY DEF DateOperators, SemVerOperators
<1>2. op \in DateOperators => op # "matches" /\ op \notin SemVerOperators
  BY DEF DateOperators, SemVerOperators
<1>3. op \in SemVerOperators => op # "matches" /\ op \notin DateOperators
  BY DEF DateOperators, SemVerOperators
<1>4. ~IsDefined(<<>>)
  BY DEF IsDefined
<1>5. IsDefined(ValueToSemanticVersion(v)) \in BOOLEAN
  BY DEF IsDefined
<1>6. op = "matches" => PreprocessValue(op, v).regexp = ParseRegexp(v)
  BY <1>1 DEF PreprocessValue
<1>7. op \in DateOperators =>
        PreprocessValue(op, v).time = IF IsDefined(ValueToTimestamp(v))
                                      THEN ValueToTimestamp(v)[1] ELSE ZeroTime
  BY <1>2 DEF PreprocessValue
<1>8. op \in SemVerOperators =>
        PreprocessValue(op, v).semver = IF IsDefined(ValueToSemanticVersion(v))
                                        THEN ValueToSemanticVersion(v)[1] ELSE NoSemVer
  BY <1>3 DEF PreprocessValue
<1>9. op \in SemVerOperators =>
        PreprocessValue(op, v).valid = IsDefined(ValueToSemanticVersion(v))
  BY <1>3, <1>4, <1>5 DEF PreprocessValue
<1> QED BY <1>6, <1>7, <1>8, <1>9

\* A clause finds the same in its values before and after it is preprocessed, unless a
\* value is Go's zero time.
LEMMA PreprocessedLooksUpAlike ==
  ASSUME NEW c \in Clause, c.preprocessed = NotPreprocessed,
         \A i \in DOMAIN c.values : ValueToTimestamp(c.values[i]) # <<ZeroTime>>
  PROVE  LooksUpAlike(PreprocessClause(c), c)
<1> DEFINE p == PreprocessClause(c)
<1>1. p.op = c.op /\ p.values = c.values
  BY PreprocessedFields
<1>2. ~IsDefined(c.preprocessed.valuesMap) /\ ~IsDefined(c.preprocessed.values)
  BY NotPreprocessedFields
<1>3. \A v : ClauseFindValue(p, v) = ClauseFindValue(c, v)
  <2> SUFFICES ASSUME NEW v PROVE ClauseFindValue(p, v) = ClauseFindValue(c, v)
    OBVIOUS
  <2>1. p.preprocessed.valuesMap = ValuesMap(c)
    BY PreprocessedFields
  <2>2. ~IsDefined(ValuesMap(c)) \/ ValuesMap(c) = <<{c.values[i] : i \in DOMAIN c.values}>>
    BY DEF ValuesMap, IsDefined
  <2>3. CASE ~IsDefined(ValuesMap(c))
    BY <1>1, <1>2, <2>1, <2>3, Zenon DEF ClauseFindValue
  <2>4. CASE IsDefined(ValuesMap(c)) /\ ValuesMap(c) = <<{c.values[i] : i \in DOMAIN c.values}>>
    <3>1. \A x : <<x>>[1] = x
      OBVIOUS
    <3>2. ValuesMap(c)[1] = {c.values[i] : i \in DOMAIN c.values}
      BY <2>4, <3>1, Zenon
    <3>3. v \in ValuesMap(c)[1] <=> \E i \in DOMAIN c.values : c.values[i] = v
      BY <3>2
    <3>4. ClauseFindValue(p, v) <=> ClauseFindValue(c, v)
      BY <1>1, <1>2, <2>1, <2>4, <3>3, Zenon DEF ClauseFindValue
    <3> QED BY <3>4, Zenon DEF ClauseFindValue
  <2> QED BY <2>2, <2>3, <2>4
<1>4. ASSUME NEW i \in DOMAIN c.values,
             c.op \in {"matches"} \cup DateOperators \cup SemVerOperators
      PROVE  /\ IsDefined(p.preprocessed.values)
             /\ p.preprocessed.values[1][i] = PreprocessValue(c.op, c.values[i])
  <2> DEFINE readings == [j \in DOMAIN c.values |-> PreprocessValue(c.op, c.values[j])]
  <2>1. p.preprocessed.values = <<readings>>
    BY <1>4, PreprocessedFields, Zenon
  <2>2. readings[i] = PreprocessValue(c.op, c.values[i])
    OBVIOUS
  <2>3. ASSUME NEW f PROVE <<f>>[1] = f /\ <<f>> # <<>>
    OBVIOUS
  <2> QED BY <2>1, <2>2, <2>3, Zenon DEF IsDefined
<1> HIDE DEF p
<1>5. ASSUME NEW i \in DOMAIN c.values, c.op = "matches"
      PROVE  ClauseGetValueAsRegexp(p, i) = ClauseGetValueAsRegexp(c, i)
  <2>1. IsDefined(p.preprocessed.values)
        /\ p.preprocessed.values[1][i] = PreprocessValue(c.op, c.values[i])
    BY <1>4, <1>5
  <2>2. PreprocessValue(c.op, c.values[i]).regexp = ParseRegexp(c.values[i])
    BY <1>5, PreprocessedValues
  <2> QED BY <1>2, <2>1, <2>2, Zenon DEF ClauseGetValueAsRegexp
<1>6. ASSUME NEW i \in DOMAIN c.values, c.op \in DateOperators
      PROVE  ClauseGetValueAsTimestamp(p, i) = ClauseGetValueAsTimestamp(c, i)
  <2> DEFINE t == ValueToTimestamp(c.values[i])
  <2>1. IsDefined(p.preprocessed.values)
        /\ p.preprocessed.values[1][i] = PreprocessValue(c.op, c.values[i])
    BY <1>4, <1>6
  <2>2. p.preprocessed.values[1][i].time = IF IsDefined(t) THEN t[1] ELSE ZeroTime
    <3>1. PreprocessValue(c.op, c.values[i]).time = IF IsDefined(t) THEN t[1] ELSE ZeroTime
      BY <1>6, PreprocessedValues
    <3> QED BY <2>1, <3>1, Zenon
  <2>3. ClauseGetValueAsTimestamp(c, i) = t
    BY <1>2, Zenon DEF ClauseGetValueAsTimestamp
  <2>4. t = <<>> \/ \E x : t = <<x>>
    BY Conversions
  <2>5. t # <<ZeroTime>>
    OBVIOUS
  <2> HIDE DEF t
  <2>6. CASE t = <<>>
    <3>1. p.preprocessed.values[1][i].time = ZeroTime
      BY <2>2, <2>6 DEF IsDefined
    <3> QED BY <2>1, <2>3, <2>6, <3>1, Zenon DEF ClauseGetValueAsTimestamp
  <2>7. CASE \E x : t = <<x>>
    <3>1. PICK x : t = <<x>>
      BY <2>7
    <3>2. p.preprocessed.values[1][i].time = x /\ x # ZeroTime
      BY <2>2, <2>5, <3>1 DEF IsDefined
    <3> QED BY <2>1, <2>3, <3>1, <3>2, Zenon DEF ClauseGetValueAsTimestamp
  <2> QED BY <2>4, <2>6, <2>7
<1>7. ASSUME NEW i \in DOMAIN c.values, c.op \in SemVerOperators
      PROVE  ClauseGetValueAsSemanticVersion(p, i) = ClauseGetValueAsSemanticVersion(c, i)
  <2> DEFINE s == ValueToSemanticVersion(c.values[i])
  <2>1. IsDefined(p.preprocessed.values)
        /\ p.preprocessed.values[1][i] = PreprocessValue(c.op, c.values[i])
    BY <1>4, <1>7
  <2>2. /\ p.preprocessed.values[1][i].valid = IsDefined(s)
        /\ p.preprocessed.values[1][i].semver = IF IsDefined(s) THEN s[1] ELSE NoSemVer
    <3>1. /\ PreprocessValue(c.op, c.values[i]).valid = IsDefined(s)
          /\ PreprocessValue(c.op, c.values[i]).semver = IF IsDefined(s) THEN s[1] ELSE NoSemVer
      BY <1>7, PreprocessedValues
    <3> QED BY <2>1, <3>1, Zenon
  <2>3. ClauseGetValueAsSemanticVersion(c, i) = s
    BY <1>2, Zenon DEF ClauseGetValueAsSemanticVersion
  <2>4. ClauseGetValueAsSemanticVersion(p, i) =
          IF IsDefined(s) THEN <<p.preprocessed.values[1][i].semver>> ELSE <<>>
    BY <2>1, <2>2, Zenon DEF ClauseGetValueAsSemanticVersion
  <2>5. s = <<>> \/ \E x : s = <<x>>
    BY Conversions
  <2> HIDE DEF s
  <2> QED BY <2>2, <2>3, <2>4, <2>5 DEF IsDefined
<1> QED BY <1>1, <1>3, <1>5, <1>6, <1>7 DEF LooksUpAlike, p

------------------------------------------------------------------------------
(***************************************************************************)
(* The outcome of a clause, from what matches.                             *)
(***************************************************************************)

\* The value that a clause tests.
ValueOf(c) ==
  GetValueForRef(IndividualContextByKind(context, c.contextKind), c.contextKind, c.attribute)

\* The outcome depends on the operator, the values and their preprocessed forms only through
\* what matches.
LEMMA OutcomeOfMatches ==
  ASSUME NEW c, NEW d,
         c.attribute = d.attribute, c.contextKind = d.contextKind, c.negate = d.negate,
         ClauseMatchByKind(c, context) = ClauseMatchByKind(d, context),
         \A v : MatchValueOrElements(c, v) = MatchValueOrElements(d, v)
  PROVE  Match(c) = Match(d)
<1>1. ValueOf(c) = ValueOf(d)
  BY DEF ValueOf
<1>2. MatchValueOrElements(c, ValueOf(c)) = MatchValueOrElements(d, ValueOf(d))
  BY <1>1
<1> QED BY <1>1, <1>2, Zenon DEF Match, ClauseMatchesContextNoSegments, ValueOf

\* The outcome of a clause that is not negated, and of the same clause negated.
LEMMA OutcomeIfNegated ==
  ASSUME NEW c \in Clause, ~c.negate
  PROVE  LET d == [c EXCEPT !.negate = TRUE]
             hasValue == \/ c.attribute = "kind"
                         \/ /\ c.attribute \notin {UndefinedRef, InvalidRef, "kind"}
                            /\ HasKind(context, c.contextKind)
                            /\ ValueOf(c) # Null
         IN  /\ Match(d).err = Match(c).err
             /\ Match(d).match = (hasValue /\ ~Match(c).match)
<1> DEFINE d == [c EXCEPT !.negate = TRUE]
<1>1. /\ d.attribute = c.attribute /\ d.contextKind = c.contextKind
      /\ d.op = c.op /\ d.values = c.values /\ d.preprocessed = c.preprocessed
      /\ d.negate = TRUE /\ c.negate = FALSE
  BY DEF Clause
<1> HIDE DEF d
<1>2. LooksUpAlike(d, c)
  BY <1>1, Zenon DEF LooksUpAlike, ClauseFindValue, ClauseGetValueAsRegexp,
                     ClauseGetValueAsTimestamp, ClauseGetValueAsSemanticVersion
<1>3. ClauseMatchByKind(d, context) = ClauseMatchByKind(c, context)
  BY <1>2, SameMatches
<1>4. MatchValueOrElements(d, ValueOf(c)) = MatchValueOrElements(c, ValueOf(c))
  BY <1>2, SameMatches
<1>5. ClauseMatchByKind(c, context) \in BOOLEAN /\ MatchValueOrElements(c, ValueOf(c)) \in BOOLEAN
  BY MatchesAreBoolean
<1>6. \A x : /\ Matched(x).match = x /\ Matched(x).err = NoError
             /\ Failed(x).match = FALSE /\ Failed(x).err = x
  BY DEF Matched, Failed
<1>7. UndefinedRef # InvalidRef /\ UndefinedRef # "kind" /\ InvalidRef # "kind"
  BY DEF UndefinedRef, InvalidRef
<1>8. ValueOf(d) = ValueOf(c)
  BY <1>1 DEF ValueOf
<1>9. \A x \in BOOLEAN : MaybeNegate(TRUE, x) = ~x /\ MaybeNegate(FALSE, x) = x
  BY DEF MaybeNegate
<1>10. CASE c.attribute = UndefinedRef
  <2>1. Match(c) = Failed("emptyAttrRef") /\ Match(d) = Failed("emptyAttrRef")
    BY <1>1, <1>7, <1>10 DEF Match, ClauseMatchesContextNoSegments
  <2> QED BY <1>6, <1>7, <1>10, <2>1 DEF d
<1>11. CASE c.attribute = InvalidRef
  <2>1. Match(c) = Failed("badAttrRef") /\ Match(d) = Failed("badAttrRef")
    BY <1>1, <1>7, <1>11 DEF Match, ClauseMatchesContextNoSegments
  <2> QED BY <1>6, <1>7, <1>11, <2>1 DEF d
<1>12. CASE c.attribute = "kind"
  <2>1. /\ Match(c) = Matched(MaybeNegate(FALSE, ClauseMatchByKind(c, context)))
        /\ Match(d) = Matched(MaybeNegate(TRUE, ClauseMatchByKind(d, context)))
    BY <1>1, <1>7, <1>12 DEF Match, ClauseMatchesContextNoSegments
  <2>2. /\ Match(c) = Matched(ClauseMatchByKind(c, context))
        /\ Match(d) = Matched(~ClauseMatchByKind(c, context))
    BY <1>3, <1>5, <1>9, <2>1, Zenon
  <2> QED BY <1>6, <1>12, <2>2, ZenonT(40) DEF d
<1>13. CASE c.attribute \notin {UndefinedRef, InvalidRef, "kind"}
  <2>1. ASSUME ~HasKind(context, c.contextKind) \/ ValueOf(c) = Null
        PROVE  Match(c) = Matched(FALSE) /\ Match(d) = Matched(FALSE)
    BY <1>1, <1>8, <1>13, <2>1 DEF Match, ClauseMatchesContextNoSegments, ValueOf
  <2>2. ASSUME HasKind(context, c.contextKind), ValueOf(c) # Null
        PROVE  /\ Match(c) = Matched(MaybeNegate(FALSE, MatchValueOrElements(c, ValueOf(c))))
               /\ Match(d) = Matched(MaybeNegate(TRUE, MatchValueOrElements(d, ValueOf(c))))
    BY <1>1, <1>8, <1>13, <2>2 DEF Match, ClauseMatchesContextNoSegments, ValueOf
  <2>3. ASSUME HasKind(context, c.contextKind), ValueOf(c) # Null
        PROVE  /\ Match(c) = Matched(MatchValueOrElements(c, ValueOf(c)))
               /\ Match(d) = Matched(~MatchValueOrElements(c, ValueOf(c)))
    BY <1>4, <1>5, <1>9, <2>2, <2>3, Zenon
  <2>4. CASE ~HasKind(context, c.contextKind) \/ ValueOf(c) = Null
    BY <1>6, <1>13, <2>1, <2>4, ZenonT(40) DEF d
  <2>5. CASE HasKind(context, c.contextKind) /\ ValueOf(c) # Null
    BY <1>6, <1>13, <2>3, <2>5, ZenonT(40) DEF d
  <2> QED BY <2>4, <2>5
<1> QED BY <1>10, <1>11, <1>12, <1>13

\* Preprocessing a clause changes how its values are looked up (a set for "in", parsed forms
\* for the operators that parse) and never whether it matches or fails.
THEOREM PreprocessingChangesNothing == ClauseSpec => []PreprocessingIsTransparent
<1>1. ASSUME ClauseInv, IsDone, ~UsesZeroTime
      PROVE  Match(PreprocessClause(clause)) = outcome[1]
  <2> DEFINE p == PreprocessClause(clause)
  <2>1. clause \in Clause /\ clause.preprocessed = NotPreprocessed
    BY <1>1 DEF ClauseInv
  <2>2. LooksUpAlike(p, clause)
    BY <1>1, <2>1, PreprocessedLooksUpAlike DEF UsesZeroTime
  <2>3. /\ p.attribute = clause.attribute /\ p.contextKind = clause.contextKind
        /\ p.negate = clause.negate
    BY <2>1, PreprocessedFields, Zenon
  <2> HIDE DEF p
  <2>4. Match(p) = Match(clause)
    BY <2>2, <2>3, SameMatches, OutcomeOfMatches
  <2> QED BY <1>1, <2>4, OutcomeIsTheMatch, Zenon DEF p
<1>2. ClauseInv => PreprocessingIsTransparent
  BY <1>1 DEF PreprocessingIsTransparent
<1> QED BY <1>2, ClauseInvHolds, PTL

\* A negated clause matches when the clause does not, except where there is nothing to test:
\* there neither matches.
THEOREM NegationIsNoComplement == ClauseSpec => []NegationNeedsAValue
<1>1. ASSUME ClauseInv, IsDone, ~clause.negate
      PROVE  LET negated == Match([clause EXCEPT !.negate = TRUE])
                 hasValue == clause.attribute = "kind" \/ (HasAttribute /\ TestedValue # Null)
             IN  /\ negated.err = outcome[1].err
                 /\ negated.match = (hasValue /\ ~outcome[1].match)
  <2>1. clause \in Clause
    BY <1>1 DEF ClauseInv
  <2>2. outcome[1] = Match(clause)
    BY <1>1, OutcomeIsTheMatch
  <2>3. TestedValue = ValueOf(clause)
    BY DEF TestedValue, ValueOf
  <2> QED BY <1>1, <2>1, <2>2, <2>3, OutcomeIfNegated DEF HasAttribute
<1>2. ClauseInv => NegationNeedsAValue
  BY <1>1 DEF NegationNeedsAValue
<1> QED BY <1>2, ClauseInvHolds, PTL

------------------------------------------------------------------------------
(***************************************************************************)
(* The operators of one family.                                            *)
(***************************************************************************)

\* A number of milliseconds is a whole number, however it wraps around.
LEMMA TimesAreIntegers ==
  ASSUME NEW v, IsNumber(v) => v[2] \in Int, IsDefined(ValueToTimestamp(v))
  PROVE  ValueToTimestamp(v)[1] \in Int
<1>1. \A n \in Int : TruncateToInt(n) \in Int
  BY DEF TruncateToInt
<1>2. \A n \in Int : UnixMillisToUtcTime(n) \in Int
  <2>1. MillisLimit \in Nat \ {0}
    BY ClauseTablesAssumption
  <2>2. \A n \in Int : \A m \in Nat \ {0} : (n + m) % (2 * m) \in Int
    OBVIOUS
  <2>3. \A a, b \in Int : a - b \in Int
    OBVIOUS
  <2>4. SUFFICES ASSUME NEW n \in Int PROVE UnixMillisToUtcTime(n) \in Int
    OBVIOUS
  <2>5. (n + MillisLimit) % (2 * MillisLimit) \in Int
    BY <2>1, <2>2
  <2>6. MillisLimit \in Int
    BY <2>1
  <2> HIDE <2>2, <2>3
  <2> QED BY <2>3, <2>5, <2>6, Zenon DEF UnixMillisToUtcTime
<1>3. CASE IsString(v) /\ v[2] \in DOMAIN Timestamps
  <2>1. ValueToTimestamp(v) = <<Timestamps[v[2]]>>
    BY <1>3 DEF ValueToTimestamp, IsString, IsNumber
  <2> QED BY <1>3, <2>1, ClauseTablesAssumption
<1>4. CASE ~(IsString(v) /\ v[2] \in DOMAIN Timestamps) /\ IsNumber(v)
  <2>1. ValueToTimestamp(v) = <<UnixMillisToUtcTime(TruncateToInt(v[2]))>>
    BY <1>4 DEF ValueToTimestamp
  <2> QED BY <1>1, <1>2, <1>4, <2>1
<1>5. CASE ~(IsString(v) /\ v[2] \in DOMAIN Timestamps) /\ ~IsNumber(v)
  BY <1>5 DEF ValueToTimestamp, IsDefined
<1> QED BY <1>3, <1>4, <1>5

\* The value of an attribute is a JSON value or a string that is not a number.
LEMMA TestedNumbersAreIntegers ==
  ASSUME ClauseInv, HasAttribute
  PROVE  IsNumber(TestedValue) => TestedValue[2] \in Int
<1> DEFINE ic == IndividualContextByKind(context, clause.contextKind)
<1>1. ic \in IndividualContext
  BY DEF ClauseInv, HasAttribute, HasKind, IsContext, IndividualContextByKind
<1>2. \A s : ~IsNumber(StringValue(s))
  BY DEF IsNumber, StringValue, Type
<1>3. clause.attribute \in AttrNames \cup {"key"}
  BY DEF ClauseInv, Clause, AttrRef, HasAttribute
<1>4. ic.attributes \in [AttrNames -> Values]
  BY <1>1 DEF IndividualContext
<1> HIDE DEF ic
<1>5. CASE clause.attribute = "key"
  <2>1. TestedValue = StringValue(ic.key)
    BY <1>5 DEF TestedValue, GetValueForRef, ic
  <2> QED BY <1>2, <2>1
<1>6. CASE clause.attribute # "key"
  <2>1. TestedValue = ic.attributes[clause.attribute]
    BY <1>6 DEF TestedValue, GetValueForRef, ic, HasAttribute
  <2>2. TestedValue \in Values
    BY <1>3, <1>4, <1>6, <2>1
  <2> QED BY <2>2, ValuesAssumption
<1> QED BY <1>5, <1>6

\* A clause with one value, which tests a value that is no array, matches if the operator
\* holds between the two.
LEMMA HoldsForOneValue ==
  ASSUME ClauseInv, ~clause.negate, Len(clause.values) = 1, HasAttribute,
         Type(TestedValue) # "array",
         NEW op, op # "in"
  PROVE  LET d == [clause EXCEPT !.op = op]
         IN  Holds(op) = (TestedValue # Null /\ DoOp(d, TestedValue, 1))
<1> DEFINE d == [clause EXCEPT !.op = op]
<1>1. clause \in Clause
  BY DEF ClauseInv
<1>2. /\ d.op = op /\ d.attribute = clause.attribute /\ d.contextKind = clause.contextKind
      /\ d.values = clause.values /\ d.negate = FALSE
  BY <1>1 DEF Clause
<1>3. Holds(op) = Match(d).match
  BY DEF Holds
<1> HIDE DEF d
<1>4. ValueOf(d) = TestedValue
  BY <1>2 DEF ValueOf, TestedValue
<1>5. \A x : Matched(x).match = x
  BY DEF Matched
<1>6. DOMAIN d.values = {1}
  <2>1. clause.values \in Seq(Values)
    BY <1>1 DEF Clause
  <2> QED BY <1>2, <2>1, LenProperties
<1>7. CASE TestedValue = Null
  <2>1. Match(d) = Matched(FALSE)
    BY <1>2, <1>4, <1>7 DEF Match, ClauseMatchesContextNoSegments, ValueOf, HasAttribute
  <2> QED BY <1>3, <1>5, <1>7, <2>1, Zenon DEF d
<1>8. CASE TestedValue # Null
  <2>1. Match(d) = Matched(MaybeNegate(FALSE, MatchValueOrElements(d, TestedValue)))
    BY <1>2, <1>4, <1>8 DEF Match, ClauseMatchesContextNoSegments, ValueOf, HasAttribute
  <2>2. MatchValueOrElements(d, TestedValue) = MatchAny(d, TestedValue)
    BY DEF MatchValueOrElements
  <2>3. MatchAny(d, TestedValue) = \E i \in {1} : DoOp(d, TestedValue, i)
    BY <1>2, <1>6 DEF MatchAny
  <2>4. Holds(op) = \E i \in {1} : DoOp(d, TestedValue, i)
    BY <1>3, <1>5, <2>1, <2>2, <2>3, Zenon DEF MaybeNegate
  <2>5. (\E i \in {1} : DoOp(d, TestedValue, i)) <=> DoOp(d, TestedValue, 1)
    OBVIOUS
  <2>6. Holds(op) = (TestedValue # Null /\ DoOp(d, TestedValue, 1))
    BY <1>8, <2>4, <2>5, Zenon
  <2> QED BY <2>6 DEF d
<1> QED BY <1>7, <1>8

Inequalities == {"lessThan", "lessThanOrEqual", "greaterThan", "greaterThanOrEqual"}

\* None of the operators is that of equality.
LEMMA OtherOperators ==
  \A op \in DateOperators \cup SemVerOperators \cup Inequalities : op # "in"
BY DEF DateOperators, SemVerOperators, Inequalities

\* Operators that are not equality compare the value with the only one of the clause.
LEMMA HoldsForOperators ==
  ASSUME ClauseInv, ~clause.negate, Len(clause.values) = 1, HasAttribute,
         Type(TestedValue) # "array"
  PROVE  /\ \A op \in DateOperators :
              LET d == [clause EXCEPT !.op = op]
              IN  Holds(op) = (TestedValue # Null /\ DateOperator(d, TestedValue, 1))
         /\ \A op \in SemVerOperators :
              LET d == [clause EXCEPT !.op = op]
              IN  Holds(op) = (TestedValue # Null /\ SemVerOperator(d, TestedValue, 1))
         /\ \A op \in Inequalities :
              Holds(op) =
                (TestedValue # Null /\ NumericOperator(op, TestedValue, clause.values[1]))
<1>1. clause \in Clause
  BY DEF ClauseInv
<1>2. ASSUME NEW op
      PROVE  /\ [clause EXCEPT !.op = op].op = op
             /\ [clause EXCEPT !.op = op].values = clause.values
  BY <1>1 DEF Clause
<1>3. ASSUME NEW op \in DateOperators
      PROVE  LET d == [clause EXCEPT !.op = op]
             IN  Holds(op) = (TestedValue # Null /\ DateOperator(d, TestedValue, 1))
  <2> DEFINE d == [clause EXCEPT !.op = op]
  <2>1. op # "in"
    BY <1>3, OtherOperators
  <2>2. d.op = op
    BY <1>2, <2>1
  <2>3. Holds(op) = (TestedValue # Null /\ DoOp(d, TestedValue, 1))
    BY <2>1, HoldsForOneValue
  <2> HIDE DEF d
  <2>4. DoOp(d, TestedValue, 1) = DateOperator(d, TestedValue, 1)
    BY <1>3, <2>2 DEF DoOp, DateOperators, SemVerOperators
  <2> QED BY <2>3, <2>4, Zenon DEF d
<1>4. ASSUME NEW op \in SemVerOperators
      PROVE  LET d == [clause EXCEPT !.op = op]
             IN  Holds(op) = (TestedValue # Null /\ SemVerOperator(d, TestedValue, 1))
  <2> DEFINE d == [clause EXCEPT !.op = op]
  <2>1. op # "in"
    BY <1>4, OtherOperators
  <2>2. d.op = op
    BY <1>2, <2>1
  <2>3. Holds(op) = (TestedValue # Null /\ DoOp(d, TestedValue, 1))
    BY <2>1, HoldsForOneValue
  <2> HIDE DEF d
  <2>4. DoOp(d, TestedValue, 1) = SemVerOperator(d, TestedValue, 1)
    BY <1>4, <2>2 DEF DoOp, DateOperators, SemVerOperators
  <2> QED BY <2>3, <2>4, Zenon DEF d
<1>5. ASSUME NEW op \in Inequalities
      PROVE  Holds(op) =
               (TestedValue # Null /\ NumericOperator(op, TestedValue, clause.values[1]))
  <2> DEFINE d == [clause EXCEPT !.op = op]
  <2>1. op # "in"
    BY <1>5, OtherOperators
  <2>2. d.op = op /\ d.values = clause.values
    BY <1>2, <2>1
  <2>3. Holds(op) = (TestedValue # Null /\ DoOp(d, TestedValue, 1))
    BY <2>1, HoldsForOneValue
  <2> HIDE DEF d
  <2>4. DoOp(d, TestedValue, 1) = NumericOperator(op, TestedValue, clause.values[1])
    BY <1>5, <2>2 DEF DoOp, DateOperators, SemVerOperators, Inequalities
  <2> QED BY <2>3, <2>4, Zenon
<1> QED BY <1>3, <1>4, <1>5, Zenon

\* A value that is written in a clause is read as it is.
LEMMA ReadAsWritten ==
  ASSUME ClauseInv, NEW op
  PROVE  LET d == [clause EXCEPT !.op = op]
         IN  /\ d.op = op
             /\ ClauseGetValueAsTimestamp(d, 1) = ValueToTimestamp(clause.values[1])
             /\ ClauseGetValueAsSemanticVersion(d, 1) = ValueToSemanticVersion(clause.values[1])
<1> DEFINE d == [clause EXCEPT !.op = op]
<1>1. /\ d.op = op /\ d.values = clause.values
      /\ d.preprocessed = NotPreprocessed
  BY DEF ClauseInv, Clause
<1> HIDE DEF d
<1> QED BY <1>1, NotPreprocessedFields, Zenon
        DEF d, ClauseGetValueAsTimestamp, ClauseGetValueAsSemanticVersion

\* A value is before or after another or neither; versions compare in at most one way; a
\* number is at most another or greater, and less than it or at least as great: the operators
\* of a family agree, whatever the values and their types.
THEOREM FamiliesAgree == ClauseSpec => []OperatorsAgree
<1>1. ASSUME ClauseInv, ~clause.negate, Len(clause.values) = 1, HasAttribute,
             Type(TestedValue) # "array"
      PROVE  /\ ~(Holds("before") /\ Holds("after"))
             /\ \A op, other \in SemVerOperators : Holds(op) /\ Holds(other) => op = other
             /\ BothNumbers =>
                  /\ Holds("lessThanOrEqual") # Holds("greaterThan")
                  /\ Holds("greaterThanOrEqual") # Holds("lessThan")
  <2>1. clause.values[1] \in Values
    <3>1. clause.values \in Seq(Values)
      BY <1>1 DEF ClauseInv, Clause
    <3> QED BY <1>1, <3>1, ElementOfSeq
  <2>2. IsNumber(clause.values[1]) => clause.values[1][2] \in Int
    BY <2>1, ValuesAssumption
  <2>3. IsNumber(TestedValue) => TestedValue[2] \in Int
    BY <1>1, TestedNumbersAreIntegers
  <2>4. ~(Holds("before") /\ Holds("after"))
    <3> DEFINE ctxTime == ValueToTimestamp(TestedValue)
               clTime == ValueToTimestamp(clause.values[1])
    <3>1. Holds("before") => IsDefined(clTime) /\ IsDefined(ctxTime) /\ ctxTime[1] < clTime[1]
      <4> DEFINE d == [clause EXCEPT !.op = "before"]
      <4>1. d.op = "before" /\ ClauseGetValueAsTimestamp(d, 1) = clTime
        BY <1>1, ReadAsWritten
      <4>2. Holds("before") => DateOperator(d, TestedValue, 1)
        BY <1>1, HoldsForOperators DEF DateOperators
      <4> HIDE DEF d
      <4> QED BY <4>1, <4>2, Zenon DEF DateOperator
    <3>2. Holds("after") => IsDefined(clTime) /\ IsDefined(ctxTime) /\ ctxTime[1] > clTime[1]
      <4> DEFINE d == [clause EXCEPT !.op = "after"]
      <4>1. d.op = "after" /\ ClauseGetValueAsTimestamp(d, 1) = clTime
        BY <1>1, ReadAsWritten
      <4>2. Holds("after") => DateOperator(d, TestedValue, 1)
        BY <1>1, HoldsForOperators DEF DateOperators
      <4>3. "after" # "before"
        OBVIOUS
      <4> HIDE DEF d
      <4> QED BY <4>1, <4>2, <4>3, Zenon DEF DateOperator
    <3>3. IsDefined(clTime) => clTime[1] \in Int
      BY <2>2, TimesAreIntegers
    <3>4. IsDefined(ctxTime) => ctxTime[1] \in Int
      BY <2>3, TimesAreIntegers
    <3> HIDE DEF ctxTime, clTime
    <3> QED BY <3>1, <3>2, <3>3, <3>4
  <2>5. ASSUME NEW op \in SemVerOperators, NEW other \in SemVerOperators,
               Holds(op), Holds(other)
        PROVE  op = other
    <3> DEFINE ctxVersion == ValueToSemanticVersion(TestedValue)
               clVersion == ValueToSemanticVersion(clause.values[1])
    <3>1. ASSUME NEW o \in SemVerOperators, Holds(o)
          PROVE  /\ IsDefined(ctxVersion) /\ IsDefined(clVersion)
                 /\ o = "semVerEqual" => ctxVersion[1] = clVersion[1]
                 /\ o = "semVerLessThan" => ctxVersion[1] < clVersion[1]
                 /\ o = "semVerGreaterThan" => ctxVersion[1] > clVersion[1]
      <4> DEFINE d == [clause EXCEPT !.op = o]
      <4>1. d.op = o /\ ClauseGetValueAsSemanticVersion(d, 1) = clVersion
        BY <1>1, ReadAsWritten
      <4>2. SemVerOperator(d, TestedValue, 1)
        BY <1>1, <3>1, HoldsForOperators
      <4> HIDE DEF d
      <4>3. /\ IsDefined(clVersion)
            /\ IsDefined(ctxVersion)
            /\ CASE o = "semVerEqual"       -> ctxVersion[1] = clVersion[1]
                 [] o = "semVerLessThan"    -> ctxVersion[1] < clVersion[1]
                 [] o = "semVerGreaterThan" -> ctxVersion[1] > clVersion[1]
        BY <4>1, <4>2, Zenon DEF SemVerOperator
      <4> HIDE DEF ctxVersion, clVersion
      <4> QED BY <4>3
    <3>2. \A v : IsDefined(ValueToSemanticVersion(v)) => ValueToSemanticVersion(v)[1] \in Int
      BY ClauseTablesAssumption DEF ValueToSemanticVersion, IsDefined
    <3>3. ctxVersion[1] \in Int /\ clVersion[1] \in Int
      BY <2>5, <3>1, <3>2
    <3> HIDE DEF ctxVersion, clVersion
    <3> QED BY <2>5, <3>1, <3>3 DEF SemVerOperators
  <2>6. ASSUME BothNumbers
        PROVE  /\ Holds("lessThanOrEqual") # Holds("greaterThan")
               /\ Holds("greaterThanOrEqual") # Holds("lessThan")
    <3> DEFINE a == TestedValue[2]
               b == clause.values[1][2]
    <3>1. a \in Int /\ b \in Int
      BY <2>2, <2>3, <2>6 DEF BothNumbers
    <3>2. TestedValue # Null
      BY <2>6 DEF BothNumbers, IsNumber, Type, Null
    <3>3. \A op \in Inequalities :
            Holds(op) <=> Compares(op, a, b)
      BY <1>1, <2>6, <3>2, HoldsForOperators DEF NumericOperator, BothNumbers, Inequalities
    <3> HIDE DEF a, b
    <3>4. /\ Holds("lessThan") <=> a < b
          /\ Holds("lessThanOrEqual") <=> a <= b
          /\ Holds("greaterThan") <=> a > b
          /\ Holds("greaterThanOrEqual") <=> a >= b
      BY <3>3 DEF Compares, Inequalities
    <3>5. (a <= b <=> ~(a > b)) /\ (a >= b <=> ~(a < b))
      BY <3>1
    <3> QED BY <3>4, <3>5
  <2> QED BY <2>4, <2>5, <2>6, Zenon
<1>2. ClauseInv => OperatorsAgree
  BY <1>1, Zenon DEF OperatorsAgree
<1> QED BY <1>2, ClauseInvHolds, PTL

------------------------------------------------------------------------------
(***************************************************************************)
(* Times.  The scanner reads a text the way the grammar cuts it up: first  *)
(* a single field, then three fields after each other, which is a date and *)
(* once more the time of day, then the fraction and the offset.            *)
(***************************************************************************)
\* What is known while a text is parsed.
Parsed(s) ==
  [ok : BOOLEAN, numbers : Seq(Int), nanos : Int, term : STRING \cup {""}, pos : 1..(Len(s) + 1)]

DecimalStep(txt, f) ==
  [i \in 0..Len(txt) |-> IF i = 0 THEN 0 ELSE 10 * f[i - 1] + DigitValue(txt[i])]
\* Every digit has a value.
LEMMA DigitsAreNumbers == \A ch : DigitValue(ch) \in Int
  BY DEF DigitValue

\* DecimalValue is the function that its definition describes.
LEMMA DecimalIsDefined ==
  ASSUME NEW S, NEW txt \in Seq(S)
  PROVE  \A i \in 0..Len(txt) : DecimalValue(txt)[i] \in Int
<1> DEFINE size == Len(txt)
           D(i) == DigitValue(txt[i])
           up == [p \in Nat \X Int |-> 10 * p[2] + D(p[1])]
           w == DecimalValue(txt)
<1>1. \A i \in Nat : D(i) \in Int
  BY DigitsAreNumbers, Zenon
<1>2. size \in Nat
  BY LenProperties
<1> HIDE DEF D, size
<1>3. up \in [Nat \X Int -> Int] /\ \A i \in Nat, r \in Int : up[<<i, r>>] = 10 * r + D(i)
  <2>1. ASSUME NEW p \in Nat \X Int PROVE 10 * p[2] + D(p[1]) \in Int
    <3>1. p[2] \in Int /\ D(p[1]) \in Int
      BY <1>1
    <3> QED BY <3>1
  <2>2. up \in [Nat \X Int -> Int]
    BY <2>1, Zenon
  <2>3. ASSUME NEW i \in Nat, NEW r \in Int PROVE up[<<i, r>>] = 10 * r + D(i)
    <3>1. <<i, r>> \in Nat \X Int /\ <<i, r>>[1] = i /\ <<i, r>>[2] = r
      OBVIOUS
    <3> QED BY <3>1, Zenon
  <2> QED BY <2>2, <2>3, Zenon
<1> HIDE DEF up
<1>4. PICK f \in [0..size -> Int] : Recurs(f, size, 0, up)
  <2>1. 0 \in Int
    OBVIOUS
  <2> QED BY <1>2, <1>3, <2>1, PrimitiveRecursion
<1>5. ASSUME NEW i \in 0..size, i # 0 PROVE up[<<i, f[i - 1]>>] = 10 * f[i - 1] + D(i)
  <2>1. i \in Nat /\ i - 1 \in 0..size
    BY <1>2, <1>5
  <2>2. f[i - 1] \in Int
    BY <2>1
  <2> QED BY <1>3, <2>1, <2>2, Zenon
<1>6. f = DecimalStep(txt, f)
  <2>1. \A i \in 0..size : (IF i = 0 THEN 0 ELSE up[<<i, f[i - 1]>>]) =
                           IF i = 0 THEN 0 ELSE 10 * f[i - 1] + D(i)
    BY <1>5, Zenon
  <2>2. DecimalStep(txt, f) = [i \in 0..size |-> IF i = 0 THEN 0 ELSE 10 * f[i - 1] + D(i)]
    BY DEF DecimalStep, D, size
  <2> QED BY <1>4, <2>1, <2>2 DEF Recurs
<1>7. w = CHOOSE g : g = DecimalStep(txt, g)
  BY DEF DecimalValue, DecimalStep
<1>8. w = DecimalStep(txt, w)
  BY <1>6, <1>7
<1> HIDE DEF w
<1>9. \A i \in 0..size : w[i] = IF i = 0 THEN 0 ELSE 10 * w[i - 1] + D(i)
  BY <1>8 DEF DecimalStep, D, size
<1> DEFINE X == {i \in Nat : i \in 0..size => w[i] \in Int}
<1>10. ASSUME NEW i \in Nat, 0..(i - 1) \subseteq X PROVE i \in X
  <2> SUFFICES ASSUME i \in 0..size PROVE w[i] \in Int
    OBVIOUS
  <2>1. CASE i = 0
    BY <1>9, <2>1
  <2>2. CASE i # 0
    <3>1. i - 1 \in 0..(i - 1) /\ i - 1 \in 0..size
      BY <1>2, <2>2
    <3>2. w[i - 1] \in Int
      BY <1>10, <3>1
    <3> QED BY <1>1, <1>9, <2>2, <3>2
  <2> QED BY <2>1, <2>2
<1>11. Nat \subseteq X
  <2> HIDE DEF X
  <2> QED BY <1>10, NaturalsByInduction
<1> QED BY <1>11 DEF w, size

\* A token ends where the first terminator, or character that is not ASCII, is.
EndsAt(s, pos, terminators, end) ==
  /\ \A i \in pos..(end - 1) : s[i] \notin terminators \cup NonASCII
  /\ end <= Len(s) => s[end] \in terminators \cup NonASCII
TokenTo(s, pos, terminators, end) ==
  LET byTerminator == end <= Len(s) /\ s[end] \in terminators
  IN  [text |-> SubSeq(s, pos, end - 1),
       term |-> IF byTerminator THEN s[end] ELSE "",
       pos  |-> IF byTerminator THEN end + 1 ELSE end]

\* readUntil returns a token that ends where the first such character is.
LEMMA TokenEnds ==
  ASSUME NEW s \in Seq(STRING), NEW pos \in 1..(Len(s) + 1), NEW terminators
  PROVE  \E end \in pos..(Len(s) + 1) :
           /\ EndsAt(s, pos, terminators, end)
           /\ ReadUntil(s, pos, terminators) = TokenTo(s, pos, terminators, end)
<1> DEFINE ends == {i \in pos..Len(s) : s[i] \in terminators \cup NonASCII}
           end == IF ends = {} THEN Len(s) + 1 ELSE CHOOSE i \in ends : \A j \in ends : i <= j
<1>1. Len(s) \in Nat
  BY LenProperties
<1>2. ReadUntil(s, pos, terminators) = TokenTo(s, pos, terminators, end)
  BY DEF ReadUntil, TokenTo
<1>3. end \in pos..(Len(s) + 1) /\ EndsAt(s, pos, terminators, end)
  <2>1. CASE ends = {}
    BY <1>1, <2>1 DEF EndsAt
  <2>2. CASE ends # {}
    <3>1. ends \in SUBSET Nat
      BY <1>1
    <3>2. \E i \in ends : \A j \in ends : i <= j
      <4> HIDE DEF ends
      <4> QED BY <2>2, <3>1, LeastNatural
    <3>3. end \in ends /\ \A j \in ends : end <= j
      <4> HIDE DEF ends
      <4> QED BY <2>2, <3>2
    <3> HIDE DEF end
    <3>4. end \in pos..Len(s) /\ s[end] \in terminators \cup NonASCII
      BY <3>3
    <3>5. \A i \in pos..(end - 1) : s[i] \notin terminators \cup NonASCII
      <4> SUFFICES ASSUME NEW i \in pos..(end - 1), s[i] \in terminators \cup NonASCII PROVE FALSE
        OBVIOUS
      <4>1. i \in ends /\ i < end
        BY <1>1, <3>4
      <4> QED BY <3>3, <3>4, <4>1
    <3> QED BY <1>1, <3>4, <3>5 DEF EndsAt
  <2> QED BY <2>1, <2>2
<1> QED BY <1>2, <1>3

\* What is in a text from a position on, digits or not.
LEMMA PartOfText ==
  ASSUME NEW s \in Seq(STRING), NEW pos \in 1..(Len(s) + 1), NEW n \in Nat, pos + n <= Len(s) + 1
  PROVE  LET here == SubSeq(s, pos, pos + n - 1)
         IN  /\ here \in Seq(STRING) /\ Len(here) = n
             /\ (\A i \in 1..Len(here) : here[i] \in Digits) <=> DigitsAt(s, pos, n)
<1> DEFINE here == SubSeq(s, pos, pos + n - 1)
<1>0. Len(s) \in Nat
  BY LenProperties
<1>1. \A i \in pos..(pos + n - 1) : s[i] \in STRING
  <2> SUFFICES ASSUME NEW i \in pos..(pos + n - 1) PROVE s[i] \in STRING
    OBVIOUS
  <2>1. i \in 1..Len(s)
    BY <1>0
  <2> QED BY <2>1, ElementOfSeq
<1>2. /\ here \in Seq(STRING) /\ Len(here) = n
      /\ \A i \in 1..n : here[i] = s[pos + i - 1]
  <2>1. pos \in Int /\ pos + n - 1 \in Int
    BY <1>0
  <2>2. /\ here \in Seq(STRING)
        /\ Len(here) = IF pos <= pos + n - 1 THEN pos + n - 1 - pos + 1 ELSE 0
        /\ \A i \in 1..(pos + n - 1 - pos + 1) : here[i] = s[pos + i - 1]
    BY <1>1, <2>1, SubSeqProperties
  <2>3. pos + n - 1 - pos + 1 = n /\ (pos <= pos + n - 1 <=> n # 0)
    BY <1>0
  <2> HIDE DEF here
  <2> QED BY <2>2, <2>3
<1> HIDE DEF here
<1>3. (\A i \in 1..Len(here) : here[i] \in Digits) <=> DigitsAt(s, pos, n)
  <2>1. ASSUME NEW i \in pos..(pos + n - 1)
        PROVE  i - pos + 1 \in 1..n /\ pos + (i - pos + 1) - 1 = i /\ i <= Len(s)
    BY <1>0
  <2>2. ASSUME NEW i \in 1..n PROVE pos + i - 1 \in pos..(pos + n - 1)
    BY <1>0
  <2>3. ASSUME \A i \in 1..n : here[i] \in Digits, NEW i \in pos..(pos + n - 1)
        PROVE  i <= Len(s) /\ s[i] \in Digits
    BY <1>2, <2>1, <2>3
  <2>4. ASSUME DigitsAt(s, pos, n), NEW i \in 1..n PROVE here[i] \in Digits
    BY <1>2, <2>2, <2>4 DEF DigitsAt, CharacterAt
  <2> QED BY <1>2, <2>3, <2>4 DEF DigitsAt, CharacterAt
<1> QED BY <1>2, <1>3 DEF here

\* The digits of a text have a number, whatever comes before and after them.
LEMMA NumberHere ==
  ASSUME NEW s \in Seq(STRING), NEW pos \in 1..(Len(s) + 1), NEW n \in Nat, pos + n <= Len(s) + 1
  PROVE  LET here == SubSeq(s, pos, pos + n - 1)
         IN  /\ here \in Seq(STRING) /\ Len(here) = n
             /\ NumberAt(s, pos, n) \in Int
             /\ PositiveNumber(here) =
                  IF n # 0 /\ DigitsAt(s, pos, n) THEN <<NumberAt(s, pos, n)>> ELSE <<>>
<1> DEFINE here == SubSeq(s, pos, pos + n - 1)
<1>2. /\ here \in Seq(STRING) /\ Len(here) = n
      /\ (\A i \in 1..Len(here) : here[i] \in Digits) <=> DigitsAt(s, pos, n)
  BY PartOfText
<1>3. NumberAt(s, pos, n) \in Int
  <2>1. n \in 0..Len(here)
    BY <1>2
  <2> QED BY <1>2, <2>1, DecimalIsDefined DEF NumberAt
<1>4. NumberAt(s, pos, n) = DecimalValue(here)[Len(here)]
  BY <1>2 DEF NumberAt
<1> HIDE DEF here
<1>5. here # <<>> <=> n # 0
  BY <1>2, EmptySeq
<1>6. PositiveNumber(here) =
        IF here # <<>> /\ \A i \in 1..Len(here) : here[i] \in Digits
        THEN <<DecimalValue(here)[Len(here)]>> ELSE <<>>
  BY DEF PositiveNumber
<1>7. PositiveNumber(here) = IF n # 0 /\ DigitsAt(s, pos, n) THEN <<NumberAt(s, pos, n)>> ELSE <<>>
  BY <1>2, <1>4, <1>5, <1>6, Zenon
<1> QED BY <1>2, <1>3, <1>7 DEF here

\* Where n digits are followed by a terminator, the token ends there.
LEMMA EndsAfterDigits ==
  ASSUME NEW s \in Seq(STRING), NEW pos \in 1..(Len(s) + 1), NEW n \in Nat,
         NEW terminators, terminators \cap Digits = {},
         DigitsAt(s, pos, n), CharacterAt(s, pos + n, terminators),
         NEW end \in pos..(Len(s) + 1), EndsAt(s, pos, terminators, end)
  PROVE  end = pos + n
<1>1. Len(s) \in Nat /\ pos + n <= Len(s) /\ s[pos + n] \in terminators
  BY LenProperties DEF CharacterAt
<1>2. ~(pos + n < end)
  <2> SUFFICES ASSUME pos + n < end PROVE FALSE
    OBVIOUS
  <2>1. pos + n \in pos..(end - 1)
    BY <1>1
  <2> QED BY <1>1, <2>1 DEF EndsAt
<1>3. ~(end < pos + n)
  <2> SUFFICES ASSUME end < pos + n PROVE FALSE
    OBVIOUS
  <2>1. end \in pos..(pos + n - 1) /\ end <= Len(s)
    BY <1>1
  <2>2. s[end] \in Digits
    BY <2>1 DEF DigitsAt, CharacterAt
  <2>3. s[end] \in terminators \cup NonASCII
    BY <2>1 DEF EndsAt
  <2> QED BY <2>2, <2>3, NonASCIIAssumption
<1> QED BY <1>1, <1>2, <1>3

\* A field that must end with a terminator.
Terminated(field) ==
  /\ field.eofOK = FALSE
  /\ field.terminators \cap (Digits \cup NonASCII \cup {""}) = {}
  /\ field.lengths \subseteq Nat \ {0}
FieldAt(s, pos, field, n) ==
  /\ n \in field.lengths
  /\ NumberIn(s, pos, n, field.values) /\ CharacterAt(s, pos + n, field.terminators)
AfterField(s, p, n) ==
  [p EXCEPT !.numbers = @ \o <<NumberAt(s, p.pos, n)>>, !.term = s[p.pos + n],
            !.pos = p.pos + n + 1]

\* parseDateTimeNumericField reads a field that must end with a terminator as the grammar does.
LEMMA TerminatedField ==
  ASSUME NEW s \in Seq(STRING), NEW p \in Parsed(s), NEW field, Terminated(field)
  PROVE  LET q == NumericField(s, p, field)
         IN  /\ q \in Parsed(s)
             /\ q.ok => p.ok /\ \E n \in field.lengths : FieldAt(s, p.pos, field, n)
             /\ \A n \in field.lengths :
                  p.ok /\ FieldAt(s, p.pos, field, n) => q = AfterField(s, p, n)
<1> DEFINE terminators == field.terminators
           token == ReadUntil(s, p.pos, terminators)
           number == IF Len(token.text) \in field.lengths THEN PositiveNumber(token.text) ELSE <<>>
           q == NumericField(s, p, field)
           ok == /\ p.ok /\ (field.eofOK \/ token.term # "")
                 /\ number # <<>> /\ number[1] \in field.values
<1>0. Len(s) \in Nat /\ p.pos \in 1..(Len(s) + 1) /\ p.ok \in BOOLEAN /\ p.numbers \in Seq(Int)
  BY LenProperties DEF Parsed
<1>1. q = [p EXCEPT !.ok = ok, !.numbers = @ \o number, !.term = token.term, !.pos = token.pos]
  BY DEF NumericField
<1>2. PICK end \in p.pos..(Len(s) + 1) :
        EndsAt(s, p.pos, terminators, end) /\ token = TokenTo(s, p.pos, terminators, end)
  BY <1>0, TokenEnds
<1> DEFINE n == end - p.pos
<1>3. n \in Nat /\ p.pos + n = end /\ p.pos + n - 1 = end - 1 /\ p.pos + n <= Len(s) + 1
  BY <1>0, <1>2
<1> HIDE DEF n
<1>end. end \in p.pos..(Len(s) + 1) /\ end \in 1..(Len(s) + 1)
  BY <1>0
<1> HIDE DEF token, q
<1>4. /\ token.text = SubSeq(s, p.pos, p.pos + n - 1)
      /\ token.term = IF end <= Len(s) /\ s[end] \in terminators THEN s[end] ELSE ""
      /\ token.pos = IF end <= Len(s) /\ s[end] \in terminators THEN end + 1 ELSE end
  BY <1>2, <1>3 DEF TokenTo
<1>5. /\ token.text \in Seq(STRING) /\ Len(token.text) = n /\ NumberAt(s, p.pos, n) \in Int
      /\ PositiveNumber(token.text) =
           IF n # 0 /\ DigitsAt(s, p.pos, n) THEN <<NumberAt(s, p.pos, n)>> ELSE <<>>
  <2> DEFINE i == p.pos
  <2>1. i \in 1..(Len(s) + 1) /\ n \in Nat /\ i + n <= Len(s) + 1
    BY <1>0, <1>3
  <2>2. token.text = SubSeq(s, i, i + n - 1)
    BY <1>4
  <2> HIDE DEF i
  <2>3. /\ token.text \in Seq(STRING) /\ Len(token.text) = n /\ NumberAt(s, i, n) \in Int
        /\ PositiveNumber(token.text) =
             IF n # 0 /\ DigitsAt(s, i, n) THEN <<NumberAt(s, i, n)>> ELSE <<>>
    BY <2>1, <2>2, NumberHere
  <2> QED BY <2>3 DEF i
<1>6. number = IF n \in field.lengths /\ DigitsAt(s, p.pos, n)
                THEN <<NumberAt(s, p.pos, n)>> ELSE <<>>
  <2>1. n \in field.lengths => n # 0
    BY DEF Terminated
  <2> QED BY <1>5, <2>1
<1>7. token.term # "" <=> CharacterAt(s, end, terminators)
  BY <1>4 DEF Terminated, CharacterAt
<1>8. field.eofOK = FALSE
  BY DEF Terminated
<1> HIDE DEF number, ok
<1>9. number # <<>> <=> n \in field.lengths /\ DigitsAt(s, p.pos, n)
  BY <1>6
<1>10. ok <=> p.ok /\ FieldAt(s, p.pos, field, n)
  BY <1>3, <1>6, <1>7, <1>8, <1>9 DEF ok, FieldAt, NumberIn
<1>11. number \in Seq(Int)
  BY <1>5, <1>6
<1>12. q \in Parsed(s)
  <2>1. p.numbers \o number \in Seq(Int)
    BY <1>0, <1>11, ConcatProperties
  <2>2. token.term \in STRING \cup {""}
    <3>1. ASSUME end <= Len(s) PROVE s[end] \in STRING
      BY <1>0, <1>end, <3>1, ElementOfSeq
    <3> QED BY <1>4, <3>1
  <2>3. token.pos \in 1..(Len(s) + 1)
    <3>1. /\ end + 1 \in Int /\ end + 1 >= 1
          /\ end <= Len(s) => end + 1 <= Len(s) + 1
      BY <1>0, <1>end
    <3>2. CASE token.pos = end
      BY <1>end, <3>2
    <3>3. CASE end <= Len(s) /\ token.pos = end + 1
      BY <1>0, <3>1, <3>3
    <3> QED BY <1>4, <3>2, <3>3
  <2>4. ok \in BOOLEAN
    BY DEF ok
  <2> QED BY <1>1, <2>1, <2>2, <2>3, <2>4 DEF Parsed
<1>13. q.ok = ok
  BY <1>1 DEF Parsed
<1>14. q.ok => p.ok /\ \E m \in field.lengths : FieldAt(s, p.pos, field, m)
  BY <1>10, <1>13 DEF FieldAt
<1>15. ASSUME NEW m \in field.lengths, p.ok, FieldAt(s, p.pos, field, m)
       PROVE  q = AfterField(s, p, m)
  <2>1. m \in Nat /\ terminators \cap Digits = {}
    BY DEF Terminated
  <2>2. end = p.pos + m
    <3> DEFINE i == p.pos
    <3>1. i \in 1..(Len(s) + 1) /\ end \in i..(Len(s) + 1) /\ EndsAt(s, i, terminators, end)
      BY <1>0, <1>2
    <3>2. DigitsAt(s, i, m) /\ CharacterAt(s, i + m, terminators)
      BY <1>15 DEF FieldAt, NumberIn
    <3> HIDE DEF i, terminators
    <3>3. end = i + m
      BY <2>1, <3>1, <3>2, EndsAfterDigits
    <3> QED BY <3>3 DEF i
  <2>3. m = n
    BY <1>0, <1>3, <2>1, <2>2, SMTT(30)
  <2>4. ok = TRUE
    BY <1>10, <1>15, <2>3 DEF ok
  <2>5. number = <<NumberAt(s, p.pos, m)>>
    BY <1>6, <1>15, <2>3 DEF FieldAt, NumberIn
  <2>6. token.term = s[p.pos + m] /\ token.pos = p.pos + m + 1
    BY <1>4, <1>15, <2>2 DEF FieldAt, CharacterAt
  <2>7. p.ok = TRUE
    BY <1>15, <1>0
  <2> QED BY <1>1, <2>4, <2>5, <2>6, <2>7 DEF AfterField, Parsed
<1> QED BY <1>12, <1>14, <1>15 DEF q

\* No terminator is a digit or the empty text that stands for none.
LEMMA TerminatedFields ==
  ASSUME NEW terminators, terminators \cap (Digits \cup NonASCII \cup {""}) = {},
         NEW lengths \in SUBSET (Nat \ {0}), NEW values
  PROVE  Terminated(Field(terminators, FALSE, lengths, values))
BY DEF Terminated, Field

\* All the fields but the minutes of an offset must end with a terminator.
LEMMA FieldsAreTerminated ==
  /\ Terminated(YearField) /\ Terminated(MonthField) /\ Terminated(DayField)
  /\ Terminated(HourField) /\ Terminated(MinuteField) /\ Terminated(SecondField)
  /\ Terminated(OffsetHoursField)
<1> DEFINE T == {"."} \cup ZoneMarks
           U == {"t", "T"}
           V == {":"}
           W == {"-"}
           None == Digits \cup NonASCII \cup {""}
<1>1. \A c \in T \cup U \cup V \cup W : c \notin NonASCII /\ c # ""
  BY NonASCIIAssumption DEF ZoneMarks, Signs
<1>2. \A c \in T \cup U \cup V \cup W : c \notin Digits
  BY DEF ZoneMarks, Signs, Digits
<1>3. T \cap None = {} /\ U \cap None = {} /\ V \cap None = {} /\ W \cap None = {}
  <2> HIDE DEF T, U, V, W
  <2> QED BY <1>1, <1>2
<1>4. {1, 2} \in SUBSET (Nat \ {0}) /\ {2} \in SUBSET (Nat \ {0}) /\ {4} \in SUBSET (Nat \ {0})
  OBVIOUS
<1>5. Terminated(YearField)
  <2> DEFINE years == 0..9999
  <2>1. Terminated(Field(W, FALSE, {4}, years))
    <3> HIDE DEF years, W
    <3> QED BY <1>3, <1>4, TerminatedFields
  <2>2. YearField = Field(W, FALSE, {4}, years)
    BY DEF YearField
  <2> HIDE DEF years, W
  <2> QED BY <2>1, <2>2
<1>9. Terminated(MonthField)
  BY <1>3, <1>4, TerminatedFields DEF MonthField
<1>6. Terminated(DayField)
  BY <1>3, <1>4, TerminatedFields DEF DayField
<1>7. Terminated(HourField) /\ Terminated(MinuteField) /\ Terminated(OffsetHoursField)
  BY <1>3, <1>4, TerminatedFields DEF HourField, MinuteField, OffsetHoursField
<1>8. Terminated(SecondField)
  BY <1>3, <1>4, TerminatedFields DEF SecondField
<1> QED BY <1>5, <1>9, <1>6, <1>7, <1>8

\* Three fields, one after another, and what is left to read.
ThreeAt(s, pos, f1, f2, f3, n1, n2, n3) ==
  /\ FieldAt(s, pos, f1, n1) /\ FieldAt(s, pos + n1 + 1, f2, n2)
  /\ FieldAt(s, pos + n1 + n2 + 2, f3, n3)
WithThree(numbers, a, b, c) == ((numbers \o <<a>>) \o <<b>>) \o <<c>>
AfterThree(s, p, n1, n2, n3) ==
  [p EXCEPT !.numbers = WithThree(@, NumberAt(s, p.pos, n1), NumberAt(s, p.pos + n1 + 1, n2),
                                     NumberAt(s, p.pos + n1 + n2 + 2, n3)),
            !.term = s[p.pos + n1 + n2 + n3 + 2], !.pos = p.pos + n1 + n2 + n3 + 3]

\* What it means that they are read as the grammar has them.
ThreeAreRead(s, p, f1, f2, f3) ==
  LET q == ThreeFields(s, p, f1, f2, f3)
  IN  /\ q \in Parsed(s)
      /\ q.ok => /\ p.ok
                 /\ \E n1 \in f1.lengths, n2 \in f2.lengths, n3 \in f3.lengths :
                      ThreeAt(s, p.pos, f1, f2, f3, n1, n2, n3)
      /\ \A n1 \in f1.lengths, n2 \in f2.lengths, n3 \in f3.lengths :
           p.ok /\ ThreeAt(s, p.pos, f1, f2, f3, n1, n2, n3) => q = AfterThree(s, p, n1, n2, n3)

\* Three fields are read as the grammar has them, one behind the other.
LEMMA ThreeTerminatedFields ==
  ASSUME NEW s \in Seq(STRING), NEW p \in Parsed(s), NEW f1, NEW f2, NEW f3,
         Terminated(f1), Terminated(f2), Terminated(f3)
  PROVE  ThreeAreRead(s, p, f1, f2, f3)
<1> DEFINE y == NumericField(s, p, f1)
           m == NumericField(s, y, f2)
           d == NumericField(s, m, f3)
<1>1. /\ y \in Parsed(s)
      /\ y.ok => p.ok /\ \E n \in f1.lengths : FieldAt(s, p.pos, f1, n)
      /\ \A n \in f1.lengths : p.ok /\ FieldAt(s, p.pos, f1, n) => y = AfterField(s, p, n)
  BY TerminatedField
<1> HIDE DEF y
<1>2. /\ m \in Parsed(s)
      /\ m.ok => y.ok /\ \E n \in f2.lengths : FieldAt(s, y.pos, f2, n)
      /\ \A n \in f2.lengths : y.ok /\ FieldAt(s, y.pos, f2, n) => m = AfterField(s, y, n)
  BY <1>1, TerminatedField
<1> HIDE DEF m
<1>3. /\ d \in Parsed(s)
      /\ d.ok => m.ok /\ \E n \in f3.lengths : FieldAt(s, m.pos, f3, n)
      /\ \A n \in f3.lengths : m.ok /\ FieldAt(s, m.pos, f3, n) => d = AfterField(s, m, n)
  BY <1>2, TerminatedField
<1> HIDE DEF d
<1>0. p.pos \in Int
  <2>1. Len(s) \in Nat
    BY LenProperties
  <2>2. p.pos \in 1..(Len(s) + 1)
    BY DEF Parsed
  <2> QED BY <2>1, <2>2
<1>4. ASSUME NEW n1 \in f1.lengths, p.ok, FieldAt(s, p.pos, f1, n1)
      PROVE  /\ y.ok /\ y.pos = p.pos + n1 + 1
             /\ y = AfterField(s, p, n1) /\ y.numbers = p.numbers \o <<NumberAt(s, p.pos, n1)>>
  <2>1. y = AfterField(s, p, n1)
    BY <1>1, <1>4
  <2> QED BY <2>1, <1>4 DEF AfterField, Parsed
<1>5. ASSUME NEW n1 \in f1.lengths, NEW n2 \in f2.lengths, p.ok,
             FieldAt(s, p.pos, f1, n1), FieldAt(s, p.pos + n1 + 1, f2, n2)
      PROVE  /\ m.ok /\ m.pos = p.pos + n1 + n2 + 2
             /\ m = AfterField(s, y, n2)
             /\ m.numbers = (p.numbers \o <<NumberAt(s, p.pos, n1)>>)
                              \o <<NumberAt(s, p.pos + n1 + 1, n2)>>
  <2>1. y.ok /\ y.pos = p.pos + n1 + 1 /\ y.numbers = p.numbers \o <<NumberAt(s, p.pos, n1)>>
    BY <1>4, <1>5
  <2>2. m = AfterField(s, y, n2)
    BY <1>2, <1>5, <2>1
  <2>3. n1 \in Nat /\ n2 \in Nat
    BY DEF Terminated
  <2>4. m.ok /\ m.pos = y.pos + n2 + 1 /\ m.numbers = y.numbers \o <<NumberAt(s, y.pos, n2)>>
    BY <1>1, <2>1, <2>2 DEF AfterField, Parsed
  <2>5. p.pos + n1 + 1 + n2 + 1 = p.pos + n1 + n2 + 2
    BY <1>0, <2>3
  <2> QED BY <2>1, <2>2, <2>4, <2>5
<1>6. d.ok => /\ p.ok
              /\ \E n1 \in f1.lengths, n2 \in f2.lengths, n3 \in f3.lengths :
                   ThreeAt(s, p.pos, f1, f2, f3, n1, n2, n3)
  <2> SUFFICES ASSUME d.ok
      PROVE  p.ok /\ \E n1 \in f1.lengths, n2 \in f2.lengths, n3 \in f3.lengths :
                       ThreeAt(s, p.pos, f1, f2, f3, n1, n2, n3)
    OBVIOUS
  <2>1. m.ok /\ y.ok /\ p.ok
    BY <1>1, <1>2, <1>3
  <2>2. PICK n1 \in f1.lengths : FieldAt(s, p.pos, f1, n1)
    BY <1>1, <2>1
  <2>3. y.pos = p.pos + n1 + 1
    BY <1>4, <2>1, <2>2
  <2>4. PICK n2 \in f2.lengths : FieldAt(s, p.pos + n1 + 1, f2, n2)
    BY <1>2, <2>1, <2>3
  <2>5. m.pos = p.pos + n1 + n2 + 2
    BY <1>5, <2>1, <2>2, <2>4
  <2>6. PICK n3 \in f3.lengths : FieldAt(s, p.pos + n1 + n2 + 2, f3, n3)
    BY <1>3, <2>5
  <2>7. ThreeAt(s, p.pos, f1, f2, f3, n1, n2, n3)
    BY <2>2, <2>4, <2>6 DEF ThreeAt
  <2> QED BY <2>1, <2>7
<1>7. ASSUME NEW n1 \in f1.lengths, NEW n2 \in f2.lengths, NEW n3 \in f3.lengths,
             p.ok, ThreeAt(s, p.pos, f1, f2, f3, n1, n2, n3)
      PROVE  d = AfterThree(s, p, n1, n2, n3)
  <2>1. /\ FieldAt(s, p.pos, f1, n1) /\ FieldAt(s, p.pos + n1 + 1, f2, n2)
        /\ FieldAt(s, p.pos + n1 + n2 + 2, f3, n3)
    BY <1>7 DEF ThreeAt
  <2>2. /\ m.ok /\ m.pos = p.pos + n1 + n2 + 2
        /\ m = AfterField(s, y, n2) /\ y = AfterField(s, p, n1)
        /\ m.numbers = (p.numbers \o <<NumberAt(s, p.pos, n1)>>)
                         \o <<NumberAt(s, p.pos + n1 + 1, n2)>>
    BY <1>4, <1>5, <1>7, <2>1
  <2>3. d = AfterField(s, m, n3)
    BY <1>3, <2>1, <2>2
  <2>4. n1 \in Nat /\ n2 \in Nat /\ n3 \in Nat
    BY DEF Terminated
  <2>5. /\ p.pos + n1 + n2 + 2 + n3 = p.pos + n1 + n2 + n3 + 2
        /\ p.pos + n1 + n2 + 2 + n3 + 1 = p.pos + n1 + n2 + n3 + 3
    BY <1>0, <2>4
  <2>6. m = [p EXCEPT !.numbers = m.numbers, !.term = m.term, !.pos = m.pos]
    BY <2>2 DEF AfterField, Parsed
  <2>7. d = [p EXCEPT !.numbers = m.numbers \o <<NumberAt(s, m.pos, n3)>>,
                      !.term = s[m.pos + n3], !.pos = m.pos + n3 + 1]
    BY <2>3, <2>6 DEF AfterField, Parsed
  <2> QED BY <2>2, <2>5, <2>7, Zenon DEF AfterThree, WithThree
<1>8. ThreeFields(s, p, f1, f2, f3) = d
  BY DEF ThreeFields, d, m, y
<1> QED BY <1>3, <1>6, <1>7, <1>8 DEF ThreeAreRead

\* A list with more numbers at its end.
Longer(xs, ys, more) ==
  /\ ys \in Seq(Int) /\ Len(ys) = Len(xs) + more
  /\ \A i \in 1..Len(xs) : ys[i] = xs[i]

\* A number that is appended comes last, and the others stay.
LEMMA OneNumberMore ==
  ASSUME NEW xs \in Seq(Int), NEW a \in Int
  PROVE  Longer(xs, xs \o <<a>>, 1) /\ (xs \o <<a>>)[Len(xs) + 1] = a
<1>1. <<a>> \in Seq(Int) /\ Len(<<a>>) = 1 /\ <<a>>[1] = a
  OBVIOUS
<1> DEFINE one == <<a>>
           ys == xs \o one
<1> HIDE DEF one
<1>2. /\ ys \in Seq(Int) /\ Len(ys) = Len(xs) + Len(one)
      /\ \A i \in 1..(Len(xs) + Len(one)) :
           ys[i] = IF i <= Len(xs) THEN xs[i] ELSE one[i - Len(xs)]
  BY <1>1, ConcatProperties DEF one
<1>3. Len(xs) \in Nat
  BY LenProperties
<1> HIDE DEF ys
<1>4. \A i \in 1..Len(xs) : i \in 1..(Len(xs) + 1) /\ i <= Len(xs)
  BY <1>3
<1>5. Len(xs) + 1 \in 1..(Len(xs) + 1) /\ ~(Len(xs) + 1 <= Len(xs)) /\ Len(xs) + 1 - Len(xs) = 1
  BY <1>3
<1>6. Len(one) = 1 /\ one[1] = a
  BY <1>1 DEF one
<1>7. ys[Len(xs) + 1] = a
  <2>1. Len(xs) + 1 \in 1..(Len(xs) + Len(one))
    BY <1>5, <1>6
  <2>2. ys[Len(xs) + 1] = one[Len(xs) + 1 - Len(xs)]
    BY <1>2, <1>5, <2>1
  <2> QED BY <1>5, <1>6, <2>2
<1>8. \A i \in 1..Len(xs) : ys[i] = xs[i]
  BY <1>2, <1>4, <1>6, Zenon
<1> QED BY <1>2, <1>6, <1>7, <1>8 DEF ys, one, Longer

ThreeLonger(xs, ys, a, b, c) ==
  /\ Longer(xs, ys, 3)
  /\ ys[Len(xs) + 1] = a /\ ys[Len(xs) + 2] = b /\ ys[Len(xs) + 3] = c

\* The same for three numbers.
LEMMA ThreeNumbersMore ==
  ASSUME NEW xs \in Seq(Int), NEW a \in Int, NEW b \in Int, NEW c \in Int
  PROVE  ThreeLonger(xs, WithThree(xs, a, b, c), a, b, c)
<1> DEFINE x1 == xs \o <<a>>
           x2 == x1 \o <<b>>
           x3 == x2 \o <<c>>
<1>0. Len(xs) \in Nat
  BY LenProperties
<1>1. Longer(xs, x1, 1) /\ x1[Len(xs) + 1] = a
  BY OneNumberMore
<1> HIDE DEF x1
<1>2. Longer(x1, x2, 1) /\ x2[Len(x1) + 1] = b
  BY <1>1, OneNumberMore DEF Longer
<1> HIDE DEF x2
<1>3. Longer(x2, x3, 1) /\ x3[Len(x2) + 1] = c
  BY <1>2, OneNumberMore DEF Longer
<1> HIDE DEF x3
<1>4. Len(x1) = Len(xs) + 1 /\ Len(x2) = Len(xs) + 2 /\ Len(x3) = Len(xs) + 3 /\ x3 \in Seq(Int)
  BY <1>0, <1>1, <1>2, <1>3 DEF Longer
<1>5. /\ \A i \in 1..Len(xs) : i \in 1..Len(x1) /\ i \in 1..Len(x2)
      /\ Len(xs) + 1 \in 1..Len(x1) /\ Len(xs) + 1 \in 1..Len(x2) /\ Len(xs) + 2 \in 1..Len(x2)
      /\ Len(x1) + 1 = Len(xs) + 2 /\ Len(x2) + 1 = Len(xs) + 3
  BY <1>0, <1>4
<1>6. \A i \in 1..Len(xs) : x3[i] = xs[i]
  BY <1>1, <1>2, <1>3, <1>5 DEF Longer
<1>7. x3[Len(xs) + 1] = a /\ x3[Len(xs) + 2] = b /\ x3[Len(xs) + 3] = c
  BY <1>1, <1>2, <1>3, <1>5 DEF Longer
<1> QED BY <1>4, <1>6, <1>7 DEF x3, x2, x1, Longer, WithThree, ThreeLonger

Start == [ok |-> TRUE, numbers |-> <<>>, nanos |-> 0, term |-> "", pos |-> 1]
DateOf(s) == ThreeFields(s, Start, YearField, MonthField, DayField)
HasDate(s, numbers) ==
  /\ numbers[1] = NumberAt(s, 1, 4) /\ numbers[2] = NumberAt(s, 6, 2)
  /\ numbers[3] = NumberAt(s, 9, 2)

\* The date, with the character that separates it from the time.
LEMMA DateIsRead ==
  ASSUME NEW s \in Seq(STRING)
  PROVE  /\ DateOf(s) \in Parsed(s)
         /\ DateOf(s).ok <=> IsDate(s)
         /\ IsDate(s) => /\ DateOf(s).pos = 12 /\ DateOf(s).nanos = 0
                         /\ Len(DateOf(s).numbers) = 3 /\ HasDate(s, DateOf(s).numbers)
<1>1. Start \in Parsed(s) /\ Start.ok /\ Start.pos = 1 /\ Start.nanos = 0
  <2>1. <<>> \in Seq(Int) /\ 1 \in 1..(Len(s) + 1)
    BY LenProperties, EmptySeq
  <2> QED BY <2>1 DEF Parsed, Start
<1>2. Terminated(YearField) /\ Terminated(MonthField) /\ Terminated(DayField)
  BY FieldsAreTerminated
<1>3. \A pos : FieldAt(s, pos, YearField, 4) <=>
                 NumberIn(s, pos, 4, 0..9999) /\ CharacterAt(s, pos + 4, {"-"})
  BY DEF FieldAt, YearField, Field
<1>4. \A pos : FieldAt(s, pos, MonthField, 2) <=>
                 NumberIn(s, pos, 2, 1..12) /\ CharacterAt(s, pos + 2, {"-"})
  BY DEF FieldAt, MonthField, Field
<1>5. \A pos : FieldAt(s, pos, DayField, 2) <=>
                 NumberIn(s, pos, 2, 1..31) /\ CharacterAt(s, pos + 2, {"t", "T"})
  BY DEF FieldAt, DayField, Field
<1>6. YearField.lengths = {4} /\ MonthField.lengths = {2} /\ DayField.lengths = {2}
  BY DEF YearField, MonthField, DayField, Field
<1> DEFINE at == ThreeAt(s, 1, YearField, MonthField, DayField, 4, 2, 2)
<1>7. at <=> IsDate(s)
  <2>1. 1 + 4 = 5 /\ 1 + 4 + 1 = 6 /\ 6 + 2 = 8 /\ 1 + 4 + 2 + 2 = 9 /\ 9 + 2 = 11
    OBVIOUS
  <2>2. at <=> /\ FieldAt(s, 1, YearField, 4) /\ FieldAt(s, 6, MonthField, 2)
               /\ FieldAt(s, 9, DayField, 2)
    BY <2>1 DEF ThreeAt
  <2> HIDE DEF at
  <2> QED BY <1>3, <1>4, <1>5, <2>1, <2>2 DEF IsDate
<1> HIDE DEF at
<1>8. /\ DateOf(s) \in Parsed(s)
      /\ DateOf(s).ok => at
      /\ at => DateOf(s) = AfterThree(s, Start, 4, 2, 2)
  <2> HIDE DEF Start
  <2>1. ThreeAreRead(s, Start, YearField, MonthField, DayField)
    BY <1>1, <1>2, ThreeTerminatedFields
  <2> QED BY <1>1, <1>6, <2>1 DEF DateOf, at, ThreeAreRead
<1>9. ASSUME IsDate(s)
      PROVE  /\ DateOf(s).ok /\ DateOf(s).pos = 12 /\ DateOf(s).nanos = 0
             /\ Len(DateOf(s).numbers) = 3 /\ HasDate(s, DateOf(s).numbers)
  <2> DEFINE xs == <<>>
             a == NumberAt(s, 1, 4)
             b == NumberAt(s, 6, 2)
             c == NumberAt(s, 9, 2)
             ys == WithThree(xs, a, b, c)
  <2>1. 11 <= Len(s) /\ Len(s) \in Nat
    BY <1>9, LenProperties, SMTT(30) DEF IsDate, CharacterAt
  <2>2. a \in Int
    <3>1. 1 \in 1..(Len(s) + 1) /\ 4 \in Nat /\ 1 + 4 <= Len(s) + 1
      BY <2>1
    <3> QED BY <3>1, NumberHere
  <2>3. b \in Int
    <3>1. 6 \in 1..(Len(s) + 1) /\ 2 \in Nat /\ 6 + 2 <= Len(s) + 1
      BY <2>1
    <3> QED BY <3>1, NumberHere
  <2>4. c \in Int
    <3>1. 9 \in 1..(Len(s) + 1) /\ 2 \in Nat /\ 9 + 2 <= Len(s) + 1
      BY <2>1
    <3> QED BY <3>1, NumberHere
  <2>5. xs \in Seq(Int) /\ Len(xs) = 0
    BY EmptySeq
  <2>6. DateOf(s) = [Start EXCEPT !.numbers = ys, !.term = s[11], !.pos = 12]
    <3>1. /\ 1 + 4 + 1 = 6 /\ 1 + 4 + 2 + 2 = 9 /\ 1 + 4 + 2 + 2 + 2 = 11
          /\ 1 + 4 + 2 + 2 + 3 = 12
      OBVIOUS
    <3>2. DateOf(s) = AfterThree(s, Start, 4, 2, 2)
      BY <1>7, <1>8, <1>9
    <3>3. Start.numbers = xs
      BY DEF Start
    <3> HIDE DEF Start, xs
    <3> QED BY <1>1, <3>1, <3>2, <3>3 DEF AfterThree
  <2> HIDE DEF a, b, c, xs
  <2>7. ThreeLonger(xs, ys, a, b, c)
    BY <2>2, <2>3, <2>4, <2>5, ThreeNumbersMore
  <2> HIDE DEF ys
  <2>8. Len(ys) = 3 /\ ys[1] = a /\ ys[2] = b /\ ys[3] = c
    BY <2>5, <2>7 DEF ThreeLonger, Longer
  <2>9. DateOf(s).ok /\ DateOf(s).pos = 12 /\ DateOf(s).nanos = 0 /\ DateOf(s).numbers = ys
    BY <2>6 DEF Start
  <2> QED BY <2>8, <2>9 DEF HasDate, a, b, c
<1> QED BY <1>7, <1>8, <1>9

TimeOf(s) == ThreeFields(s, DateOf(s), HourField, MinuteField, SecondField)
HasTime(s, h, numbers) ==
  /\ numbers[4] = NumberAt(s, 12, h) /\ numbers[5] = NumberAt(s, 13 + h, 2)
  /\ numbers[6] = NumberAt(s, 16 + h, 2)
IsDateTime(s, h) ==
  IsDate(s) /\ IsTimeOfDay(s, h) /\ CharacterAt(s, 18 + h, {"."} \cup ZoneMarks)
DateTimeIs(s, h, p) ==
  /\ p.ok /\ p.pos = 19 + h /\ p.nanos = 0 /\ p.term = s[18 + h]
  /\ p.numbers \in Seq(Int) /\ Len(p.numbers) = 6
  /\ HasDate(s, p.numbers) /\ HasTime(s, h, p.numbers)

\* The time of day, up to the point or the time zone.
LEMMA TimeIsRead ==
  ASSUME NEW s \in Seq(STRING)
  PROVE  /\ TimeOf(s) \in Parsed(s)
         /\ TimeOf(s).ok => \E h \in 1..2 : IsDateTime(s, h)
         /\ \A h \in 1..2 : IsDateTime(s, h) => DateTimeIs(s, h, TimeOf(s))
<1> DEFINE p == DateOf(s)
<1>1. /\ p \in Parsed(s) /\ (p.ok <=> IsDate(s))
      /\ IsDate(s) => p.pos = 12 /\ p.nanos = 0 /\ Len(p.numbers) = 3 /\ HasDate(s, p.numbers)
  BY DateIsRead
<1> HIDE DEF p
<1>2. Terminated(HourField) /\ Terminated(MinuteField) /\ Terminated(SecondField)
  BY FieldsAreTerminated
<1>3. \A pos, n : FieldAt(s, pos, HourField, n) <=>
                    n \in 1..2 /\ NumberIn(s, pos, n, 0..23) /\ CharacterAt(s, pos + n, {":"})
  BY DEF FieldAt, HourField, Field
<1>4. \A pos : FieldAt(s, pos, MinuteField, 2) <=>
                 NumberIn(s, pos, 2, 0..59) /\ CharacterAt(s, pos + 2, {":"})
  BY DEF FieldAt, MinuteField, Field
<1>5. \A pos : FieldAt(s, pos, SecondField, 2) <=>
                 NumberIn(s, pos, 2, 0..60) /\ CharacterAt(s, pos + 2, {"."} \cup ZoneMarks)
  BY DEF FieldAt, SecondField, Field
<1>6. HourField.lengths = 1..2 /\ MinuteField.lengths = {2} /\ SecondField.lengths = {2}
  BY DEF HourField, MinuteField, SecondField, Field
<1> DEFINE at(h) == ThreeAt(s, 12, HourField, MinuteField, SecondField, h, 2, 2)
<1>7. ASSUME NEW h \in 1..2, IsDate(s) PROVE at(h) <=> IsDateTime(s, h)
  <2>1. /\ 12 + h + 1 = 13 + h /\ 13 + h + 2 = 15 + h /\ 12 + h + 2 + 2 = 16 + h
        /\ 16 + h + 2 = 18 + h
    OBVIOUS
  <2>2. at(h) <=> /\ FieldAt(s, 12, HourField, h) /\ FieldAt(s, 13 + h, MinuteField, 2)
                  /\ FieldAt(s, 16 + h, SecondField, 2)
    BY <2>1, Zenon DEF ThreeAt
  <2> HIDE DEF at
  <2> QED BY <1>3, <1>4, <1>5, <1>7, <2>1, <2>2, Zenon DEF IsTimeOfDay, IsDateTime
<1>8. /\ TimeOf(s) \in Parsed(s)
      /\ TimeOf(s).ok =>
           p.ok /\ \E h \in 1..2 : ThreeAt(s, p.pos, HourField, MinuteField, SecondField, h, 2, 2)
      /\ \A h \in 1..2 : p.ok /\ ThreeAt(s, p.pos, HourField, MinuteField, SecondField, h, 2, 2)
           => TimeOf(s) = AfterThree(s, p, h, 2, 2)
  <2>1. TimeOf(s) = ThreeFields(s, p, HourField, MinuteField, SecondField)
    BY DEF TimeOf, p
  <2>2. ThreeAreRead(s, p, HourField, MinuteField, SecondField)
    BY <1>1, <1>2, ThreeTerminatedFields
  <2> QED BY <1>6, <2>1, <2>2 DEF ThreeAreRead
<1>9. TimeOf(s).ok => \E h \in 1..2 : IsDateTime(s, h)
  <2> HIDE DEF at
  <2> SUFFICES ASSUME TimeOf(s).ok PROVE \E h \in 1..2 : IsDateTime(s, h)
    OBVIOUS
  <2>1. p.ok /\ IsDate(s) /\ p.pos = 12
    BY <1>1, <1>8
  <2>2. PICK h \in 1..2 : at(h)
    BY <1>8, <2>1 DEF at
  <2> QED BY <1>7, <2>1, <2>2
<1> HIDE DEF at
<1>10. ASSUME NEW h \in 1..2, IsDateTime(s, h) PROVE DateTimeIs(s, h, TimeOf(s))
  <2> DEFINE a == NumberAt(s, 12, h)
             b == NumberAt(s, 13 + h, 2)
             c == NumberAt(s, 16 + h, 2)
             ys == WithThree(p.numbers, a, b, c)
  <2>1. 18 + h <= Len(s) /\ Len(s) \in Nat /\ IsDate(s)
    BY <1>10, LenProperties DEF IsDateTime, CharacterAt
  <2>2. a \in Int
    <3>1. 12 \in 1..(Len(s) + 1) /\ h \in Nat /\ 12 + h <= Len(s) + 1
      BY <2>1
    <3> QED BY <3>1, NumberHere
  <2>3. b \in Int
    <3>1. 13 + h \in 1..(Len(s) + 1) /\ 2 \in Nat /\ 13 + h + 2 <= Len(s) + 1
      BY <2>1
    <3> QED BY <3>1, NumberHere
  <2>4. c \in Int
    <3>1. 16 + h \in 1..(Len(s) + 1) /\ 2 \in Nat /\ 16 + h + 2 <= Len(s) + 1
      BY <2>1
    <3> QED BY <3>1, NumberHere
  <2>5. /\ p.ok /\ p.pos = 12 /\ p.nanos = 0 /\ Len(p.numbers) = 3 /\ HasDate(s, p.numbers)
        /\ p.numbers \in Seq(Int)
    BY <1>1, <2>1 DEF Parsed
  <2>6. TimeOf(s) = [p EXCEPT !.numbers = ys, !.term = s[18 + h], !.pos = 19 + h]
    <3>1. /\ p.pos + h + 1 = 13 + h /\ p.pos + h + 2 + 2 = 16 + h
          /\ p.pos + h + 2 + 2 + 2 = 18 + h /\ p.pos + h + 2 + 2 + 3 = 19 + h
      BY <2>5
    <3>2. TimeOf(s) = AfterThree(s, p, h, 2, 2)
      BY <1>7, <1>8, <1>10, <2>1, <2>5 DEF at
    <3>3. /\ NumberAt(s, p.pos, h) = a /\ NumberAt(s, p.pos + h + 1, 2) = b
          /\ NumberAt(s, p.pos + h + 2 + 2, 2) = c
      BY <2>5, <3>1
    <3> HIDE DEF a, b, c
    <3> QED BY <3>1, <3>2, <3>3 DEF AfterThree
  <2> HIDE DEF a, b, c
  <2>7. ThreeLonger(p.numbers, ys, a, b, c)
    BY <2>2, <2>3, <2>4, <2>5, ThreeNumbersMore
  <2> HIDE DEF ys
  <2>8. /\ Len(ys) = 6 /\ ys \in Seq(Int) /\ ys[4] = a /\ ys[5] = b /\ ys[6] = c
        /\ \A i \in 1..3 : ys[i] = p.numbers[i]
    BY <2>5, <2>7 DEF ThreeLonger, Longer
  <2>9. /\ TimeOf(s).ok /\ TimeOf(s).pos = 19 + h /\ TimeOf(s).nanos = 0 /\ TimeOf(s).numbers = ys
        /\ TimeOf(s).term = s[18 + h]
    BY <1>1, <2>5, <2>6 DEF Parsed
  <2>10. HasDate(s, ys)
    BY <2>5, <2>8 DEF HasDate
  <2>11. HasTime(s, h, ys)
    BY <2>8 DEF HasTime, a, b, c
  <2> QED BY <2>8, <2>9, <2>10, <2>11 DEF DateTimeIs
<1> QED BY <1>8, <1>9, <1>10

\* The fraction, between a point and the time zone.
AfterFraction(s, p, n) ==
  [p EXCEPT !.nanos = NanosAt(s, p.pos - 1, n), !.term = s[p.pos + n], !.pos = p.pos + n + 1]
\* parseDateTimeNanoseconds reads up to nine digits before a time zone.
LEMMA FractionIsRead ==
  ASSUME NEW s \in Seq(STRING), NEW p \in Parsed(s)
  PROVE  LET q == FractionField(s, p)
             At(n) == DigitsAt(s, p.pos, n) /\ CharacterAt(s, p.pos + n, ZoneMarks)
         IN  /\ q \in Parsed(s)
             /\ q.ok => p.ok /\ \E n \in 1..9 : At(n)
             /\ \A n \in 1..9 : p.ok /\ At(n) => q = AfterFraction(s, p, n)
<1> DEFINE token == ReadUntil(s, p.pos, ZoneMarks)
           zeros(n) == [i \in 1..(9 - n) |-> "0"]
           number == IF Len(token.text) \in 1..9
                     THEN PositiveNumber(token.text \o zeros(Len(token.text))) ELSE <<>>
           q == FractionField(s, p)
           ok == p.ok /\ token.term # "" /\ number # <<>>
           At(n) == DigitsAt(s, p.pos, n) /\ CharacterAt(s, p.pos + n, ZoneMarks)
<1>0. Len(s) \in Nat /\ p.pos \in 1..(Len(s) + 1) /\ p.ok \in BOOLEAN /\ p.numbers \in Seq(Int)
  BY LenProperties DEF Parsed
<1>1. q = [p EXCEPT !.ok = ok, !.nanos = IF number = <<>> THEN 0 ELSE number[1],
                    !.term = token.term, !.pos = token.pos]
  BY DEF FractionField
<1>2. PICK end \in p.pos..(Len(s) + 1) :
        EndsAt(s, p.pos, ZoneMarks, end) /\ token = TokenTo(s, p.pos, ZoneMarks, end)
  BY <1>0, TokenEnds
<1> DEFINE n == end - p.pos
           here == SubSeq(s, p.pos, p.pos + n - 1)
<1>3. n \in Nat /\ p.pos + n = end /\ p.pos + n - 1 = end - 1 /\ p.pos + n <= Len(s) + 1
  BY <1>0, <1>2
<1> HIDE DEF n
<1>end. end \in p.pos..(Len(s) + 1) /\ end \in 1..(Len(s) + 1)
  BY <1>0
<1> HIDE DEF token, q
<1>4. /\ token.text = here
      /\ token.term = IF end <= Len(s) /\ s[end] \in ZoneMarks THEN s[end] ELSE ""
      /\ token.pos = IF end <= Len(s) /\ s[end] \in ZoneMarks THEN end + 1 ELSE end
  BY <1>2, <1>3 DEF TokenTo
<1>5. /\ here \in Seq(STRING) /\ Len(here) = n
      /\ (\A i \in 1..n : here[i] \in Digits) <=> DigitsAt(s, p.pos, n)
  BY <1>0, <1>3, PartOfText
<1>6. /\ end \in 1..(Len(s) + 1)
      /\ end <= Len(s) => end + 1 \in 1..(Len(s) + 1) /\ s[end] \in STRING
  <2>1. end \in 1..(Len(s) + 1)
    BY <1>0, <1>2
  <2>2. end <= Len(s) => end \in 1..Len(s) /\ end + 1 \in 1..(Len(s) + 1)
    BY <1>0, <2>1
  <2> QED BY <2>1, <2>2, ElementOfSeq
<1> HIDE DEF here
<1>8. ASSUME n \in 1..9
      PROVE  /\ number \in Seq(Int)
             /\ number # <<>> <=> DigitsAt(s, p.pos, n)
             /\ number # <<>> => number[1] = NanosAt(s, p.pos - 1, n)
  <2> DEFINE S == STRING \cup {"0"}
             pad == zeros(n)
             all == here \o pad
  <2>0. here \in Seq(S)
    BY <1>5, ElementOfSeq, SeqDef
  <2>1. pad \in Seq(S) /\ Len(pad) = 9 - n /\ \A i \in 1..(9 - n) : pad[i] = "0"
    <3> DEFINE k == 9 - n
    <3>1. k \in Nat
      BY <1>8
    <3>2. pad = [i \in 1..k |-> "0"]
      OBVIOUS
    <3> HIDE DEF k, pad
    <3>3. pad \in [1..k -> S]
      BY <3>2
    <3>4. pad \in Seq(S)
      BY <3>1, <3>3
    <3>5. Len(pad) = k
      BY <3>1, <3>2
    <3> QED BY <3>2, <3>4, <3>5 DEF k
  <2> HIDE DEF pad
  <2>2. /\ all \in Seq(S) /\ Len(all) = n + (9 - n)
        /\ \A i \in 1..(n + (9 - n)) : all[i] = IF i <= n THEN here[i] ELSE pad[i - n]
    BY <1>5, <2>0, <2>1, ConcatProperties, SMTT(30)
  <2>3. n + (9 - n) = 9
    BY <1>3
  <2> HIDE DEF all
  <2>4. all # <<>>
    BY <2>2, <2>3, EmptySeq
  <2>5. "0" \in Digits
    BY DEF Digits
  <2>6. (\A i \in 1..Len(all) : all[i] \in Digits) <=> \A i \in 1..n : here[i] \in Digits
    <3>1. \A i \in 1..n : i \in 1..9 /\ i <= n
      BY <1>8
    <3>2. \A i \in 1..9 : ~(i <= n) => i - n \in 1..(9 - n)
      BY <1>8
    <3>3. \A i \in 1..9 : i <= n => i \in 1..n
      BY <1>8
    <3>4. ASSUME NEW i \in 1..n, \A j \in 1..9 : all[j] \in Digits PROVE here[i] \in Digits
      BY <2>2, <2>3, <3>1, <3>4
    <3>5. ASSUME NEW i \in 1..9, \A j \in 1..n : here[j] \in Digits PROVE all[i] \in Digits
      <4>1. CASE i <= n
        BY <2>2, <2>3, <3>3, <3>5, <4>1
      <4>2. CASE ~(i <= n)
        <5>1. all[i] = "0"
          BY <2>1, <2>2, <2>3, <3>2, <4>2
        <5> QED BY <2>5, <5>1
      <4> QED BY <4>1, <4>2
    <3> QED BY <2>2, <2>3, <3>4, <3>5
  <2>7. number = PositiveNumber(all)
    BY <1>4, <1>5, <1>8 DEF all, pad
  <2>8. number = IF DigitsAt(s, p.pos, n) THEN <<DecimalValue(all)[9]>> ELSE <<>>
    <3>1. Len(all) = 9
      BY <2>2, <2>3
    <3> QED BY <1>5, <2>4, <2>6, <2>7, <3>1 DEF PositiveNumber
  <2>9. DecimalValue(all)[9] \in Int
    <3>1. 9 \in 0..Len(all)
      BY <2>2, <2>3
    <3> QED BY <2>2, <3>1, DecimalIsDefined
  <2>10. NanosAt(s, p.pos - 1, n) = DecimalValue(all)[9]
    <3>1. n # 0 /\ p.pos - 1 + 1 = p.pos /\ p.pos - 1 + n = p.pos + n - 1
      BY <1>0, <1>3, <1>8
    <3>2. NanosAt(s, p.pos - 1, n) =
            DecimalValue(SubSeq(s, p.pos - 1 + 1, p.pos - 1 + n) \o [k \in 1..(9 - n) |-> "0"])[9]
      BY <3>1, Zenon DEF NanosAt
    <3> QED BY <3>1, <3>2, Zenon DEF all, pad, here
  <2> HIDE DEF number
  <2> QED BY <2>8, <2>9, <2>10
<1>9. n \notin 1..9 => number = <<>>
  BY <1>4, <1>5
<1>10. token.term # "" <=> CharacterAt(s, end, ZoneMarks)
  <2>1. "" \notin ZoneMarks
    BY DEF ZoneMarks, Signs
  <2> QED BY <1>4, <2>1 DEF CharacterAt
<1> HIDE DEF number
<1>11. ok <=> p.ok /\ n \in 1..9 /\ At(n)
  BY <1>3, <1>8, <1>9, <1>10
<1> HIDE DEF ok
<1>12. q \in Parsed(s)
  <2>1. (IF number = <<>> THEN 0 ELSE number[1]) \in Int
    <3>1. CASE number = <<>>
      BY <3>1
    <3>2. CASE number # <<>>
      <4>1. number \in Seq(Int)
        BY <1>8, <1>9, <3>2
      <4> QED BY <3>2, <4>1
    <3> QED BY <3>1, <3>2
  <2>2. token.term \in STRING \cup {""}
    BY <1>4, <1>6
  <2>3. token.pos \in 1..(Len(s) + 1)
    BY <1>4, <1>6
  <2>4. ok \in BOOLEAN
    BY DEF ok
  <2> QED BY <1>1, <2>1, <2>2, <2>3, <2>4 DEF Parsed
<1>13. q.ok = ok
  BY <1>1 DEF Parsed
<1>14. q.ok => p.ok /\ \E m \in 1..9 : At(m)
  <2> HIDE DEF At
  <2> QED BY <1>11, <1>13
<1>15. ASSUME NEW m \in 1..9, p.ok, At(m) PROVE q = AfterFraction(s, p, m)
  <2>1. m \in Nat /\ ZoneMarks \cap Digits = {}
    BY DEF ZoneMarks, Signs, Digits
  <2>2. end = p.pos + m
    BY <1>0, <1>2, <1>15, <2>1, EndsAfterDigits
  <2>3. m = n
    BY <1>0, <1>3, <2>1, <2>2, SMTT(30)
  <2>4. ok = TRUE
    BY <1>11, <1>15, <2>3 DEF ok
  <2>5. number # <<>> /\ number[1] = NanosAt(s, p.pos - 1, m)
    BY <1>8, <1>15, <2>3
  <2>6. token.term = s[p.pos + m] /\ token.pos = p.pos + m + 1
    BY <1>4, <1>15, <2>2 DEF CharacterAt
  <2>7. p.ok = TRUE
    BY <1>15, <1>0
  <2> QED BY <1>1, <2>4, <2>5, <2>6, <2>7 DEF AfterFraction, Parsed
<1> QED BY <1>12, <1>14, <1>15 DEF q

\* Everything before the time zone, and the mark that it starts with.
BeforeZone(s, shape) ==
  /\ IsDate(s) /\ IsTimeOfDay(s, shape.hour)
  /\ FractionAt(s, FractionStart(shape), shape.fraction)
  /\ CharacterAt(s, ZoneStart(shape), ZoneMarks)
BeforeZoneIs(s, shape, p) ==
  /\ p.ok /\ p.pos = ZoneStart(shape) + 1 /\ p.term = s[ZoneStart(shape)]
  /\ p.nanos = NanosAt(s, FractionStart(shape), shape.fraction)
  /\ p.numbers \in Seq(Int) /\ Len(p.numbers) = 6
  /\ HasDate(s, p.numbers) /\ HasTime(s, shape.hour, p.numbers)

\* The parser comes to a time zone exactly if the grammar does, with the same numbers.
LEMMA DateTimeIsRead ==
  ASSUME NEW s \in Seq(STRING)
  PROVE  LET p == ParseDateTime(s)
         IN  /\ p \in Parsed(s)
             /\ p.ok => \E shape \in Shapes : BeforeZone(s, shape)
             /\ \A shape \in Shapes : BeforeZone(s, shape) => BeforeZoneIs(s, shape, p)
<1> DEFINE t == TimeOf(s)
           f == FractionField(s, t)
           p == ParseDateTime(s)
<1>1. p = IF t.ok /\ t.term = "." THEN f ELSE t
  BY DEF ParseDateTime, TimeOf, DateOf, ThreeFields, Start
<1>2. /\ t \in Parsed(s)
      /\ t.ok => \E h \in 1..2 : IsDateTime(s, h)
      /\ \A h \in 1..2 : IsDateTime(s, h) => DateTimeIs(s, h, t)
  BY TimeIsRead
<1> HIDE DEF t
<1> DEFINE At(n) == DigitsAt(s, t.pos, n) /\ CharacterAt(s, t.pos + n, ZoneMarks)
<1>3. /\ f \in Parsed(s)
      /\ f.ok => t.ok /\ \E n \in 1..9 : At(n)
      /\ \A n \in 1..9 : t.ok /\ At(n) => f = AfterFraction(s, t, n)
  BY <1>2, FractionIsRead
<1> HIDE DEF f, p
<1>4. "." \notin ZoneMarks
  BY DEF ZoneMarks, Signs
<1>5. \A h \in 1..2, n \in 0..9 :
        LET shape == [hour |-> h, fraction |-> n]
        IN  /\ shape \in Shapes /\ FractionStart(shape) = 18 + h
            /\ ZoneStart(shape) = IF n = 0 THEN 18 + h ELSE 19 + h + n
  BY DEF Shapes, FractionStart, ZoneStart
<1>6. ASSUME p.ok PROVE \E shape \in Shapes : BeforeZone(s, shape)
  <2>1. t.ok
    BY <1>1, <1>3, <1>6
  <2>2. PICK h \in 1..2 : IsDateTime(s, h)
    BY <1>2, <2>1
  <2>3. t.pos = 19 + h /\ t.term = s[18 + h]
    BY <1>2, <2>2 DEF DateTimeIs
  <2>4. CASE t.term = "."
    <3>1. PICK n \in 1..9 : At(n)
      BY <1>1, <1>3, <1>6, <2>1, <2>4
    <3> DEFINE shape == [hour |-> h, fraction |-> n]
    <3>2. n \in 0..9 /\ n # 0 /\ 18 + h + 1 = 19 + h
      OBVIOUS
    <3>3. shape \in Shapes /\ FractionStart(shape) = 18 + h /\ ZoneStart(shape) = 19 + h + n
      BY <1>5, <3>2
    <3>4. shape.hour = h /\ shape.fraction = n
      OBVIOUS
    <3> HIDE DEF shape
    <3>5. CharacterAt(s, 18 + h, {"."})
      BY <2>2, <2>3, <2>4 DEF IsDateTime, CharacterAt
    <3>6. DigitsAt(s, 18 + h + 1, n) /\ CharacterAt(s, 19 + h + n, ZoneMarks)
      BY <2>3, <3>1, <3>2
    <3>7. FractionAt(s, 18 + h, n)
      BY <3>5, <3>6 DEF FractionAt
    <3>8. BeforeZone(s, shape)
      BY <2>2, <3>3, <3>4, <3>6, <3>7 DEF BeforeZone, IsDateTime
    <3> QED BY <3>3, <3>8
  <2>5. CASE t.term # "."
    <3> DEFINE shape == [hour |-> h, fraction |-> 0]
    <3>1. 0 \in 0..9 /\ ~(0 > 0)
      OBVIOUS
    <3>2. shape \in Shapes /\ FractionStart(shape) = 18 + h /\ ZoneStart(shape) = 18 + h
      BY <1>5, <3>1
    <3>3. shape.hour = h /\ shape.fraction = 0
      OBVIOUS
    <3> HIDE DEF shape
    <3>4. CharacterAt(s, 18 + h, ZoneMarks)
      BY <2>2, <2>3, <2>5 DEF IsDateTime, CharacterAt
    <3>5. FractionAt(s, 18 + h, 0)
      BY <3>1 DEF FractionAt
    <3>6. BeforeZone(s, shape)
      BY <2>2, <3>2, <3>3, <3>4, <3>5 DEF BeforeZone, IsDateTime
    <3> QED BY <3>2, <3>6
  <2> QED BY <2>4, <2>5
<1>7. ASSUME NEW shape \in Shapes, BeforeZone(s, shape) PROVE BeforeZoneIs(s, shape, p)
  <2> DEFINE h == shape.hour
             n == shape.fraction
  <2>1. h \in 1..2 /\ n \in 0..9 /\ FractionStart(shape) = 18 + h
    BY DEF Shapes, FractionStart
  <2>2. ZoneStart(shape) = IF n = 0 THEN 18 + h ELSE 19 + h + n
    BY <2>1 DEF ZoneStart
  <2>3. /\ IsDate(s) /\ IsTimeOfDay(s, h) /\ FractionAt(s, 18 + h, n)
        /\ CharacterAt(s, ZoneStart(shape), ZoneMarks)
    BY <1>7, <2>1 DEF BeforeZone
  <2> HIDE DEF h, n
  <2>4. CASE n = 0
    <3>1. ZoneStart(shape) = 18 + h /\ CharacterAt(s, 18 + h, ZoneMarks)
      BY <2>2, <2>3, <2>4
    <3>2. IsDateTime(s, h)
      BY <2>3, <3>1 DEF IsDateTime, CharacterAt
    <3>3. DateTimeIs(s, h, t)
      BY <1>2, <2>1, <3>2
    <3>4. p = t
      BY <1>1, <1>4, <3>1, <3>3 DEF DateTimeIs, CharacterAt
    <3>5. NanosAt(s, 18 + h, 0) = 0
      BY DEF NanosAt
    <3>6. 18 + h + 1 = 19 + h
      BY <2>1
    <3> QED BY <2>1, <2>4, <3>1, <3>3, <3>4, <3>5, <3>6 DEF DateTimeIs, BeforeZoneIs, h, n
  <2>5. CASE n # 0
    <3>1. n \in 1..9 /\ n > 0 /\ 18 + h + 1 = 19 + h /\ ZoneStart(shape) = 19 + h + n
      BY <2>1, <2>2, <2>5
    <3>2. CharacterAt(s, 18 + h, {"."}) /\ DigitsAt(s, 19 + h, n)
      BY <2>3, <3>1 DEF FractionAt
    <3>3. IsDateTime(s, h)
      BY <2>3, <3>2 DEF IsDateTime, CharacterAt
    <3>4. DateTimeIs(s, h, t)
      BY <1>2, <2>1, <3>3
    <3>5. t.ok /\ t.term = "." /\ t.pos = 19 + h
      BY <3>2, <3>4 DEF DateTimeIs, CharacterAt
    <3>6. p = AfterFraction(s, t, n)
      <4>1. At(n)
        BY <2>3, <3>1, <3>2, <3>5
      <4>2. p = f
        BY <1>1, <3>5
      <4> QED BY <1>3, <3>1, <3>5, <4>1, <4>2
    <3>7. /\ p.ok /\ p.pos = t.pos + n + 1 /\ p.term = s[t.pos + n]
          /\ p.nanos = NanosAt(s, t.pos - 1, n) /\ p.numbers = t.numbers
      BY <1>2, <3>5, <3>6 DEF AfterFraction, Parsed
    <3>8. t.pos - 1 = 18 + h /\ t.pos + n = ZoneStart(shape) /\ t.pos + n + 1 = ZoneStart(shape) + 1
      BY <2>1, <3>1, <3>5
    <3> QED BY <2>1, <3>4, <3>7, <3>8 DEF DateTimeIs, BeforeZoneIs, h, n
  <2> QED BY <2>4, <2>5
<1> QED BY <1>2, <1>1, <1>3, <1>6, <1>7 DEF p

\* The minutes of an offset, which end the text.
MinutesAt(s, pos) ==
  /\ NumberIn(s, pos, 2, 0..59)
  /\ pos + 2 <= Len(s) => s[pos + 2] \in NonASCII
\* The minutes of an offset are read up to the end, or a character that is not ASCII.
LEMMA MinutesAreRead ==
  ASSUME NEW s \in Seq(STRING), NEW p \in Parsed(s)
  PROVE  LET q == NumericField(s, p, OffsetMinutesField)
         IN  /\ q.ok <=> p.ok /\ MinutesAt(s, p.pos)
             /\ q.ok => q.numbers = p.numbers \o <<NumberAt(s, p.pos, 2)>>
<1> DEFINE token == ReadUntil(s, p.pos, {})
           number == IF Len(token.text) \in {2} THEN PositiveNumber(token.text) ELSE <<>>
           q == NumericField(s, p, OffsetMinutesField)
           ok == p.ok /\ number # <<>> /\ number[1] \in 0..59
<1>0. Len(s) \in Nat /\ p.pos \in 1..(Len(s) + 1) /\ p.ok \in BOOLEAN /\ p.numbers \in Seq(Int)
  BY LenProperties DEF Parsed
<1>1. q = [p EXCEPT !.ok = ok, !.numbers = @ \o number, !.term = token.term, !.pos = token.pos]
  BY DEF NumericField, OffsetMinutesField, Field
<1>2. PICK end \in p.pos..(Len(s) + 1) :
        EndsAt(s, p.pos, {}, end) /\ token = TokenTo(s, p.pos, {}, end)
  BY <1>0, TokenEnds
<1> DEFINE n == end - p.pos
<1>3. n \in Nat /\ p.pos + n = end /\ p.pos + n - 1 = end - 1 /\ p.pos + n <= Len(s) + 1
  BY <1>0, <1>2
<1> HIDE DEF token, q, n
<1>4. token.text = SubSeq(s, p.pos, p.pos + n - 1)
  BY <1>2, <1>3 DEF TokenTo
<1>5. /\ Len(token.text) = n
      /\ PositiveNumber(token.text) =
           IF n # 0 /\ DigitsAt(s, p.pos, n) THEN <<NumberAt(s, p.pos, n)>> ELSE <<>>
  <2> DEFINE i == p.pos
  <2>1. i \in 1..(Len(s) + 1) /\ n \in Nat /\ i + n <= Len(s) + 1
    BY <1>0, <1>3
  <2>2. token.text = SubSeq(s, i, i + n - 1)
    BY <1>4
  <2> HIDE DEF i
  <2>3. /\ token.text \in Seq(STRING) /\ Len(token.text) = n /\ NumberAt(s, i, n) \in Int
        /\ PositiveNumber(token.text) =
             IF n # 0 /\ DigitsAt(s, i, n) THEN <<NumberAt(s, i, n)>> ELSE <<>>
    BY <2>1, <2>2, NumberHere
  <2> QED BY <2>3 DEF i
<1>6. number = IF n = 2 /\ DigitsAt(s, p.pos, 2) THEN <<NumberAt(s, p.pos, 2)>> ELSE <<>>
  BY <1>5
<1> HIDE DEF number, ok
<1>7. ok <=> p.ok /\ n = 2 /\ NumberIn(s, p.pos, 2, 0..59)
  BY <1>6 DEF ok, NumberIn
<1>8. n = 2 => (p.pos + 2 <= Len(s) => s[p.pos + 2] \in NonASCII)
  BY <1>2, <1>3 DEF EndsAt
<1>9. ASSUME MinutesAt(s, p.pos) PROVE n = 2
  <2>1. CharacterAt(s, p.pos, Digits) /\ CharacterAt(s, p.pos + 1, Digits)
    <3>1. p.pos \in p.pos..(p.pos + 2 - 1) /\ p.pos + 1 \in p.pos..(p.pos + 2 - 1)
      BY <1>0
    <3> QED BY <1>9, <3>1 DEF MinutesAt, NumberIn, DigitsAt
  <2>2. p.pos + 1 <= Len(s) /\ s[p.pos] \notin NonASCII /\ s[p.pos + 1] \notin NonASCII
    BY <2>1, NonASCIIAssumption DEF CharacterAt
  <2>3. end # p.pos /\ end # p.pos + 1
    BY <1>0, <1>2, <2>2 DEF EndsAt
  <2>4. ~(p.pos + 2 < end)
    <3> SUFFICES ASSUME p.pos + 2 < end PROVE FALSE
      OBVIOUS
    <3>1. p.pos + 2 \in p.pos..(end - 1) /\ p.pos + 2 <= Len(s)
      BY <1>0, <1>2
    <3> QED BY <1>2, <1>9, <3>1 DEF EndsAt, MinutesAt
  <2>5. end \in p.pos..(Len(s) + 1) /\ p.pos \in Int
    BY <1>0
  <2> HIDE DEF n
  <2>6. end = p.pos + 2
    BY <1>0, <2>3, <2>4, <2>5
  <2> QED BY <2>5, <2>6 DEF n
<1>10. q.ok = ok /\ q.numbers = p.numbers \o number
  BY <1>1 DEF Parsed
<1>11. q.ok <=> p.ok /\ MinutesAt(s, p.pos)
  BY <1>7, <1>8, <1>9, <1>10 DEF MinutesAt
<1>12. q.ok => number = <<NumberAt(s, p.pos, 2)>>
  BY <1>6, <1>7, <1>10 DEF NumberIn
<1> QED BY <1>10, <1>11, <1>12 DEF q

\* An offset, after its sign.
OffsetAfter(s, pos) ==
  /\ NumberIn(s, pos, 2, 0..99) /\ CharacterAt(s, pos + 2, {":"})
  /\ MinutesAt(s, pos + 3)
TwoLonger(xs, ys, a, b) ==
  /\ ys \in Seq(Int) /\ \A i \in 1..Len(xs) : ys[i] = xs[i]
  /\ ys[Len(xs) + 1] = a /\ ys[Len(xs) + 2] = b

\* An offset is read as the grammar has it, with its hours and minutes.
LEMMA OffsetIsRead ==
  ASSUME NEW s \in Seq(STRING), NEW p \in Parsed(s), p.term \in Signs
  PROVE  LET q == ParseOffset(s, p)
         IN  /\ q.ok <=> p.ok /\ OffsetAfter(s, p.pos)
             /\ q.ok => TwoLonger(p.numbers, q.numbers,
                                  NumberAt(s, p.pos, 2), NumberAt(s, p.pos + 3, 2))
<1> DEFINE y == NumericField(s, p, OffsetHoursField)
           q == NumericField(s, y, OffsetMinutesField)
           a == NumberAt(s, p.pos, 2)
           b == NumberAt(s, p.pos + 3, 2)
<1>0. Len(s) \in Nat /\ p.pos \in 1..(Len(s) + 1) /\ p.numbers \in Seq(Int)
  BY LenProperties DEF Parsed
<1>1. ParseOffset(s, p) = q
  BY DEF ParseOffset
<1>2. Terminated(OffsetHoursField) /\ OffsetHoursField.lengths = {2}
  BY FieldsAreTerminated DEF OffsetHoursField, Field
<1> DEFINE hours == FieldAt(s, p.pos, OffsetHoursField, 2)
<1>3. hours <=> NumberIn(s, p.pos, 2, 0..99) /\ CharacterAt(s, p.pos + 2, {":"})
  BY DEF FieldAt, OffsetHoursField, Field
<1>4. /\ y \in Parsed(s)
      /\ y.ok => p.ok /\ \E n \in OffsetHoursField.lengths : FieldAt(s, p.pos, OffsetHoursField, n)
      /\ \A n \in OffsetHoursField.lengths :
           p.ok /\ FieldAt(s, p.pos, OffsetHoursField, n) => y = AfterField(s, p, n)
  BY <1>2, TerminatedField
<1> HIDE DEF y
<1>5. (y.ok => p.ok /\ hours) /\ (p.ok /\ hours => y = AfterField(s, p, 2))
  BY <1>2, <1>4
<1> HIDE DEF hours
<1>6. /\ q.ok <=> y.ok /\ MinutesAt(s, y.pos)
      /\ q.ok => q.numbers = y.numbers \o <<NumberAt(s, y.pos, 2)>>
  BY <1>4, MinutesAreRead
<1> HIDE DEF q
<1>7. p.ok /\ hours => y.ok /\ y.pos = p.pos + 3 /\ y.numbers = p.numbers \o <<a>>
  <2>1. p.pos + 2 + 1 = p.pos + 3
    BY <1>0
  <2> QED BY <1>5, <2>1 DEF AfterField, Parsed
<1>8. q.ok <=> p.ok /\ OffsetAfter(s, p.pos)
  BY <1>3, <1>5, <1>6, <1>7 DEF OffsetAfter
<1>9. ASSUME q.ok PROVE TwoLonger(p.numbers, q.numbers, a, b)
  <2> DEFINE xs == p.numbers
             x1 == xs \o <<a>>
             x2 == x1 \o <<b>>
  <2>1. q.numbers = x2 /\ hours
    BY <1>5, <1>6, <1>7, <1>9
  <2>2. p.pos + 4 <= Len(s)
    <3>1. p.pos + 3 + 1 \in (p.pos + 3)..(p.pos + 3 + 2 - 1) /\ p.pos + 3 + 1 = p.pos + 4
      BY <1>0
    <3> QED BY <1>8, <1>9, <3>1 DEF OffsetAfter, MinutesAt, NumberIn, DigitsAt, CharacterAt
  <2>3. a \in Int
    <3>1. p.pos + 2 <= Len(s) + 1
      BY <1>0, <2>2
    <3> QED BY <1>0, <3>1, NumberHere
  <2>4. b \in Int
    <3>1. p.pos + 3 \in 1..(Len(s) + 1) /\ p.pos + 3 + 2 <= Len(s) + 1
      BY <1>0, <2>2
    <3> QED BY <3>1, NumberHere
  <2> HIDE DEF a, b
  <2>5. Longer(xs, x1, 1) /\ x1[Len(xs) + 1] = a
    BY <1>0, <2>3, OneNumberMore
  <2> HIDE DEF x1
  <2>6. Longer(x1, x2, 1) /\ x2[Len(x1) + 1] = b
    BY <2>4, <2>5, OneNumberMore DEF Longer
  <2> HIDE DEF x2
  <2>7. Len(xs) \in Nat /\ Len(x1) = Len(xs) + 1
    BY <1>0, <2>5, LenProperties DEF Longer
  <2>8. /\ \A i \in 1..Len(xs) : i \in 1..Len(x1)
        /\ Len(xs) + 1 \in 1..Len(x1) /\ Len(x1) + 1 = Len(xs) + 2
    BY <2>7
  <2> QED BY <2>1, <2>5, <2>6, <2>8 DEF TwoLonger, Longer
<1> QED BY <1>1, <1>8, <1>9

\* What follows the time of day, or its fraction, is a time zone.
LEMMA ZoneFollows ==
  ASSUME NEW s, NEW shape \in Shapes
  PROVE  LET i == ZoneStart(shape)
         IN  Follows(s, shape) <=>
               /\ BeforeZone(s, shape)
               /\ s[i] \in Signs => OffsetAfter(s, i + 1)
<1> DEFINE i == ZoneStart(shape)
<1>1. i \in Int
  BY DEF Shapes, ZoneStart, FractionStart
<1>2. i + 1 + 2 = i + 3 /\ i + 1 + 3 = i + 4 /\ i + 4 + 2 = i + 6
  BY <1>1
<1> DEFINE before == /\ IsDate(s) /\ IsTimeOfDay(s, shape.hour)
                     /\ FractionAt(s, FractionStart(shape), shape.fraction)
<1>3. Follows(s, shape) <=> before /\ (CharacterAt(s, i, {"Z", "z"}) \/ IsOffset(s, i))
  BY DEF Follows
<1>4. BeforeZone(s, shape) <=> before /\ CharacterAt(s, i, ZoneMarks)
  BY DEF BeforeZone
<1> HIDE DEF i, before
<1>5. IsOffset(s, i) <=> CharacterAt(s, i, Signs) /\ OffsetAfter(s, i + 1)
  BY <1>2, Zenon DEF IsOffset, OffsetAfter, MinutesAt
<1>6. CharacterAt(s, i, ZoneMarks) <=> CharacterAt(s, i, {"Z", "z"}) \/ CharacterAt(s, i, Signs)
  BY DEF CharacterAt, ZoneMarks
<1>7. CharacterAt(s, i, {"Z", "z"}) => s[i] \notin Signs
  BY DEF CharacterAt, Signs
<1>8. CharacterAt(s, i, Signs) => s[i] \in Signs
  BY DEF CharacterAt
<1> QED BY <1>3, <1>4, <1>5, <1>6, <1>7, <1>8 DEF i

\* What the parser makes of a text.
GrammarHolds(s, result) ==
  /\ \A shape \in Shapes : Follows(s, shape) => result = <<TimeAt(s, shape)>>
  /\ result # <<>> => \E shape \in Shapes : Follows(s, shape)

\* A text is parsed exactly if it has the form of a time, and then as the instant of its parts,
\* with a day or a second that does not exist run over.
LEMMA TextIsRead ==
  ASSUME NEW s \in Seq(STRING)
  PROVE  GrammarHolds(s, ParseRFC3339TimeUTC(s))
<1> DEFINE p == ParseDateTime(s)
           q == ParseOffset(s, p)
           n == q.numbers
           time == Instant(n[1], n[2], n[3],
                           n[6] + 60 * (n[5] + 60 * n[4]) + OffsetSeconds(p.term, n[7], n[8]),
                           p.nanos)
<1>1. ParseRFC3339TimeUTC(s) = IF q.ok THEN <<time>> ELSE <<>>
  BY DEF ParseRFC3339TimeUTC
<1>2. /\ p \in Parsed(s)
      /\ p.ok => \E shape \in Shapes : BeforeZone(s, shape)
      /\ \A shape \in Shapes : BeforeZone(s, shape) => BeforeZoneIs(s, shape, p)
  BY DateTimeIsRead
<1> HIDE DEF p, time
<1>3. ASSUME p.term \in Signs
      PROVE  /\ q.ok <=> p.ok /\ OffsetAfter(s, p.pos)
             /\ q.ok => TwoLonger(p.numbers, n, NumberAt(s, p.pos, 2), NumberAt(s, p.pos + 3, 2))
  BY <1>2, <1>3, OffsetIsRead
<1>4. ASSUME p.term \notin Signs PROVE q.ok = p.ok /\ TwoLonger(p.numbers, n, 0, 0)
  <2>1. q.ok = p.ok /\ n = p.numbers \o <<0, 0>> /\ p.numbers \in Seq(Int)
    BY <1>2, <1>4 DEF ParseOffset, Parsed
  <2> DEFINE xs == p.numbers
             none == <<0, 0>>
  <2>2. none \in Seq(Int) /\ Len(none) = 2 /\ none[1] = 0 /\ none[2] = 0
    OBVIOUS
  <2> HIDE DEF none
  <2>3. /\ xs \o none \in Seq(Int)
        /\ \A i \in 1..(Len(xs) + Len(none)) :
             (xs \o none)[i] = IF i <= Len(xs) THEN xs[i] ELSE none[i - Len(xs)]
    BY <2>1, <2>2, ConcatProperties
  <2>4. Len(xs) \in Nat
    BY <2>1, LenProperties
  <2>5. /\ \A i \in 1..Len(xs) : i \in 1..(Len(xs) + 2) /\ i <= Len(xs)
        /\ Len(xs) + 1 \in 1..(Len(xs) + 2) /\ Len(xs) + 2 \in 1..(Len(xs) + 2)
        /\ ~(Len(xs) + 1 <= Len(xs)) /\ Len(xs) + 1 - Len(xs) = 1
        /\ ~(Len(xs) + 2 <= Len(xs)) /\ Len(xs) + 2 - Len(xs) = 2
    BY <2>4
  <2>6. n = xs \o none
    BY <2>1 DEF none
  <2> HIDE DEF n, xs
  <2>7. /\ n \in Seq(Int)
        /\ \A i \in 1..(Len(xs) + 2) : n[i] = IF i <= Len(xs) THEN xs[i] ELSE none[i - Len(xs)]
    BY <2>2, <2>3, <2>6
  <2>8. n[Len(xs) + 1] = 0 /\ n[Len(xs) + 2] = 0
    <3> DEFINE k == Len(xs) + 1
               m == Len(xs) + 2
    <3>1. k \in 1..(Len(xs) + 2) /\ ~(k <= Len(xs)) /\ k - Len(xs) = 1
      BY <2>5
    <3>2. m \in 1..(Len(xs) + 2) /\ ~(m <= Len(xs)) /\ m - Len(xs) = 2
      BY <2>5
    <3> HIDE DEF k, m
    <3>3. n[k] = none[1] /\ n[m] = none[2]
      BY <2>7, <3>1, <3>2
    <3> QED BY <2>2, <3>3 DEF k, m
  <2> QED BY <2>1, <2>5, <2>7, <2>8 DEF TwoLonger, xs
<1> HIDE DEF q
<1>5. ASSUME NEW shape \in Shapes, BeforeZone(s, shape)
      PROVE  /\ q.ok <=> Follows(s, shape)
             /\ q.ok => time = TimeAt(s, shape)
  <2> DEFINE i == ZoneStart(shape)
             h == shape.hour
  <2>1. BeforeZoneIs(s, shape, p) /\ i \in Int /\ h \in 1..2
    BY <1>2, <1>5 DEF Shapes, ZoneStart, FractionStart
  <2>2. p.ok /\ p.pos = i + 1 /\ p.term = s[i] /\ i + 1 + 3 = i + 4
    BY <2>1 DEF BeforeZoneIs
  <2>3. q.ok <=> Follows(s, shape)
    <3>1. Follows(s, shape) <=> (s[i] \in Signs => OffsetAfter(s, i + 1))
      BY <1>5, ZoneFollows, Zenon
    <3>2. CASE s[i] \in Signs
      BY <1>3, <2>2, <3>1, <3>2, Zenon
    <3>3. CASE s[i] \notin Signs
      BY <1>4, <2>2, <3>1, <3>3, Zenon
    <3> QED BY <3>2, <3>3
  <2>4. ASSUME q.ok PROVE time = TimeAt(s, shape)
    <3>1. /\ n \in Seq(Int) /\ HasDate(s, n) /\ HasTime(s, h, n)
          /\ OffsetSeconds(p.term, n[7], n[8]) = OffsetAt(s, i)
          /\ \A k \in 1..6 : n[k] = p.numbers[k]
      <4>1. Len(p.numbers) = 6 /\ HasDate(s, p.numbers) /\ HasTime(s, h, p.numbers)
        BY <2>1 DEF BeforeZoneIs
      <4>2. CASE p.term \in Signs
        <5>1. TwoLonger(p.numbers, n, NumberAt(s, i + 1, 2), NumberAt(s, i + 4, 2))
          BY <1>3, <2>2, <2>4, <4>2
        <5>2. n \in Seq(Int) /\ n[7] = NumberAt(s, i + 1, 2) /\ n[8] = NumberAt(s, i + 4, 2)
          BY <4>1, <5>1 DEF TwoLonger
        <5>3. \A k \in 1..6 : n[k] = p.numbers[k]
          BY <4>1, <5>1 DEF TwoLonger
        <5>4. HasDate(s, n) /\ HasTime(s, h, n)
          BY <4>1, <5>3 DEF HasDate, HasTime
        <5>5. OffsetSeconds(p.term, n[7], n[8]) = OffsetAt(s, i)
          BY <2>2, <4>2, <5>2, Zenon DEF OffsetAt
        <5> QED BY <5>2, <5>3, <5>4, <5>5
      <4>3. CASE p.term \notin Signs
        <5>1. TwoLonger(p.numbers, n, 0, 0)
          BY <1>4, <4>3
        <5>2. n \in Seq(Int) /\ n[7] = 0 /\ n[8] = 0
          BY <4>1, <5>1 DEF TwoLonger
        <5>3. \A k \in 1..6 : n[k] = p.numbers[k]
          BY <4>1, <5>1 DEF TwoLonger
        <5>4. HasDate(s, n) /\ HasTime(s, h, n)
          BY <4>1, <5>3 DEF HasDate, HasTime
        <5>5. OffsetSeconds(p.term, n[7], n[8]) = 0
          BY <5>2 DEF OffsetSeconds
        <5>6. OffsetAt(s, i) = 0
          BY <2>2, <4>3 DEF OffsetAt
        <5> QED BY <5>2, <5>3, <5>4, <5>5, <5>6
      <4> QED BY <4>2, <4>3
    <3>2. p.nanos = NanosAt(s, FractionStart(shape), shape.fraction)
      BY <2>1 DEF BeforeZoneIs
    <3> DEFINE H == NumberAt(s, 12, h)
               M == NumberAt(s, 13 + h, 2)
               S == NumberAt(s, 16 + h, 2)
    <3>3. /\ n[1] = NumberAt(s, 1, 4) /\ n[2] = NumberAt(s, 6, 2) /\ n[3] = NumberAt(s, 9, 2)
          /\ n[4] = H /\ n[5] = M /\ n[6] = S
      BY <3>1 DEF HasDate, HasTime
    <3>4. H \in Int /\ M \in Int /\ S \in Int
      <4>1. \A k \in 1..6 : p.numbers[k] \in Int
        BY <2>1, ElementOfSeq DEF BeforeZoneIs
      <4>2. 4 \in 1..6 /\ 5 \in 1..6 /\ 6 \in 1..6
        OBVIOUS
      <4>3. n[4] \in Int /\ n[5] \in Int /\ n[6] \in Int
        BY <3>1, <4>1, <4>2
      <4> QED BY <3>3, <4>3
    <3> DEFINE L == n[6] + 60 * (n[5] + 60 * n[4]) + OffsetSeconds(p.term, n[7], n[8])
               R == 3600 * H + 60 * M + S + OffsetAt(s, i)
               date(seconds, nanos) ==
                 Instant(NumberAt(s, 1, 4), NumberAt(s, 6, 2), NumberAt(s, 9, 2), seconds, nanos)
    <3>5. L = R
      <4> HIDE DEF H, M, S, i
      <4>1. S + 60 * (M + 60 * H) = 3600 * H + 60 * M + S
        BY <3>4
      <4> QED BY <3>1, <3>3, <4>1
    <3>6. time = date(L, p.nanos)
      <4>1. time = Instant(n[1], n[2], n[3], L, p.nanos)
        BY DEF time
      <4> HIDE DEF L
      <4> QED BY <3>3, <4>1
    <3>7. TimeAt(s, shape) = date(R, NanosAt(s, FractionStart(shape), shape.fraction))
      BY DEF TimeAt
    <3> HIDE DEF L, R, date
    <3> QED BY <3>2, <3>5, <3>6, <3>7
  <2> QED BY <2>3, <2>4
<1>6. ASSUME NEW shape \in Shapes, Follows(s, shape)
      PROVE  ParseRFC3339TimeUTC(s) = <<TimeAt(s, shape)>>
  <2>1. BeforeZone(s, shape)
    BY <1>6, ZoneFollows
  <2> QED BY <1>1, <1>5, <1>6, <2>1
<1>7. ASSUME ParseRFC3339TimeUTC(s) # <<>> PROVE \E shape \in Shapes : Follows(s, shape)
  <2>1. q.ok
    BY <1>1, <1>7
  <2>2. p.ok
    BY <1>3, <1>4, <2>1
  <2> QED BY <1>2, <1>5, <2>1, <2>2
<1> QED BY <1>6, <1>7 DEF GrammarHolds

\* What has been parsed is what the parser makes of the text.
TextInv == text \in Texts /\ (IsParsed => parsed = <<ParseRFC3339TimeUTC(text)>>)
\* Every time is parsed, as the instant that its parts make, and nothing is that has not the
\* form of one, whatever the text and however its characters outside of ASCII are chosen
\* (parse_time.go:24).
THEOREM TextsAreRead == TextSpec => []TimesAreRead
<1>1. TextInit => TextInv
  BY DEF TextInit, TextInv, IsParsed
<1>2. TextInv /\ [Parse]_textVars => TextInv'
  BY DEF TextInv, Parse, textVars, IsParsed
<1>3. TextInv => TimesAreRead
  <2> SUFFICES ASSUME text \in Texts, parsed = <<ParseRFC3339TimeUTC(text)>>
               PROVE  TimesAreRead
    BY DEF TextInv, TimesAreRead
  <2>1. text \in Seq(STRING)
    BY TextsAssumption
  <2>2. GrammarHolds(text, ParseRFC3339TimeUTC(text))
    BY <2>1, TextIsRead
  <2>3. parsed[1] = ParseRFC3339TimeUTC(text)
    OBVIOUS
  <2> QED BY <2>2, <2>3, Zenon DEF GrammarHolds, IsTime, TimesAreRead
<1> QED BY <1>1, <1>2, <1>3, PTL DEF TextSpec
=============================================================================
