------------------------------ MODULE MCClauses ------------------------------
(***************************************************************************)
(* Clauses with every operator, over values that are numbers, strings that *)
(* parse as dates, versions or regular expressions, and values of the      *)
(* wrong type.  A behaviour tests one clause against one context, with the *)
(* clause as it was written and as PreprocessFlag leaves it; or it parses  *)
(* one text as a date, whose parts were chosen to be right or wrong.       *)
(***************************************************************************)
EXTENDS ClauseProperties, TimeProperties, TLC

MCContextKinds == {"user", "org"}
MCContextKeys == {"a"}
MCAttrNames == {"attr"}

MCZeroTime == -100
MCNonASCII == {"~"}
Characters(string) == [i \in 1..Len(string) |-> SubSeq(string, i, i)]
\* Strings: a plain one, two dates, Go's zero time, two versions and a regular expression.
Dates == {"0001-01-01T00:00:00Z", "1970-01-01T00:00:00.001Z", "1970-01-01T01:00:00.003+01:00"}
Strings == {"org", "v1", "v2", "o.*"} \cup Dates

\* Days since 1970, and milliseconds since 1970 for the dates of that day; the only other
\* one is the zero time.
UnixDay(instant) == instant.day - 719529
Millis(instant) ==
  IF UnixDay(instant) = 0
  THEN 1000 * instant.second + instant.nanos \div 1000000
  ELSE MCZeroTime
MCTimestamps ==
  [s \in Dates |->
     CASE s = "0001-01-01T00:00:00Z" -> MCZeroTime
       [] s = "1970-01-01T00:00:00.001Z" -> 1
       [] s = "1970-01-01T01:00:00.003+01:00" -> 3]
\* The table says what the parser does.
ASSUME TimestampsAssumption ==
  \A s \in Dates : MCTimestamps[s] = Millis(ParseRFC3339TimeUTC(Characters(s))[1])
MCSemVers == [s \in {"v1", "v2"} |-> IF s = "v1" THEN 1 ELSE 2]
MCRegexps == [s \in {"o.*", "org"} |-> {"org", "o.*"}]
MCStringTests ==
  {<<op, s, s>> : op \in {"startsWith", "endsWith", "contains"}, s \in Strings}
    \cup {<<"startsWith", "o.*", "o">>, <<"contains", "v2", "2">>}

\* In halves: -3.5, 0, 1, 1.5 and 9 milliseconds; 9 does not fit in MillisLimit.
Numbers == {-7, 0, 2, 3, 18}
Scalars == {<<"bool", TRUE>>} \cup {StringValue(s) : s \in Strings} \cup {<<"number", n>> : n \in Numbers}
Arrays == {<<"array", <<>>>>, <<"array", <<StringValue("org"), <<"number", 2>>>>>>}
MCValues == Scalars \cup Arrays \cup {Null}

Operators == {"in", "endsWith", "startsWith", "matches", "contains", "lessThan",
              "lessThanOrEqual", "greaterThan", "greaterThanOrEqual", "before", "after",
              "semVerEqual", "semVerLessThan", "semVerGreaterThan", "unknown"}
ClauseValues ==
  {<<>>} \cup {<<v>> : v \in Scalars \cup {Null}}
    \cup {<<StringValue("org"), <<"number", 2>>>>, <<StringValue("v2"), Null>>,
          <<StringValue("1970-01-01T01:00:00.003+01:00"), <<"number", 3>>>>}

MakeClause(op, attr, kind, values) ==
  [op |-> op, attribute |-> attr, values |-> values, negate |-> FALSE, contextKind |-> kind,
   preprocessed |-> NotPreprocessed]
Individual(v) == [key |-> "a", secondary |-> <<>>, attributes |-> [n \in MCAttrNames |-> v]]

(***************************************************************************)
(* The texts: a right one with at most two of its parts replaced, by       *)
(* others that are right or by wrong ones, and with any rest.              *)
(***************************************************************************)
Usual == [date |-> "2020-06-09", t |-> "T", hour |-> "18", minute |-> "53", second |-> "52",
          fraction |-> "", zone |-> "Z", rest |-> ""]
\* Days since 1970.
Days == ("1970-01-01" :> 0) @@ ("2020-06-09" :> 18422) @@ ("2000-02-29" :> 11016)
          @@ ("1900-03-01" :> -25508) @@ ("2021-02-31" :> 18689) @@ ("9999-12-31" :> 2932896)
Choices ==
  [date |-> DOMAIN Days \cup
            {"202-06-09", "20202-06-09", "202x-06-09", "2020-6-09", "2020-00-09", "2020-13-09",
             "2020-06-9", "2020-06-00", "2020-06-32", "~020-06-09", "2020-06~09"},
   t |-> {"T", "t", "", " "},
   hour |-> {"18", "1", "00", "23", "", "018", "24", "1x"},
   minute |-> {"53", "00", "59", "5", "053", "60"},
   second |-> {"52", "00", "60", "5", "052", "61"},
   fraction |-> {"", ".5", ".012345678", ".", ".1234567890", ".5x", "~"},
   zone |-> {"Z", "z", "+08:30", "-08:00", "+99:59", "", "/07:00", "-0:00", "-007:00", "+07:0",
             "+07:60", "-:00"},
   rest |-> {"", "x", "~"}]
Parts == DOMAIN Usual
Join(x) == x.date \o x.t \o x.hour \o ":" \o x.minute \o ":" \o x.second
             \o x.fraction \o x.zone \o x.rest
ReplacePart(xs) == UNION {{[x EXCEPT ![part] = v] : v \in Choices[part]} : x \in xs, part \in Parts}
MCTexts ==
  {Characters(Join([x EXCEPT !.rest = rest])) :
     x \in ReplacePart(ReplacePart({Usual})), rest \in Choices.rest}

\* Texts in the form of a time whose day and second do not exist, and that go on after it.
MCTextsOfNoTime ==
  {Characters(Join([Usual EXCEPT !.date = "2021-02-31", !.second = "60", !.zone = zone,
                                 !.rest = "~"])) : zone \in {"Z", "+08:30"}}

\* The calendar, and an offset across midnight.
ASSUME CalendarAssumption ==
  /\ \A date \in DOMAIN Days :
       UnixDay(ParseRFC3339TimeUTC(Characters(date \o "T00:00:00Z"))[1]) = Days[date]
  /\ ParseRFC3339TimeUTC(Characters("2020-06-09T18:53:52.012345678-08:00")) =
       <<[day |-> 719529 + 18423, second |-> 10432, nanos |-> 12345678]>>

\* Unusual attributes and kinds are combined with few values.
MCClauseCases ==
  LET clauses == {MakeClause(op, "attr", "", values) : op \in Operators, values \in ClauseValues}
                   \cup {MakeClause(op, "attr", "org", values) :
                           op \in Operators, values \in {vs \in ClauseValues : Len(vs) # 1}}
      unusual == {MakeClause(op, attr, kind, values) :
                    op \in Operators, attr \in {"", "/", "kind"}, kind \in {"", "org"},
                    values \in {<<>>, <<StringValue("org")>>}}
      ContextOf(kind, v) == [valid |-> TRUE, individuals |-> [k \in {kind} |-> Individual(v)]]
  IN  (clauses \X {ContextOf(kind, v) : kind \in MCContextKinds, v \in MCValues})
        \cup (unusual \X {ContextOf(kind, Null) : kind \in MCContextKinds})

VARIABLE subject
vars == <<subject, clauseVars, textVars>>

Init ==
  \/ /\ subject = "clause"
     /\ ClauseInit /\ text = <<>> /\ parsed = <<>>
  \/ /\ subject = "text"
     /\ TextInit
     /\ clause = MakeClause("unknown", "attr", "", <<>>) /\ outcome = <<>>
     /\ context = [valid |-> TRUE, individuals |-> [k \in {"user"} |-> Individual(Null)]]

TestStep == subject = "clause" /\ Test /\ UNCHANGED <<subject, textVars>>
ParseStep == subject = "text" /\ Parse /\ UNCHANGED <<subject, clauseVars>>
Finished == (outcome # <<>> \/ parsed # <<>>) /\ UNCHANGED vars
Next == TestStep \/ ParseStep \/ Finished
Spec == Init /\ [][Next]_vars
==============================================================================
