---------------------------- MODULE TimeProperties ----------------------------
(***************************************************************************)
(* Which texts are times, and which.  A behaviour parses one text.         *)
(***************************************************************************)
EXTENDS ParseTime

CONSTANT Texts   \* texts to parse: sequences of characters

ASSUME TextsAssumption == Texts \subseteq Seq(STRING)

VARIABLES text, parsed
textVars == <<text, parsed>>

TextInit == text \in Texts /\ parsed = <<>>
Parse ==
  /\ parsed = <<>>
  /\ parsed' = <<ParseRFC3339TimeUTC(text)>>
  /\ UNCHANGED text
TextSpec == TextInit /\ [][Parse]_textVars

------------------------------------------------------------------------------
(***************************************************************************)
(* The grammar of RFC 3339 by positions, with the deviations that          *)
(* parse_time.go:11-22 lists.  Only the hour and the fraction can have     *)
(* different lengths: the shape of a text.  A text that has the form of a  *)
(* time need not be one: a month may not have the day, a minute has no     *)
(* second 60 for time.Parse, and more text may follow.  (RFC 3339 has "t"  *)
(* and "z" in either case; time.Parse only has the capital letters.)       *)
(***************************************************************************)
Shapes == [hour : 1..2, fraction : 0..9]

CharacterAt(s, i, chars) == i <= Len(s) /\ s[i] \in chars
DigitsAt(s, i, n) == \A k \in i..(i + n - 1) : CharacterAt(s, k, Digits)
NumberAt(s, i, n) == DecimalValue(SubSeq(s, i, i + n - 1))[n]
NumberIn(s, i, n, values) == DigitsAt(s, i, n) /\ NumberAt(s, i, n) \in values

\* yyyy-mm-dd and hh:mm:ss, or h:mm:ss, with what the fields admit.
IsDate(s) ==
  /\ NumberIn(s, 1, 4, 0..9999)   /\ CharacterAt(s, 5, {"-"})
  /\ NumberIn(s, 6, 2, 1..12)      /\ CharacterAt(s, 8, {"-"})
  /\ NumberIn(s, 9, 2, 1..31)      /\ CharacterAt(s, 11, {"t", "T"})
IsTimeOfDay(s, h) ==
  /\ NumberIn(s, 12, h, 0..23)     /\ CharacterAt(s, 12 + h, {":"})
  /\ NumberIn(s, 13 + h, 2, 0..59) /\ CharacterAt(s, 15 + h, {":"})
  /\ NumberIn(s, 16 + h, 2, 0..60)

\* Up to nine digits after a point.
FractionAt(s, i, n) == n > 0 => CharacterAt(s, i, {"."}) /\ DigitsAt(s, i + 1, n)
NanosAt(s, i, n) ==
  IF n = 0 THEN 0
  ELSE DecimalValue(SubSeq(s, i + 1, i + n) \o [k \in 1..(9 - n) |-> "0"])[9]

\* "Z", after which anything may follow, or an offset.
IsOffset(s, i) ==
  /\ CharacterAt(s, i, Signs)
  /\ NumberIn(s, i + 1, 2, 0..99) /\ CharacterAt(s, i + 3, {":"})
  /\ NumberIn(s, i + 4, 2, 0..59)
  /\ i + 6 <= Len(s) => s[i + 6] \in NonASCII
OffsetAt(s, i) ==
  IF s[i] \in Signs THEN OffsetSeconds(s[i], NumberAt(s, i + 1, 2), NumberAt(s, i + 4, 2)) ELSE 0

FractionStart(shape) == 18 + shape.hour
ZoneStart(shape) == FractionStart(shape) + (IF shape.fraction = 0 THEN 0 ELSE shape.fraction + 1)

Follows(s, shape) ==
  /\ IsDate(s) /\ IsTimeOfDay(s, shape.hour)
  /\ FractionAt(s, FractionStart(shape), shape.fraction)
  /\ CharacterAt(s, ZoneStart(shape), {"Z", "z"}) \/ IsOffset(s, ZoneStart(shape))
TimeAt(s, shape) ==
  LET h == shape.hour
  IN  Instant(NumberAt(s, 1, 4), NumberAt(s, 6, 2), NumberAt(s, 9, 2),
              3600 * NumberAt(s, 12, h) + 60 * NumberAt(s, 13 + h, 2) + NumberAt(s, 16 + h, 2)
                + OffsetAt(s, ZoneStart(shape)),
              NanosAt(s, FractionStart(shape), shape.fraction))

\* What makes a text of that form a time: its day and its second exist, and it ends there.
DaysIn(y, m) == IF m = 2 /\ IsLeapYear(y) THEN 29 ELSE DaysInMonths[m]
DayExists(s) == NumberAt(s, 9, 2) <= DaysIn(NumberAt(s, 1, 4), NumberAt(s, 6, 2))
SecondExists(s, shape) == NumberAt(s, 16 + shape.hour, 2) < 60
NothingFollows(s, i) == Len(s) = IF s[i] \in Signs THEN i + 5 ELSE i
IsTime(s, shape) ==
  /\ Follows(s, shape)
  /\ DayExists(s) /\ SecondExists(s, shape) /\ NothingFollows(s, ZoneStart(shape))

------------------------------------------------------------------------------
IsParsed == parsed # <<>>

\* Every time, with up to nine digits after the point, an hour of one or two digits and an
\* offset of up to 99 hours, is parsed, and as the instant that its parts make, moved by the
\* offset across midnight; and nothing is parsed that has not the form of a time.  What has the
\* form and is no time is parsed too: that is what OnlyTimesAreParsed is about.
TimesAreRead ==
  IsParsed =>
    /\ \A shape \in Shapes : IsTime(text, shape) => parsed[1] = <<TimeAt(text, shape)>>
    /\ parsed[1] # <<>> => \E shape \in Shapes : Follows(text, shape)

\* parse_time.go:8-22: RFC3339 parsing whose deviations are the ones listed there, to be
\* consistent with time.Parse, as TestParseRFC3339TimeUTC says it is: no text is parsed whose day
\* the month does not have, whose second is 60, or that goes on after its time zone.
OnlyTimesAreParsed ==
  IsParsed /\ parsed[1] # <<>> => \E shape \in Shapes : IsTime(text, shape)
==============================================================================
