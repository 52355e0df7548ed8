------------------------------ MODULE ParseTime ------------------------------
(***************************************************************************)
(* parseRFC3339TimeUTC (ldmodel/parse_time.go): a scanner that cuts a      *)
(* string into fields, each up to a terminator, and checks them one by     *)
(* one.  A text is a sequence of characters.                               *)
(***************************************************************************)
EXTENDS Integers, Sequences

CONSTANT NonASCII   \* characters that the scanner stops at


Digits == {"0", "1", "2", "3", "4", "5", "6", "7", "8", "9"}
DigitValue(ch) ==
  CASE ch = "0" -> 0 [] ch = "1" -> 1 [] ch = "2" -> 2 [] ch = "3" -> 3 [] ch = "4" -> 4
    [] ch = "5" -> 5 [] ch = "6" -> 6 [] ch = "7" -> 7 [] ch = "8" -> 8 [] OTHER -> 9
Signs == {"+", "-"}
ZoneMarks == {"Z", "z"} \cup Signs

ASSUME NonASCIIAssumption ==
  NonASCII \cap (Digits \cup ZoneMarks \cup {"", "t", "T", ":", "."}) = {}

(***************************************************************************)
(* The scanner.  A token is what was read, the character that ended it     *)
(* ("" for the end of the string or a character that is not ASCII), and    *)
(* the position to go on from.  Such a character is not passed over.       *)
(***************************************************************************)
ReadUntil(s, pos, terminators) ==
  LET ends == {i \in pos..Len(s) : s[i] \in terminators \cup NonASCII}
      end  == IF ends = {} THEN Len(s) + 1 ELSE CHOOSE i \in ends : \A j \in ends : i <= j
      byTerminator == end <= Len(s) /\ s[end] \in terminators
  IN  [text |-> SubSeq(s, pos, end - 1),
       term |-> IF byTerminator THEN s[end] ELSE "",
       pos  |-> IF byTerminator THEN end + 1 ELSE end]

\* n after each of the digits.
DecimalValue(text) ==
  LET n[i \in 0..Len(text)] == IF i = 0 THEN 0 ELSE 10 * n[i - 1] + DigitValue(text[i])
  IN  n

\* parsePositiveNumericString: <<>> if it is not a number.
PositiveNumber(text) ==
  IF text # <<>> /\ \A i \in 1..Len(text) : text[i] \in Digits
  THEN <<DecimalValue(text)[Len(text)]>>
  ELSE <<>>

(***************************************************************************)
(* The fields.  What has been parsed so far is a record: whether all of it *)
(* was right, the numbers, and what ended the last field.                  *)
(***************************************************************************)
Field(terminators, eofOK, lengths, values) ==
  [terminators |-> terminators, eofOK |-> eofOK, lengths |-> lengths, values |-> values]

\* Mutant: a field may have any length.
NumericFieldOfAnyLength(s, parsed, field) ==
  LET token  == ReadUntil(s, parsed.pos, field.terminators)
      number == PositiveNumber(token.text)
  IN  [parsed EXCEPT
         !.ok      = /\ @ /\ (field.eofOK \/ token.term # "")
                     /\ number # <<>> /\ number[1] \in field.values,
         !.numbers = @ \o number, !.term = token.term, !.pos = token.pos]

\* parseDateTimeNumericField
NumericField(s, parsed, field) ==
  LET token  == ReadUntil(s, parsed.pos, field.terminators)
      number == IF Len(token.text) \in field.lengths THEN PositiveNumber(token.text) ELSE <<>>
  IN  [parsed EXCEPT
         !.ok      = /\ @ /\ (field.eofOK \/ token.term # "")
                     /\ number # <<>> /\ number[1] \in field.values,
         !.numbers = @ \o number, !.term = token.term, !.pos = token.pos]

\* The digits after the decimal point, as nanoseconds: as many zeros follow as are missing.
FractionField(s, parsed) ==
  LET token  == ReadUntil(s, parsed.pos, ZoneMarks)
      zeros  == [i \in 1..(9 - Len(token.text)) |-> "0"]
      number == IF Len(token.text) \in 1..9 THEN PositiveNumber(token.text \o zeros) ELSE <<>>
  IN  [parsed EXCEPT
         !.ok    = @ /\ token.term # "" /\ number # <<>>,
         !.nanos = IF number = <<>> THEN 0 ELSE number[1],
         !.term  = token.term, !.pos = token.pos]

(***************************************************************************)
(* time.Date in UTC: an instant is a number of days since a fixed day, the *)
(* seconds of that day and nanoseconds.  A day that the month does not     *)
(* have, and a second 60, run over into what follows.                      *)
(***************************************************************************)
IsLeapYear(y) == y % 4 = 0 /\ (y % 100 # 0 \/ y % 400 = 0)
DaysInMonths == <<31, 28, 31, 30, 31, 30, 31, 31, 30, 31, 30, 31>>
DaysBeforeMonth(y, m) ==
  LET days[n \in 0..12] == IF n = 0 THEN 0 ELSE days[n - 1] + DaysInMonths[n]
  IN  days[m - 1] + (IF m > 2 /\ IsLeapYear(y) THEN 1 ELSE 0)
DaysBeforeYear(y) ==
  365 * y + (y + 3) \div 4 - (y + 99) \div 100 + (y + 399) \div 400

Instant(y, m, d, seconds, nanos) ==
  [day    |-> DaysBeforeYear(y) + DaysBeforeMonth(y, m) + d + seconds \div 86400,
   second |-> seconds % 86400,
   nanos  |-> nanos]

(***************************************************************************)
(* The parser: an optional instant.  Nothing looks at what follows a "Z",  *)
(* or a character that is not ASCII after an offset.                       *)
(***************************************************************************)
YearField == Field({"-"}, FALSE, {4}, 0..9999)
MonthField == Field({"-"}, FALSE, {2}, 1..12)
DayField == Field({"t", "T"}, FALSE, {2}, 1..31)
HourField == Field({":"}, FALSE, {1, 2}, 0..23)
MinuteField == Field({":"}, FALSE, {2}, 0..59)
SecondField == Field({"."} \cup ZoneMarks, FALSE, {2}, 0..60)
OffsetHoursField == Field({":"}, FALSE, {2}, 0..99)
OffsetMinutesField == Field({}, TRUE, {2}, 0..59)

\* One field after another; after an error nothing is right any more.
ThreeFields(s, parsed, first, second, third) ==
  NumericField(s, NumericField(s, NumericField(s, parsed, first), second), third)

ParseDateTime(s) ==
  LET start    == [ok |-> TRUE, numbers |-> <<>>, nanos |-> 0, term |-> "", pos |-> 1]
      date     == ThreeFields(s, start, YearField, MonthField, DayField)
      dateTime == ThreeFields(s, date, HourField, MinuteField, SecondField)
  IN  IF dateTime.ok /\ dateTime.term = "." THEN FractionField(s, dateTime) ELSE dateTime

ParseOffset(s, parsed) ==
  IF parsed.term \in Signs
  THEN NumericField(s, NumericField(s, parsed, OffsetHoursField), OffsetMinutesField)
  ELSE [parsed EXCEPT !.numbers = @ \o <<0, 0>>]

\* Seconds to add, for an offset in hours and minutes.
OffsetSeconds(sign, hours, minutes) == (IF sign = "+" THEN -60 ELSE 60) * (minutes + 60 * hours)

ParseRFC3339TimeUTC(s) ==
  LET time   == ParseDateTime(s)
      result == ParseOffset(s, time)
      n      == result.numbers
  IN  IF result.ok
      THEN <<Instant(n[1], n[2], n[3],
               n[6] + 60 * (n[5] + 60 * n[4]) + OffsetSeconds(time.term, n[7], n[8]), time.nanos)>>
      ELSE <<>>
==============================================================================
