---------------------------- MODULE HexProperties -----------------------------
(***************************************************************************)
(* What the parser of hexadecimal digits makes of the bytes in the buffer, *)
(* compared with the number that they spell.                               *)
(***************************************************************************)
EXTENDS LocalBuffer, ParseHex

SpellingsOf(d) == IF d < 10 THEN {48 + d} ELSE {87 + d, 55 + d}
DigitSpelled(ch) == {d \in 0..15 : ch \in SpellingsOf(d)}
DigitOf(ch) == CHOOSE d \in DigitSpelled(ch) : TRUE

\* The value of the first n digits, by the weight of their positions.
SpelledSoFar(data) ==
  LET value[n \in 0..Len(data)] ==
        IF n = 0 THEN 0
        ELSE value[n - 1] + Powers(16, Len(data))[Len(data) - n] * DigitOf(data[n])
  IN  value
PositionalValue(data) == SpelledSoFar(data)[Len(data)]

\* strconv.ParseUint in base 16: the number that digits spell, in either case of the letters,
\* unless it is too large for the integer, which is an error.
IsHexadecimal(data) == data # <<>> /\ \A i \in DOMAIN data : DigitSpelled(data[i]) # {}
IsTooLarge(data) == IsHexadecimal(data) /\ PositionalValue(data) >= UintSize
ParseUint(data) ==
  IF IsHexadecimal(data) /\ ~IsTooLarge(data) THEN <<PositionalValue(data)>> ELSE <<>>

\* The bytes in the buffer give the number that strconv.ParseUint gives, and none where it gives
\* none, except for numbers that are too large.  There parse_hex.go:3 is not right: ParseUint has
\* an error (ErrRange), ParseHexUint64 a number without the upper digits.  Fifteen digits, of
\* which buckets are made, are never too large.
HexAgreesWithPositions ==
  ~IsTooLarge(Data(buffer)) => ParseHexUint64(Data(buffer)) = ParseUint(Data(buffer))
==============================================================================
