------------------------------- MODULE ParseHex -------------------------------
(***************************************************************************)
(* internal.ParseHexUint64 on a sequence of byte codes.  The unsigned      *)
(* integer has Width bits: 64 in the code.                                 *)
(***************************************************************************)
EXTENDS Integers, Sequences

CONSTANT Width

ASSUME WidthAssumption == Width \in Nat /\ Width >= 4

\* The powers of a number, and how many values an unsigned integer has.
Powers(b, size) ==
  LET power[n \in 0..size] == IF n = 0 THEN 1 ELSE b * power[n - 1]
  IN  power
UintSize == Powers(2, Width)[Width]

NotADigit == -1
\* Mutant: 'g' counts as a digit.
HexDigitUpToG(ch) ==
  IF ch \in 48..57 THEN ch - 48
  ELSE IF ch \in 97..103 THEN ch - 97 + 10
  ELSE IF ch \in 65..70 THEN ch - 65 + 10
  ELSE NotADigit

HexDigit(ch) ==
  IF ch \in 48..57 THEN ch - 48
  ELSE IF ch \in 97..102 THEN ch - 97 + 10
  ELSE IF ch \in 65..70 THEN ch - 65 + 10
  ELSE NotADigit

\* ret after n bytes that are all digits: the shift to the left drops the upper bits.
Accumulated(data) ==
  LET ret[n \in 0..Len(data)] ==
        IF n = 0 THEN 0 ELSE ((16 * ret[n - 1]) % UintSize) + HexDigit(data[n])
  IN  ret

ParseHexUint64(data) ==
  IF data # <<>> /\ \A i \in DOMAIN data : HexDigit(data[i]) # NotADigit
  THEN <<Accumulated(data)[Len(data)]>>
  ELSE <<>>
==============================================================================
