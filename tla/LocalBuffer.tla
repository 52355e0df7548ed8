----------------------------- MODULE LocalBuffer -----------------------------
(***************************************************************************)
(* internal.LocalBuffer: a byte slice that starts in a preallocated array  *)
(* and moves to a larger one when it is full.  Nothing else refers to its  *)
(* arrays, so the buffer is an array and a length.  A byte is its code.    *)
(***************************************************************************)
EXTENDS Integers, Sequences

CONSTANTS
  Bytes,             \* bytes that are appended
  Ints,              \* integers that are appended in decimal
  InitialCapacity,   \* capacity of the array that the buffer starts with
  MaxBytes          \* bound on the bytes that are appended

ASSUME LocalBufferAssumption ==
  /\ Bytes \subseteq 0..255
  /\ Ints \subseteq Int
  /\ InitialCapacity \in Nat
  /\ MaxBytes \in Nat

VARIABLES
  buffer,     \* LocalBuffer.Data: its backing array and its length
  appended    \* history: the bytes appended so far

bufferVars == <<buffer, appended>>

Data(b) == [i \in 1..b.len |-> b.array[i]]

\* Mutant: the bytes already there are not copied.
GrowWithoutCopy(b, addBytes) ==
  LET newLen == b.len + addBytes
      newCap == IF 2 * Len(b.array) < newLen THEN 2 * newLen ELSE 2 * Len(b.array)
  IN  IF Len(b.array) >= newLen
      THEN [b EXCEPT !.len = newLen]
      ELSE [array |-> [i \in 1..newCap |-> 0], len |-> newLen]

Grow(b, addBytes) ==
  LET newLen == b.len + addBytes
      newCap == IF 2 * Len(b.array) < newLen THEN 2 * newLen ELSE 2 * Len(b.array)
  IN  IF Len(b.array) >= newLen
      THEN [b EXCEPT !.len = newLen]
      ELSE [array |-> [i \in 1..newCap |-> IF i <= b.len THEN b.array[i] ELSE 0],
            len   |-> newLen]

\* The buffer grows first; then the new bytes are copied behind the old length.
Write(b, bytes) ==
  LET grown == Grow(b, Len(bytes))
  IN  [grown EXCEPT !.array =
         [i \in DOMAIN grown.array |-> IF i > b.len /\ i <= grown.len
                                       THEN bytes[i - b.len] ELSE grown.array[i]]]

\* strconv.AppendInt with base 10.
DigitsOf[n \in Nat] ==
  IF n < 10 THEN <<48 + n>> ELSE Append(DigitsOf[n \div 10], 48 + (n % 10))
Decimal(n) == IF n < 0 THEN <<45>> \o DigitsOf[-n] ELSE DigitsOf[n]

BufferInit ==
  /\ buffer = [array |-> [i \in 1..InitialCapacity |-> 0], len |-> 0]
  /\ appended = <<>>

\* Append and AppendString; a single byte is AppendByte.
AppendBytes(bytes) ==
  /\ Len(appended) + Len(bytes) <= MaxBytes
  /\ buffer' = Write(buffer, bytes)
  /\ appended' = appended \o bytes

AppendInt(n) == AppendBytes(Decimal(n))

BufferNext ==
  \/ \E a, b \in Bytes : AppendBytes(<<>>) \/ AppendBytes(<<a>>) \/ AppendBytes(<<a, b>>)
  \/ \E n \in Ints : AppendInt(n)

BufferSpec == BufferInit /\ [][BufferNext]_bufferVars

------------------------------------------------------------------------------
\* What is hashed is exactly what was appended, in order, however often the bytes had to
\* move and whatever the buffer's first capacity was (local_buffer.go:57).
HoldsWhatWasAppended == Data(buffer) = appended
==============================================================================
