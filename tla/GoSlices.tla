------------------------------ MODULE GoSlices ------------------------------
(***************************************************************************)
(* Go slices.  A slice is a length and a reference to a backing array; the *)
(* length of that array is the slice's capacity.  Copying a slice copies   *)
(* the reference, and append writes into the backing array as long as      *)
(* there is room, even if other slices refer to the same array.            *)
(* Every slice here starts at the beginning of its array.                  *)
(***************************************************************************)
EXTENDS Integers, Sequences

CONSTANTS
  Zero,     \* what the runtime puts in the unused elements of an array
  Spares    \* how many unused elements the runtime may give to a new array

ASSUME GoSlicesAssumption == Spares \subseteq Nat

NilSlice == [array |-> 0, len |-> 0]

Capacity(heap, s) == IF s.array = 0 THEN 0 ELSE Len(heap[s.array])
Content(heap, s) == [i \in 1..s.len |-> heap[s.array][i]]

AppendedInPlace(heap, s, x) ==
  [heap  |-> [heap EXCEPT ![s.array] = [@ EXCEPT ![s.len + 1] = x]],
   slice |-> [s EXCEPT !.len = s.len + 1]]

\* A new array with a copy of the old elements; the old one stays as it is.
AppendedByCopy(heap, s, x, capacity) ==
  [heap  |-> Append(heap, [i \in 1..capacity |->
                             IF i <= s.len THEN heap[s.array][i]
                             ELSE IF i = s.len + 1 THEN x ELSE Zero]),
   slice |-> [array |-> Len(heap) + 1, len |-> s.len + 1]]

\* The outcomes of append(s, x).  The runtime chooses the capacity of a new array.
AppendOutcomes(heap, s, x) ==
  IF s.len < Capacity(heap, s)
  THEN {AppendedInPlace(heap, s, x)}
  ELSE {AppendedByCopy(heap, s, x, s.len + 1 + spare) : spare \in Spares}
==============================================================================
