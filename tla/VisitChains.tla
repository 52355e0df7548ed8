----------------------------- MODULE VisitChains -----------------------------
(***************************************************************************)
(* The chains of an evaluationStack as the Go slices they are: the flags   *)
(* being evaluated (checkPrerequisites) or the segments being tried        *)
(* (segmentContainsContext).  A stack is passed by value, so every nested  *)
(* call has a slice of its own; their backing array is shared, and a later *)
(* call writes over what an earlier one left there.                        *)
(*                                                                         *)
(* A frame is one nested call.  Which key is visited next is up to the     *)
(* data, so any key may be.                                                *)
(***************************************************************************)
EXTENDS GoSlices

CONSTANTS
  Keys,           \* keys of flags or of segments
  Preallocated,   \* capacity of the slice that Evaluate makes
  MaxChainArrays       \* bound on the arrays that append may allocate

ASSUME VisitChainsAssumption ==
  /\ Preallocated \in Nat
  /\ MaxChainArrays \in Nat \ {0}

VARIABLES chainHeap, frames, refused

chainVars == <<chainHeap, frames, refused>>

NewFrame(key, chain) == [key |-> key, chain |-> chain, extended |-> FALSE]
Frame == frames[Len(frames)]

ChainInit ==
  /\ chainHeap = <<[i \in 1..Preallocated |-> Zero]>>
  /\ \E key \in Keys : frames = <<NewFrame(key, [array |-> 1, len |-> 0])>>
  /\ refused = {}

\* Mutant: the chain is passed by reference, so that it also grows for the callers.
ExtendForAll ==
  /\ frames # <<>> /\ ~Frame.extended
  /\ \E r \in AppendOutcomes(chainHeap, Frame.chain, Frame.key) :
       /\ Len(r.heap) <= MaxChainArrays
       /\ chainHeap' = r.heap
       /\ frames' = [i \in DOMAIN frames |->
            [frames[i] EXCEPT !.chain = r.slice, !.extended = TRUE]]
  /\ UNCHANGED refused

\* The call appends its own key, to its own copy of the slice.
Extend ==
  /\ frames # <<>> /\ ~Frame.extended
  /\ \E r \in AppendOutcomes(chainHeap, Frame.chain, Frame.key) :
       /\ Len(r.heap) <= MaxChainArrays
       /\ chainHeap' = r.heap
       /\ frames' = [frames EXCEPT ![Len(frames)] =
            [@ EXCEPT !.chain = r.slice, !.extended = TRUE]]
  /\ UNCHANGED refused

InChain(key) == \E i \in 1..Frame.chain.len : chainHeap[Frame.chain.array][i] = key

Enter(key) ==
  /\ frames # <<>> /\ Frame.extended
  /\ ~InChain(key)
  /\ frames' = Append(frames, NewFrame(key, Frame.chain))
  /\ UNCHANGED <<chainHeap, refused>>

\* The key is in the chain: every call gives up.
Refuse(key) ==
  /\ frames # <<>> /\ Frame.extended
  /\ InChain(key)
  /\ frames' = <<>>
  /\ refused' = {key}
  /\ UNCHANGED chainHeap

\* The call returns to its caller, whose copy of the slice is as it was.
Leave ==
  /\ frames # <<>>
  /\ frames' = SubSeq(frames, 1, Len(frames) - 1)
  /\ UNCHANGED <<chainHeap, refused>>

ChainNext == Extend \/ Leave \/ \E key \in Keys : Enter(key) \/ Refuse(key)

ChainSpec == ChainInit /\ [][ChainNext]_chainVars

------------------------------------------------------------------------------
\* The shared arrays never show: a key is refused exactly if it is being visited, although
\* the slices that are searched for it have been written over (evaluator.go:176 and 198).
Nesting == INSTANCE VisitNesting WITH nesting <- [i \in DOMAIN frames |-> frames[i].key]
NestingIsExact == Nesting!Spec
==============================================================================
