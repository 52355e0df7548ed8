---------------------------- MODULE VisitNesting ----------------------------
(***************************************************************************)
(* What the chains of keys are for, without the chains: things that are    *)
(* visited inside one another, never one inside itself.  A visit that      *)
(* would close a circle ends everything.                                   *)
(***************************************************************************)
EXTENDS Integers, Sequences

CONSTANT Keys
VARIABLES nesting,   \* the keys being visited, the innermost last
          refused    \* the key that would have been visited inside itself, if any

Visited == {nesting[i] : i \in DOMAIN nesting}

Init == \E key \in Keys : nesting = <<key>> /\ refused = {}

Enter(key) ==
  /\ nesting # <<>>
  /\ key \notin Visited
  /\ nesting' = Append(nesting, key)
  /\ UNCHANGED refused

Refuse(key) ==
  /\ nesting # <<>>
  /\ key \in Visited
  /\ nesting' = <<>>
  /\ refused' = {key}

Leave ==
  /\ nesting # <<>>
  /\ nesting' = SubSeq(nesting, 1, Len(nesting) - 1)
  /\ UNCHANGED refused

Next == Leave \/ \E key \in Keys : Enter(key) \/ Refuse(key)
Spec == Init /\ [][Next]_<<nesting, refused>>
==============================================================================
