------------------------------ MODULE JSONOrder ------------------------------
(***************************************************************************)
(* JSON without the order of the properties of its objects: one level, when *)
(* it is known what that is for the level below.  Nothing is repeated in an *)
(* object whose properties change places.                                  *)
(***************************************************************************)
EXTENDS JSONObjects

CONSTANT SameNested(_, _, _)  \* of JSON of the level below

SameField(p, a, b) ==
  IF ~p.list THEN SameNested(p.type, a, b)
  ELSE a = b \/ /\ a[1] = "array" /\ b[1] = "array" /\ DOMAIN a[2] = DOMAIN b[2]
                /\ \A i \in DOMAIN a[2] : SameNested(p.type, a[2][i], b[2][i])
SameObject(type, a, b) ==
  /\ IsList(a) /\ NoneRepeated(a) /\ IsList(b) /\ NoneRepeated(b) /\ NamesIn(a) = NamesIn(b)
  /\ \A i \in DOMAIN a, j \in DOMAIN b :
       a[i][1] = b[j][1] /\ a[i][1] \in Names(type) =>
         SameField(Properties[type][a[i][1]], a[i][2], b[j][2])
SameValue(type, a, b) ==
  \/ a = b
  \/ type \in ObjectTypes /\ a[1] = "object" /\ b[1] = "object" /\ SameObject(type, a[2], b[2])
==============================================================================
