----------------------------- MODULE JSONMeaning -----------------------------
(***************************************************************************)
(* What an evaluation looks at in a value: one level, when it is known what *)
(* that is for the level below.                                            *)
(***************************************************************************)
EXTENDS JSONObjects

CONSTANTS
  MeaningOfScalar(_, _),
  MeaningOfNested(_, _), AttributesOfNested(_, _)  \* of values of the level below

\* A rollout without variations does not exist, and is not written.
MeaningOfField(p, v) ==
  IF p.list THEN [i \in DOMAIN v |-> MeaningOfNested(p.type, v[i])] ELSE MeaningOfNested(p.type, v)
MeaningOfObject(type, r) ==
  IF type = "Rollout" /\ DOMAIN r.variations = {} THEN <<>>
  ELSE [name \in DOMAIN r |-> IF name \in Fields(type)
                              THEN MeaningOfField(Properties[type][name], r[name]) ELSE r[name]]
MeaningOf(type, v) ==
  IF type \in ObjectTypes THEN MeaningOfObject(type, v) ELSE MeaningOfScalar(type, v)

\* Each attribute of a value, with the kind that tells what it is.
AttributesOfField(p, v) ==
  IF p.list THEN UNION {AttributesOfNested(p.type, v[i]) : i \in DOMAIN v}
            ELSE AttributesOfNested(p.type, v)
AttributesOf(type, v) ==
  IF type \notin ObjectTypes THEN {}
  ELSE {<<KindOf(type, v), v[name]>> : name \in AttributeOf(type)}
         \cup UNION {AttributesOfField(Properties[type][name], v[name]) : name \in Fields(type)}
==============================================================================
