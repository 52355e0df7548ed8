------------------------- MODULE JSONLevelProperties --------------------------
(***************************************************************************)
(* What may be said of the JSON and the values of one level, when it is    *)
(* known what may be said of those of the level below.                     *)
(***************************************************************************)
EXTENDS JSONLevel

CONSTANTS
  IsTaggedScalar(_, _), IsScalar(_, _),  \* of JSON and values of the scalar types
  IsConsistent(_, _),     \* how the fields of an object fit together
  IsTaggedNested(_, _),   \* of JSON of the level below
  IsNested(_, _)          \* of values of the level below

\* Values have what their tags say; a number is any number, and a string is any string.
IsTaggedField(p, json) ==
  IF p.list
  THEN json[1] = "array" =>
         IsList(json[2]) /\ \A i \in DOMAIN json[2] : IsTaggedNested(p.type, json[2][i])
  ELSE IsTaggedNested(p.type, json)
IsTaggedObject(type, properties) ==
  /\ IsList(properties)
  /\ \A i \in DOMAIN properties : properties[i][1] \in Names(type) =>
       IsTaggedField(Properties[type][properties[i][1]], properties[i][2])
IsTaggedValue(type, json) ==
  IF type \notin ObjectTypes THEN IsTaggedScalar(type, json)
  ELSE json[1] = "object" => IsTaggedObject(type, json[2])

\* The values of the types: scalars, and objects whose fields have values of their types.
IsField(p, v) ==
  IF p.list THEN IsList(v) /\ \A i \in DOMAIN v : IsNested(p.type, v[i]) ELSE IsNested(p.type, v)
IsObject(type, r) ==
  /\ r = [name \in DOMAIN NewValue(type) |-> r[name]]
  /\ \A name \in Fields(type) : IsField(Properties[type][name], r[name])
  /\ IsConsistent(type, r)
IsValue(type, v) == IF type \in ObjectTypes THEN IsObject(type, v) ELSE IsScalar(type, v)
==============================================================================
