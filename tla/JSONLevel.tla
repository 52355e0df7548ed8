------------------------------ MODULE JSONLevel -------------------------------
(***************************************************************************)
(* One level of nesting: the objects whose properties hold values, or      *)
(* lists of values, that a reader and a writer of the level below handle   *)
(* (ldmodel/model_unmarshal.go, model_marshal.go).  A reader yields the    *)
(* value in a sequence, or <<>> after an error, which ends all the readers *)
(* around it.                                                              *)
(***************************************************************************)
EXTENDS JSONObjects

\* The schema, and what its types mean: see JSONSchema.
CONSTANTS
  Schema, NewValue(_), SetAttrNameOrRef(_, _),
  ReadScalar(_, _, _), ReadNullObject(_, _), BeginObject(_, _), EndObject(_, _),
  WriteScalar(_, _), IsSet(_, _), Source(_, _, _)

CONSTANTS
  ReadNested(_, _, _),  \* reads a value of a type, over an old value, from JSON
  WriteNested(_, _)     \* writes a value of a type

\* The elements are appended; the list has none of them if one cannot be read.
ReadList(type, old, json) ==
  LET read == [i \in DOMAIN json[2] |-> ReadNested(type, NewValue(type), json[2][i])]
  IN  CASE json[1] = "null" /\ type # "WeightedVariation" -> <<old>>
        [] json[1] = "array" /\ (\A i \in DOMAIN read : read[i] # <<>>) ->
             <<old \o [i \in DOMAIN read |-> read[i][1]]>>
        [] OTHER -> <<>>

ReadField(p, old, json) ==
  IF p.list THEN ReadList(p.type, old, json) ELSE ReadNested(p.type, old, json)
Assign(r, name, v) == IF v = <<>> THEN <<>> ELSE <<[r EXCEPT ![name] = v[1]]>>

\* Mutant: an attribute is interpreted with the context kind that has been read so far.
ReadPropertyAtOnce(type, r, name, json) ==
  LET v == ReadField(Properties[type][name], r[name], json)
  IN  IF name \in AttributeOf(type) /\ v # <<>>
      THEN Assign(r, name, <<SetAttrNameOrRef(v[1], KindOf(type, r)).text>>)
      ELSE Assign(r, name, v)

ReadProperty(type, r, name, json) ==
  Assign(r, name, ReadField(Properties[type][name], r[name], json))

\* An unknown property is skipped; a repeated one is read again over what is there.
ReadNextProperty(type, soFar, property) ==
  IF soFar = <<>> \/ property[1] \notin Names(type)
  THEN soFar
  ELSE ReadProperty(type, soFar[1], property[1], property[2])
\* After each of the properties.
ReadProperties(type, old, properties) ==
  LET soFar[n \in 0..Len(properties)] ==
        IF n = 0 THEN <<BeginObject(type, old)>>
        ELSE ReadNextProperty(type, soFar[n - 1], properties[n])
  IN  soFar
Ended(type, read) == IF read = <<>> THEN <<>> ELSE <<EndObject(type, read[1])>>
ReadObject(type, old, properties) ==
  Ended(type, ReadProperties(type, old, properties)[Len(properties)])

ReadValue(type, old, json) ==
  CASE type \notin ObjectTypes -> ReadScalar(type, old, json)
    [] type \in ObjectTypes /\ json[1] = "null"   -> ReadNullObject(type, old)
    [] type \in ObjectTypes /\ json[1] = "object" -> ReadObject(type, old, json[2])
    [] OTHER -> <<>>

------------------------------------------------------------------------------
WriteProperty(p, v) ==
  <<p.name, IF p.list THEN <<"array", [i \in DOMAIN v |-> WriteNested(p.type, v[i])]>>
                      ELSE WriteNested(p.type, v)>>
IsWritten(p, r) == p.always \/ IsSet(p, r[p.name])
\* After each of the properties, in the order of the schema.
WriteProperties(type, r) ==
  LET soFar[n \in 0..Len(Schema[type])] ==
        IF n = 0 THEN <<>>
        ELSE IF IsWritten(Schema[type][n], r)
        THEN Append(soFar[n - 1],
                    WriteProperty(Schema[type][n], Source(type, r, Schema[type][n].name)))
        ELSE soFar[n - 1]
  IN  soFar
WriteObject(type, r) == WriteProperties(type, r)[Len(Schema[type])]
WriteValue(type, v) ==
  IF type \in ObjectTypes THEN <<"object", WriteObject(type, v)>> ELSE WriteScalar(type, v)
==============================================================================
