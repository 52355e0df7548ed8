----------------------------- MODULE JSONObjects -----------------------------
(***************************************************************************)
(* The types of a level, and objects as sequences of properties.           *)
(***************************************************************************)
EXTENDS Integers, Sequences

\* The schema's types and properties, and which of them are attributes: see JSONSchema.
CONSTANTS ObjectTypes, Properties, Names(_), Fields(_), AttributeOf(_), KindOf(_, _)

IsList(v) == v \in Seq({v[i] : i \in DOMAIN v})
NamesIn(object) == {object[i][1] : i \in DOMAIN object}
NoneRepeated(object) == \A i, j \in DOMAIN object : object[i][1] = object[j][1] => i = j
==============================================================================
