---------------------------- MODULE Serialization ----------------------------
(***************************************************************************)
(* Flags and segments as JSON (ldmodel/model_marshal.go,                   *)
(* model_unmarshal.go, model_serialization.go).  Objects nest: a flag has  *)
(* rules, a rule has a rollout and clauses, a rollout has variations.      *)
(***************************************************************************)
EXTENDS JSONSchema

\* Objects without objects; objects of such objects; the rules of a flag, and segments; flags.
Leaves == INSTANCE JSONLevel WITH
  ReadNested <- ReadScalar, WriteNested <- WriteScalar
Rollouts == INSTANCE JSONLevel WITH
  ReadNested <- Leaves!ReadValue, WriteNested <- Leaves!WriteValue
Rules == INSTANCE JSONLevel WITH
  ReadNested <- Rollouts!ReadValue, WriteNested <- Rollouts!WriteValue
Flags == INSTANCE JSONLevel WITH
  ReadNested <- Rules!ReadValue, WriteNested <- Rules!WriteValue

ReadValue(type, old, json) == Flags!ReadValue(type, old, json)
WriteValue(type, v) == Flags!WriteValue(type, v)

\* NewJSONDataModelSerialization().UnmarshalFeatureFlag and UnmarshalSegment: an item that is
\* preprocessed, or an empty one and an error.
Unmarshaled(type, read) ==
  [item |-> IF read = <<>> THEN Zero[type] ELSE read[1],
   preprocessed |-> read # <<>>,
   failed |-> read = <<>>]
UnmarshalFromBytes(type, json) == Unmarshaled(type, ReadValue(type, Zero[type], json))

------------------------------------------------------------------------------
(***************************************************************************)
(* One variable of a program, which is marshaled and unmarshaled.          *)
(***************************************************************************)
VARIABLES
  itemType,      \* the type of the variable
  item,          \* its value
  preprocessed,  \* whether PreprocessFlag or PreprocessSegment has been called for it
  document,      \* the document at hand
  failed         \* whether the last call returned an error

MarshalJSON ==
  /\ document' = WriteValue(itemType, item)
  /\ failed' = FALSE
  /\ UNCHANGED <<itemType, item, preprocessed>>

\* Mutant: the result is assigned even if there was an error.
UnmarshalJSONAnyway ==
  \E r \in {UnmarshalFromBytes(itemType, document)} :
    /\ item' = r.item
    /\ preprocessed' = r.preprocessed
    /\ failed' = r.failed
    /\ UNCHANGED <<itemType, document>>

\* UnmarshalJSON leaves the variable alone if there is an error.
UnmarshalJSON ==
  \E r \in {UnmarshalFromBytes(itemType, document)} :
    /\ item' = IF r.failed THEN item ELSE r.item
    /\ preprocessed' = (preprocessed \/ ~r.failed)
    /\ failed' = r.failed
    /\ UNCHANGED <<itemType, document>>
==============================================================================
