---------------------------- MODULE JSONOmissions ----------------------------
(***************************************************************************)
(* What a document does without: the properties that its objects leave     *)
(* out, and the lists that are no arrays.  One level, when it is known     *)
(* what that is for the level below.                                       *)
(***************************************************************************)
EXTENDS JSONObjects

CONSTANT OmissionsOfNested(_, _)   \* of JSON of the level below

IsThere(p, properties) ==
  \E i \in DOMAIN properties :
    properties[i][1] = p.name /\ (p.list => properties[i][2][1] = "array")
OmissionsOfField(p, json) ==
  IF ~p.list THEN OmissionsOfNested(p.type, json)
  ELSE IF json[1] # "array" THEN {}
  ELSE UNION {OmissionsOfNested(p.type, json[2][i]) : i \in DOMAIN json[2]}
OmissionsOfObject(type, properties) ==
  {<<type, name>> : name \in {n \in Names(type) : ~IsThere(Properties[type][n], properties)}}
    \cup UNION {OmissionsOfField(Properties[type][properties[i][1]], properties[i][2]) :
                  i \in {j \in DOMAIN properties : properties[j][1] \in Names(type)}}
Omissions(type, json) ==
  IF type \notin ObjectTypes THEN {}
  ELSE OmissionsOfObject(type, IF json[1] = "object" THEN json[2] ELSE <<>>)
==============================================================================
