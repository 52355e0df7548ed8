------------------------------ MODULE MCSlices ------------------------------
(***************************************************************************)
(* What works with Go slices: the chains of keys of an evaluation, the     *)
(* buffer for the input of a hash, and the builders.  They share nothing   *)
(* but the way slices behave, so each behaviour is about one of them.      *)
(***************************************************************************)
EXTENDS VisitChains, HexProperties, Builders

NoTable == [s \in {} |-> <<>>]
MCContextKeys == {"a", "b"}
MCKeyLists == {<<"a", "b">>}
MCClause(op, values) ==
  [op |-> op, attribute |-> "key", values |-> values, negate |-> FALSE, contextKind |-> "",
   preprocessed |-> NotPreprocessed]
MCClauseLists ==
  {<<MCClause("in", <<StringValue("a"), StringValue("b")>>)>>,
   <<MCClause("in", <<StringValue("a")>>), MCClause("before", <<StringValue("b")>>)>>}
MCValues == {StringValue(key) : key \in MCContextKeys}
\* '/', '0', '9', 'A', 'F', 'a', 'f' and 'g', on both sides of the boundaries of hex digits.
MCBytes == {47, 48, 57, 65, 70, 97, 102, 103}
MCInts == {-10, 0, 7, 42}

VARIABLE subject
vars == <<subject, chainVars, bufferVars, builderVars>>

Init ==
  /\ subject \in {"chains", "buffer", "builders"}
  /\ ChainInit /\ BufferInit /\ BuilderInit
  /\ subject # "chains" => frames[1].key = "f"
  /\ subject # "builders" => kind = "flag"

ChainStep ==
  /\ subject = "chains"
  /\ ChainNext \/ (frames = <<>> /\ UNCHANGED chainVars)
  /\ UNCHANGED <<subject, bufferVars, builderVars>>
BufferStep ==
  /\ subject = "buffer"
  /\ BufferNext
  /\ UNCHANGED <<subject, chainVars, builderVars>>
BuilderStep ==
  /\ subject = "builders"
  /\ BuilderNext
  /\ UNCHANGED <<subject, chainVars, bufferVars>>

Next == ChainStep \/ BufferStep \/ BuilderStep
Spec == Init /\ [][Next]_vars

==============================================================================
