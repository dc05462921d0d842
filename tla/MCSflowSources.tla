----------------------------- MODULE MCSflowSources -----------------------------
(***************************************************************************)
(* SflowSources for TLC: one name, and all requests about it.              *)
(***************************************************************************)
EXTENDS SflowSources

CONSTANTS n1, all

OneName == {n1}
OnePrefix == {<<n1, n1>>}
AnyRequest == [name : {n1, all}, type : {"flow", "poll", all}]
RemoveAll == {[name |-> all, type |-> all]}
================================================================================
