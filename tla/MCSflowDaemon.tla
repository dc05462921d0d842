----------------------------- MODULE MCSflowDaemon ------------------------------
(***************************************************************************)
(* SflowDaemon for TLC: one name, and removals of everything.              *)
(***************************************************************************)
EXTENDS SflowDaemon

CONSTANTS n1, all

OneName == {n1}
OnePrefix == {<<n1, n1>>}
RemoveAll == {[name |-> all, type |-> all]}
================================================================================
