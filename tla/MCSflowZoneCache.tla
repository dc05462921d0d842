---------------------------- MODULE MCSflowZoneCache ----------------------------
(***************************************************************************)
(* SflowZoneCache for TLC: two threads, and two zones besides the global   *)
(* one, the first's name a prefix of the second's.                         *)
(***************************************************************************)
EXTENDS SflowZoneCache

CONSTANTS t1, t2, g, web, web1

TwoThreads == {t1, t2}
ThreeZones == {g, web, web1}
OneEach == [t \in TwoThreads |-> IF t = t1 THEN web ELSE web1]
NamePrefixes == {<<z, z>> : z \in ThreeZones} \cup {<<web, web1>>}
================================================================================
