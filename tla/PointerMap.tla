------------------------------- MODULE PointerMap -------------------------------
(***************************************************************************)
(* A total map in which one entry at a time is replaced: what the          *)
(* expanding array promises to the registry of interrupt sources.          *)
(***************************************************************************)
CONSTANTS Keys, Values, NULL
VARIABLE map

MapInit == map = [k \in Keys |-> NULL]
Put(k, v) == map' = [map EXCEPT ![k] = v]
MapNext == \E k \in Keys, v \in Values : Put(k, v)
MapSpec == MapInit /\ [][MapNext]_map
================================================================================
