----------------------------- MODULE ExpandingArray -----------------------------
(***************************************************************************)
(* The growing pointer array of src/sflow/expanding_array.c, which maps    *)
(* file descriptors to interrupt sources.  expanding_array_set is taken    *)
(* apart into its memory operations: the doubling loop, the realloc (whose *)
(* new part holds anything), the memset of the new part and the store.     *)
(* Its caller owns sflow_inter_src_mod_mtx, so calls do not overlap.       *)
(***************************************************************************)
EXTENDS Integers

CONSTANTS
  Pointers,     \* what callers store
  NULL,         \* the null pointer
  Junk,         \* what fresh memory holds
  INIT_SIZE,    \* the array's first capacity
  Indices       \* the indices callers use: file descriptors

ASSUME InitSizeAssumption == INIT_SIZE \in Nat \ {0}
ASSUME IndicesAssumption == Indices \subseteq Nat
ASSUME PointersAssumption == NULL \notin Pointers /\ Junk \notin Pointers \cup {NULL}

Values == Pointers \cup {NULL}

VARIABLES
  pc,        \* where expanding_array_set is
  capacity,  \* ea_capacity
  cells,     \* the allocated memory, a function on 0..(its size - 1)
  oldCap,    \* expanding_array_set's locals
  index, pdata

vars == <<pc, capacity, cells, oldCap, index, pdata>>

Init ==
  /\ pc = "idle"
  /\ capacity = INIT_SIZE
  /\ cells = [k \in 0..(INIT_SIZE - 1) |-> NULL]
  /\ oldCap = INIT_SIZE
  /\ index = 0 /\ pdata = NULL

Set(i, p) ==
  /\ pc = "idle"
  /\ index' = i /\ pdata' = p
  /\ oldCap' = capacity
  /\ pc' = IF i >= capacity THEN "double" ELSE "clear"
  /\ UNCHANGED <<capacity, cells>>

Double ==
  /\ pc = "double"
  /\ capacity' = capacity * 2
  /\ pc' = IF index >= capacity' THEN "double" ELSE "realloc"
  /\ UNCHANGED <<cells, oldCap, index, pdata>>

\* Mutant of Realloc: the old size is asked for.
ReallocOldSize ==
  /\ pc = "realloc"
  /\ pc' = "clear"
  /\ UNCHANGED <<capacity, cells, oldCap, index, pdata>>

Realloc ==
  /\ pc = "realloc"
  /\ cells' = [k \in 0..(capacity - 1) |-> IF k < oldCap THEN cells[k] ELSE Junk]
  /\ pc' = "clear"
  /\ UNCHANGED <<capacity, oldCap, index, pdata>>

\* Mutants of ClearNew: one cell short; the whole array when it has grown.
ClearNewShort ==
  /\ pc = "clear"
  /\ cells' = [k \in DOMAIN cells |->
                 IF k \in (oldCap + 1)..(capacity - 1) THEN NULL ELSE cells[k]]
  /\ pc' = "store"
  /\ UNCHANGED <<capacity, oldCap, index, pdata>>
ClearAll ==
  /\ pc = "clear"
  /\ cells' = [k \in DOMAIN cells |-> IF capacity > oldCap THEN NULL ELSE cells[k]]
  /\ pc' = "store"
  /\ UNCHANGED <<capacity, oldCap, index, pdata>>

\* The memset of everything from the old capacity to the new one.
ClearNew ==
  /\ pc = "clear"
  /\ cells' = [k \in DOMAIN cells |-> IF k \in oldCap..(capacity - 1) THEN NULL ELSE cells[k]]
  /\ pc' = "store"
  /\ UNCHANGED <<capacity, oldCap, index, pdata>>

Store ==
  /\ pc = "store"
  /\ cells' = [cells EXCEPT ![index] = pdata]
  /\ pc' = "idle"
  /\ UNCHANGED <<capacity, oldCap, index, pdata>>

Next ==
  \/ \E i \in Indices, p \in Values : Set(i, p)
  \/ Double \/ Realloc \/ ClearNew \/ Store

Spec == Init /\ [][Next]_vars

TypeOK ==
  /\ pc \in {"idle", "double", "realloc", "clear", "store"}
  /\ capacity \in Nat \ {0} /\ oldCap \in Nat \ {0}
  /\ cells \in [0..((IF pc \in {"double", "realloc"} THEN oldCap ELSE capacity) - 1)
                   -> Values \cup {Junk}]
  /\ index \in Nat /\ pdata \in Values

\* expanding_array_get may be called for any index below the capacity
\* (expanding_array.c:68) and then returns a stored pointer or NULL, never what a
\* realloc left there: sflow_stop_source reads every cell (sflow_source.c:470-473).
GetDefined ==
  pc = "idle" =>
    \A k \in 0..(capacity - 1) : k \in DOMAIN cells /\ cells[k] \in Values

\* The map a caller sees: NULL outside the array, and during a call what was there
\* before it.
Contents ==
  LET known == IF pc = "idle" THEN capacity ELSE oldCap
  IN  [i \in Indices |-> IF i < known THEN cells[i] ELSE NULL]

Map == INSTANCE PointerMap WITH Keys <- Indices, map <- Contents

\* Growing never loses, moves or invents an entry: the array is a map from all
\* indices in which each call changes one entry.
MapRefined == Map!MapSpec
================================================================================
