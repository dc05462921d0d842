------------------------- MODULE ExpandingArray_proofs -------------------------
(***************************************************************************)
(* For every initial capacity, every set of indices and every set of       *)
(* pointers: the memory operations stay inside the allocation, a cell a    *)
(* caller can read was stored or cleared, and the array implements a map.  *)
(***************************************************************************)
EXTENDS ExpandingArray, TLAPS

\* Cells below the old capacity hold values throughout; the rest of the
\* allocation does once it has been cleared.
IInv ==
  /\ TypeOK
  /\ oldCap <= capacity
  /\ \A k \in 0..(oldCap - 1) : cells[k] \in Values
  /\ pc \in {"idle", "store"} => \A k \in 0..(capacity - 1) : cells[k] \in Values
  /\ pc = "double" => index >= capacity
  /\ pc \in {"realloc", "clear", "store"} => index < capacity
  /\ pc # "idle" => index \in Indices
  /\ pc = "store" => \A k \in oldCap..(capacity - 1) : cells[k] = NULL

LEMMA InitIInv == Init => IInv
<1> SUFFICES ASSUME Init PROVE IInv
  OBVIOUS
<1>1. NULL \in Values
  BY DEF Values
<1>2. TypeOK
  BY <1>1, InitSizeAssumption DEF Init, TypeOK
<1>3. QED
  BY <1>1, <1>2, InitSizeAssumption DEF Init, IInv

LEMMA NextIInv == IInv /\ [Next]_vars => IInv'
<1> SUFFICES ASSUME IInv, [Next]_vars PROVE IInv'
  OBVIOUS
<1> USE PointersAssumption, IndicesAssumption DEF IInv, TypeOK
<1>1. ASSUME NEW i \in Indices, NEW p \in Values, Set(i, p) PROVE IInv'
  <2>1. i \in Nat
    OBVIOUS
  <2>2. QED
    BY <1>1, <2>1 DEF Set
<1>2. ASSUME Double PROVE IInv'
  <2>1. capacity' = capacity * 2 /\ capacity' \in Nat \ {0} /\ capacity <= capacity'
    BY <1>2 DEF Double
  <2>2. QED
    BY <1>2, <2>1 DEF Double
<1>3. ASSUME Realloc PROVE IInv'
  BY <1>3 DEF Realloc
<1>4. ASSUME ClearNew PROVE IInv'
  <2>1. DOMAIN cells = 0..(capacity - 1) /\ NULL \in Values
    BY <1>4 DEF ClearNew, Values
  <2>2. cells' = [k \in 0..(capacity - 1) |->
                    IF k \in oldCap..(capacity - 1) THEN NULL ELSE cells[k]]
    BY <1>4, <2>1 DEF ClearNew
  <2>3. \A k \in 0..(capacity - 1) : cells'[k] \in Values
    BY <2>1, <2>2
  <2>4. \A k \in oldCap..(capacity - 1) : cells'[k] = NULL
    BY <2>2
  <2>5. QED
    BY <1>4, <2>2, <2>3, <2>4 DEF ClearNew
<1>5. ASSUME Store PROVE IInv'
  <2>1. cells' = [cells EXCEPT ![index] = pdata] /\ index \in 0..(capacity - 1)
    BY <1>5 DEF Store
  <2>2. \A k \in 0..(capacity - 1) : cells'[k] \in Values
    BY <1>5, <2>1 DEF Store
  <2>3. QED
    BY <1>5, <2>1, <2>2 DEF Store
<1>6. ASSUME UNCHANGED vars PROVE IInv'
  BY <1>6 DEF vars
<1>7. QED
  BY <1>1, <1>2, <1>3, <1>4, <1>5, <1>6 DEF Next

THEOREM Invariance == Spec => []IInv
BY InitIInv, NextIInv, PTL DEF Spec

\* The variables keep their types; in particular the allocation always has the
\* size the step assumes.
THEOREM TypeCorrect == Spec => []TypeOK
<1>1. IInv => TypeOK
  BY DEF IInv
<1>2. QED
  BY <1>1, Invariance, PTL

\* Every cell below the capacity was stored or cleared.
THEOREM GetIsDefined == Spec => []GetDefined
<1>1. IInv => GetDefined
  BY DEF IInv, TypeOK, GetDefined
<1>2. QED
  BY <1>1, Invariance, PTL

LEMMA StoreMaps ==
  ASSUME IInv, Store
  PROVE  Map!Put(index, pdata)
<1> USE IndicesAssumption DEF IInv, TypeOK, Store
<1>1. Contents' = [i \in Indices |-> IF i < capacity THEN cells'[i] ELSE NULL]
  BY DEF Contents
<1>2. Contents = [i \in Indices |-> IF i < oldCap THEN cells[i] ELSE NULL]
  BY DEF Contents
<1>3. index \in Indices /\ index < capacity
  OBVIOUS
<1>4. ASSUME NEW i \in Indices
      PROVE  Contents'[i] = IF i = index THEN pdata ELSE Contents[i]
  <2>1. i \in Nat
    OBVIOUS
  <2>2. CASE i = index
    BY <1>1, <1>3, <2>2
  <2>3. CASE i # index /\ i < oldCap
    BY <1>1, <1>2, <2>1, <2>3
  <2>4. CASE i # index /\ i >= oldCap
    BY <1>1, <1>2, <2>1, <2>4
  <2>5. QED
    BY <2>1, <2>2, <2>3, <2>4
<1>5. Contents' = [Contents EXCEPT ![index] = pdata]
  BY <1>1, <1>2, <1>3, <1>4
<1>6. QED
  BY <1>5 DEF Map!Put

\* The array implements a map: a call changes the entry it names and no other,
\* and its other steps change nothing a caller can see.
THEOREM Refinement == Spec => MapRefined
<1>1. Init => Map!MapInit
  BY InitSizeAssumption, IndicesAssumption DEF Init, Map!MapInit, Contents
<1>2. IInv /\ [Next]_vars => [Map!MapNext]_Contents
  <2> SUFFICES ASSUME IInv, [Next]_vars PROVE [Map!MapNext]_Contents
    OBVIOUS
  <2> USE IndicesAssumption DEF IInv, TypeOK
  <2>1. ASSUME NEW i \in Indices, NEW p \in Values, Set(i, p) PROVE UNCHANGED Contents
    BY <2>1 DEF Set, Contents
  <2>2. CASE Double
    BY <2>2 DEF Double, Contents
  <2>3. CASE Realloc
    BY <2>3 DEF Realloc, Contents
  <2>4. CASE ClearNew
    BY <2>4 DEF ClearNew, Contents
  <2>5. ASSUME Store PROVE Map!MapNext
    <3>1. index \in Indices /\ pdata \in Values
      BY <2>5 DEF Store
    <3>2. QED
      BY <2>5, <3>1, StoreMaps DEF Map!MapNext
  <2>6. CASE UNCHANGED vars
    BY <2>6 DEF vars, Contents
  <2>7. QED
    BY <2>1, <2>2, <2>3, <2>4, <2>5, <2>6 DEF Next
<1>3. QED
  BY <1>1, <1>2, Invariance, PTL DEF Spec, Map!MapSpec, MapRefined
================================================================================
