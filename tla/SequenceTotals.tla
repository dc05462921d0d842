---------------------------- MODULE SequenceTotals ----------------------------
(***************************************************************************)
(* Running totals of a sequence of numbers, as the loops keep them that    *)
(* add up lengths: sflow_datagram_flat, the packers and the counted list.  *)
(* A recursive function, so that TLAPS can reason about it.                *)
(***************************************************************************)
EXTENDS Integers, Sequences

\* The total after each number of rounds.
Totals(w) ==
  LET total[k \in 0..Len(w)] == IF k = 0 THEN 0 ELSE total[k - 1] + w[k]
  IN  total

Total(w) == Totals(w)[Len(w)]
===============================================================================
