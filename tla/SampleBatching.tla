----------------------------- MODULE SampleBatching -----------------------------
(***************************************************************************)
(* What the sender promises, without threads, locks, alarms or lists:      *)
(* samples are accepted one at a time into a pending batch, a batch leaves *)
(* as one datagram that holds all of it and nothing else, datagrams are    *)
(* numbered without gaps, and a sample joins a non-empty batch only if the *)
(* datagram still fits the MTU.                                            *)
(***************************************************************************)
EXTENDS Integers, Sequences

CONSTANTS
  BatchSamples,   \* the samples, each with a field len
  MTU, HEADER,    \* the datagram's limit, and what it needs besides samples
  SP_HEADER       \* what a sample needs besides its len bytes

VARIABLES pending, bytes, out
bvars == <<pending, bytes, out>>

BatchInit == pending = <<>> /\ bytes = 0 /\ out = <<>>

Accept(s) ==
  /\ pending = <<>> \/ HEADER + bytes + SP_HEADER + s.len <= MTU
  /\ pending' = Append(pending, s)
  /\ bytes' = bytes + SP_HEADER + s.len
  /\ UNCHANGED out

\* An empty batch may leave too: an alarm can fire with nothing pending.
Flush ==
  /\ out' = Append(out, [seq |-> Len(out), samples |-> pending,
                         size |-> HEADER + bytes])
  /\ pending' = <<>>
  /\ bytes' = 0

BatchNext == Flush \/ \E s \in BatchSamples : Accept(s)

BatchSpec == BatchInit /\ [][BatchNext]_bvars
================================================================================
