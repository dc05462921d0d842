----------------------------- MODULE SourceRegistry -----------------------------
(***************************************************************************)
(* What the registry promises its callers, without objects, mutexes,       *)
(* descriptors or threads: a source is registered once, behind the others; *)
(* a removal takes sources that it wants removed, one at a time, and       *)
(* answers when none of them is left; and samples are begun neither of a   *)
(* source that has been removed nor of one that nobody registers.  The     *)
(* sample of a polling source is begun when its thread wakes from sleep.   *)
(***************************************************************************)
EXTENDS Integers, Sequences

CONSTANTS
  Sources,
  Callers,  \* who asks for removals
  Kinds,    \* what sources can be: the pairs of a name and a type
  Polled    \* the kinds that have a thread of their own

VARIABLES
  kind,       \* what each source is, once it is made
  registered, \* the registered sources, in the order they were added
  removed,    \* those that were
  sampled,    \* the sources of which a sample may be begun
  removals,   \* the calls under way: of whom, and the kinds it wants removed
  selecting   \* the thread for the sources that are not polled has begun

rvars == <<kind, registered, removed, sampled, removals, selecting>>

Unmade == <<>>

RegistryInit ==
  /\ kind = [s \in Sources |-> Unmade]
  /\ registered = <<>> /\ removed = {}
  /\ sampled = {}
  /\ removals = {}
  /\ selecting = FALSE

Registered == {registered[i] : i \in DOMAIN registered}

\* Made, and neither registered yet nor ever.
IsNew(s) == kind[s] # Unmade /\ s \notin Registered \cup removed

Make(s) ==
  /\ kind[s] = Unmade
  /\ \E k \in Kinds : kind' = [kind EXCEPT ![s] = k]
  /\ UNCHANGED <<registered, removed, sampled, removals, selecting>>

\* Sampling begins before the source is registered, if it begins: that a thread could
\* not be created is not noticed.
BeginSampling(s) ==
  /\ IsNew(s)
  /\ sampled' = sampled \cup {s}
  /\ UNCHANGED <<kind, registered, removed, removals, selecting>>

Register(s) ==
  /\ IsNew(s)
  /\ registered' = Append(registered, s)
  /\ UNCHANGED <<kind, removed, sampled, removals, selecting>>

\* What was watched until now is not any longer.
BeginSelecting ==
  /\ ~selecting
  /\ selecting' = TRUE
  /\ sampled' = {s \in sampled : kind[s] \in Polled}
  /\ UNCHANGED <<kind, registered, removed, removals>>

AskRemoval(c) ==
  /\ \A r \in removals : r.by # c
  /\ \E wanted \in SUBSET Kinds : removals' = removals \cup {[by |-> c, wanted |-> wanted]}
  /\ UNCHANGED <<kind, registered, removed, sampled, selecting>>

EndSampling(r, s) ==
  /\ s \in Registered /\ kind[s] \in r.wanted
  /\ sampled' = sampled \ {s}
  /\ UNCHANGED <<kind, registered, removed, removals, selecting>>

\* A source leaves the others in their order, and is not sampled any longer.
Remove(r, i) ==
  /\ kind[registered[i]] \in r.wanted /\ registered[i] \notin sampled
  /\ registered' = [k \in 1..(Len(registered) - 1) |->
                      IF k < i THEN registered[k] ELSE registered[k + 1]]
  /\ removed' = removed \cup {registered[i]}
  /\ UNCHANGED <<kind, sampled, removals, selecting>>

Answer(r) ==
  /\ \A s \in Registered : kind[s] \notin r.wanted
  /\ removals' = removals \ {r}
  /\ UNCHANGED <<kind, registered, removed, sampled, selecting>>

RegistryNext ==
  \/ \E s \in Sources : Make(s) \/ BeginSampling(s) \/ Register(s)
  \/ BeginSelecting
  \/ \E c \in Callers : AskRemoval(c)
  \/ \E r \in removals :
       \/ \E s \in Sources : EndSampling(r, s)
       \/ \E i \in DOMAIN registered : Remove(r, i)
       \/ Answer(r)

RegistrySpec == RegistryInit /\ [][RegistryNext]_rvars
================================================================================
