------------------------------ MODULE SflowSender ------------------------------
(***************************************************************************)
(* The event-driven sender of sflowd (src/sflow/sflow_sender.c) together   *)
(* with its two kinds of callers: the sampling threads, which append a     *)
(* sample to the shared buffer (sflow_append_sample_to_send), and the      *)
(* signal thread, which turns SIGALRM into a datagram (sighandler in       *)
(* sflow_driver.c).                                                        *)
(*                                                                         *)
(* Shared state: the buffered list and its mutex, the "alarm indicator"    *)
(* (a mutex used as a flag: locked by whoever starts the alarm, unlocked   *)
(* by whoever sends), the process's one alarm timer and its one pending    *)
(* SIGALRM.  A step of the model is one call of the code that touches      *)
(* shared state.                                                           *)
(***************************************************************************)
EXTENDS Integers, Sequences, SequenceTotals, SflowDataList

CONSTANTS
  Appenders,   \* sampling threads: the master thread and the poll threads
  Handler,     \* the signal thread
  NoThread,    \* the owner of an unlocked mutex
  Lens,        \* values of a sample's packed length (sflow_sp_t.len)
  PSIZE,       \* SFLOW_PSIZE, sizeof (void *)
  MTU,         \* SFLOW_MTU
  MaxSamples   \* bound: samples each thread produces

Threads == Appenders \cup {Handler}

ASSUME ThreadsAssumption == Handler \notin Appenders /\ NoThread \notin Threads
ASSUME LensAssumption == Lens \subseteq Nat
ASSUME PsizeAssumption == PSIZE \in Nat /\ PSIZE >= 4
ASSUME MtuAssumption == MTU \in Nat
ASSUME MaxSamplesAssumption == MaxSamples \in Nat

\* sizeof (sflow_dg_t) - SFLOW_PSIZE, the header the overflow test reserves room
\* for; the flattened header is 12 bytes shorter with an IPv4 agent address.
DG_HEADER == 40
DG_HEADER_V4 == DG_HEADER - 12
\* A flattened sample is its format and length words, and len bytes.
SP_HEADER == 8

VARIABLES
  pc,            \* what each thread does next
  sample,        \* the sample each appender carries, and its last one when idle
  mtx,           \* sflow_buffered_samples_mtx: its owner
  indicator,     \* sflow_alarm_indicator: locked or not, whoever locked it
  timer,         \* an alarm(MAX_BUF_TIME) is running
  sigalrm,       \* SIGALRM is pending for the process
  buffered,      \* *sflow_buffered_samples
  listFreed,     \* sflow_buffered_samples points to a freed list
  dg,            \* the datagram each thread has packed and not sent
  datagramCount, \* datagram_count
  sent,          \* datagrams given to sendto, in order
  flatBytes      \* ghost: bytes the buffered samples flatten to

alarmVars == <<indicator, timer, sigalrm>>
listVars  == <<buffered, listFreed, flatBytes>>
wireVars  == <<dg, datagramCount, sent>>
vars == <<pc, sample, mtx, alarmVars, listVars, wireVars>>

Samples == [by : Appenders, id : 0..MaxSamples, len : Lens \cup {0}]

NodeSize(s) == s.len + 2 * PSIZE
EmptyDatagram == [seq |-> 0, samples |-> <<>>, size |-> DG_HEADER_V4]

Init ==
  /\ pc = [t \in Threads |-> "idle"]
  /\ sample = [a \in Appenders |-> [by |-> a, id |-> 0, len |-> 0]]
  /\ mtx = NoThread
  /\ indicator = FALSE /\ timer = FALSE /\ sigalrm = FALSE
  /\ buffered = ListCreate /\ listFreed = FALSE /\ flatBytes = 0
  /\ dg = [t \in Threads |-> EmptyDatagram]
  /\ datagramCount = 0 /\ sent = <<>>

Goto(t, from, to) == pc[t] = from /\ pc' = [pc EXCEPT ![t] = to]

(***************************************************************************)
(* sflow_append_sample_to_send, run by an appender.                        *)
(***************************************************************************)

\* A thread has packed a sample and calls the sender, which first tries to take
\* the indicator: "if alarm is not started, start it".
TryIndicator(a) ==
  /\ sample[a].id < MaxSamples
  /\ \E len \in Lens :
       sample' = [sample EXCEPT ![a] = [by |-> a, id |-> @.id + 1, len |-> len]]
  /\ Goto(a, "idle", IF indicator THEN "lock" ELSE "alarm")
  /\ indicator' = TRUE
  /\ UNCHANGED <<mtx, timer, sigalrm, listVars, wireVars>>

StartAlarm(a) ==
  /\ Goto(a, "alarm", "lock")
  /\ timer' = TRUE
  /\ UNCHANGED <<sample, mtx, indicator, sigalrm, listVars, wireVars>>

\* Mutant of Lock: the signal thread sends without the mutex.
LockUnlessHandler(t) ==
  /\ Goto(t, "lock", IF t = Handler THEN "unlock_indicator" ELSE "check")
  /\ t = Handler \/ mtx = NoThread
  /\ mtx' = IF t = Handler THEN mtx ELSE t
  /\ UNCHANGED <<sample, alarmVars, listVars, wireVars>>

\* pthread_mutex_lock, by an appender or by the signal thread.
Lock(t) ==
  /\ Goto(t, "lock", IF t = Handler THEN "unlock_indicator" ELSE "check")
  /\ mtx = NoThread
  /\ mtx' = t
  /\ UNCHANGED <<sample, alarmVars, listVars, wireVars>>

\* Mutant of Overflows: no room reserved for the datagram's header.
OverflowsWithoutHeader(s) == buffered.size + NodeSize(s) > MTU

Overflows(s) == buffered.size + NodeSize(s) + DG_HEADER > MTU

\* Mutant of CheckOverflow: the alarm is cancelled before the test, not after it.
CheckOverflowCancelFirst(a) ==
  /\ Goto(a, "check", IF Overflows(sample[a]) THEN "cancel" ELSE "append")
  /\ timer' = FALSE
  /\ UNCHANGED <<sample, mtx, indicator, sigalrm, listVars, wireVars>>

CheckOverflow(a) ==
  /\ Goto(a, "check", IF Overflows(sample[a]) THEN "cancel" ELSE "append")
  /\ UNCHANGED <<sample, mtx, alarmVars, listVars, wireVars>>

\* alarm(0) stops the timer; a SIGALRM that is already pending stays pending.
CancelAlarm(a) ==
  /\ Goto(a, "cancel", "unlock_indicator")
  /\ timer' = FALSE
  /\ UNCHANGED <<sample, mtx, indicator, sigalrm, listVars, wireVars>>

\* Mutant of RetryIndicator: the function returns after sending.
RetryIndicatorReturns(a) ==
  /\ Goto(a, "retry", "unlock")
  /\ UNCHANGED <<sample, mtx, alarmVars, listVars, wireVars>>

\* After the buffer is sent: the new sample gets an alarm of its own.
RetryIndicator(a) ==
  /\ Goto(a, "retry", IF indicator THEN "append" ELSE "realarm")
  /\ indicator' = TRUE
  /\ UNCHANGED <<sample, mtx, timer, sigalrm, listVars, wireVars>>

RestartAlarm(a) ==
  /\ Goto(a, "realarm", "append")
  /\ timer' = TRUE
  /\ UNCHANGED <<sample, mtx, indicator, sigalrm, listVars, wireVars>>

\* Mutant of AppendSample: a return that skips the unlock.
AppendSampleReturns(a) ==
  /\ Goto(a, "append", "idle")
  /\ buffered' = ListAppend(buffered, NodeCreate(sample[a], NodeSize(sample[a])))
  /\ flatBytes' = flatBytes + SP_HEADER + sample[a].len
  /\ UNCHANGED <<sample, mtx, alarmVars, listFreed, wireVars>>

AppendSample(a) ==
  /\ Goto(a, "append", "unlock")
  /\ buffered' = ListAppend(buffered, NodeCreate(sample[a], NodeSize(sample[a])))
  /\ flatBytes' = flatBytes + SP_HEADER + sample[a].len
  /\ UNCHANGED <<sample, mtx, alarmVars, listFreed, wireVars>>

Unlock(t) ==
  /\ Goto(t, "unlock", "idle")
  /\ mtx' = NoThread
  /\ UNCHANGED <<sample, alarmVars, listVars, wireVars>>

(***************************************************************************)
(* send_samples, "require locks before call".                              *)
(***************************************************************************)

\* Mutant of UnlockIndicator: the sender forgets the indicator.
KeepIndicator(t) ==
  /\ Goto(t, "unlock_indicator", "pack")
  /\ UNCHANGED <<sample, mtx, alarmVars, listVars, wireVars>>

\* pthread_mutex_unlock of a normal mutex from a thread that may not own it:
\* the libc the daemon is built with clears the lock whoever calls.
UnlockIndicator(t) ==
  /\ Goto(t, "unlock_indicator", "pack")
  /\ indicator' = FALSE
  /\ UNCHANGED <<sample, mtx, timer, sigalrm, listVars, wireVars>>

\* Mutant of PackDatagram: datagram_count is read and not incremented.
PackDatagramUncounted(t) ==
  /\ Goto(t, "pack", "sendto")
  /\ dg' = [dg EXCEPT ![t] = [seq |-> datagramCount, samples |-> ListDrain(buffered),
                              size |-> DG_HEADER_V4 + flatBytes]]
  /\ buffered' = ListCreate /\ flatBytes' = 0 /\ listFreed' = TRUE
  /\ UNCHANGED <<sample, mtx, alarmVars, sent, datagramCount>>

\* sflow_datagram_pack numbers the datagram, moves the samples into it and frees
\* the list; sflow_datagram_flat's size is that of the samples it holds.
PackDatagram(t) ==
  /\ Goto(t, "pack", "sendto")
  /\ dg' = [dg EXCEPT ![t] = [seq     |-> datagramCount,
                              samples |-> ListDrain(buffered),
                              size    |-> DG_HEADER_V4 + flatBytes]]
  /\ datagramCount' = datagramCount + 1
  /\ buffered' = ListCreate
  /\ flatBytes' = 0
  /\ listFreed' = TRUE
  /\ UNCHANGED <<sample, mtx, alarmVars, sent>>

\* The result of sendto is only logged, and the datagram is freed.
SendTo(t) ==
  /\ Goto(t, "sendto", "create")
  /\ sent' = Append(sent, dg[t])
  /\ dg' = [dg EXCEPT ![t] = EmptyDatagram]
  /\ UNCHANGED <<sample, mtx, alarmVars, listVars, datagramCount>>

CreateList(t) ==
  /\ Goto(t, "create", IF t = Handler THEN "unlock" ELSE "retry")
  /\ buffered' = ListCreate
  /\ flatBytes' = 0
  /\ listFreed' = FALSE
  /\ UNCHANGED <<sample, mtx, alarmVars, wireVars>>

(***************************************************************************)
(* sighandler, and the timer.                                              *)
(***************************************************************************)

\* sigwait consumes the pending SIGALRM.
SigWait ==
  /\ Goto(Handler, "idle", "lock")
  /\ sigalrm
  /\ sigalrm' = FALSE
  /\ UNCHANGED <<sample, mtx, indicator, timer, listVars, wireVars>>

\* MAX_BUF_TIME has passed.  Signals of one number do not queue.
Expire ==
  /\ timer
  /\ timer' = FALSE
  /\ sigalrm' = TRUE
  /\ UNCHANGED <<pc, sample, mtx, indicator, listVars, wireVars>>

SendStep(t) == UnlockIndicator(t) \/ PackDatagram(t) \/ SendTo(t) \/ CreateList(t)

\* What an appender does once it holds a sample.
AppendStep(a) ==
  \/ StartAlarm(a) \/ Lock(a) \/ CheckOverflow(a) \/ CancelAlarm(a)
  \/ SendStep(a) \/ RetryIndicator(a) \/ RestartAlarm(a)
  \/ AppendSample(a) \/ Unlock(a)

HandlerStep == SigWait \/ Lock(Handler) \/ SendStep(Handler) \/ Unlock(Handler)

Next ==
  \/ \E a \in Appenders : TryIndicator(a) \/ AppendStep(a)
  \/ HandlerStep
  \/ Expire

Spec == Init /\ [][Next]_vars

\* Threads that are runnable run, and a running timer expires.  Nothing makes a
\* source produce a sample.
Fairness ==
  /\ \A a \in Appenders : WF_vars(AppendStep(a))
  /\ WF_vars(HandlerStep)
  /\ WF_vars(Expire)

FairSpec == Spec /\ Fairness

(***************************************************************************)
(* Properties.                                                             *)
(***************************************************************************)

Pcs == {"idle", "alarm", "lock", "check", "cancel", "unlock_indicator", "pack",
        "sendto", "create", "retry", "realarm", "append", "unlock"}
Datagrams == [seq : Nat, samples : Seq(Samples), size : Int]
Nodes == [data : Samples, size : Int]

\* The variables hold what the code can store in them.
TypeOK ==
  /\ pc \in [Threads -> Pcs]
  /\ sample \in [Appenders -> Samples]
  /\ mtx \in Threads \cup {NoThread}
  /\ indicator \in BOOLEAN /\ timer \in BOOLEAN /\ sigalrm \in BOOLEAN
  /\ buffered \in [nodes : Seq(Nodes), count : Nat, size : Int]
  /\ listFreed \in BOOLEAN
  /\ dg \in [Threads -> Datagrams]
  /\ datagramCount \in Nat
  /\ sent \in Seq(Datagrams)
  /\ flatBytes \in Nat

ListSteps == {"check", "pack", "append"}

\* "Require locks before call" (sflow_sender.c:81): a thread that is about to read
\* or write the buffered list owns its mutex, and the list is not one that
\* another sender has freed and not yet replaced (sflow_sender.c:92-98).
ListAccessSafe ==
  \A t \in Threads :
    pc[t] \in ListSteps => mtx = t /\ ~listFreed

\* A datagram exceeds SFLOW_MTU only when it is one sample that no datagram could
\* hold: the sizes the overflow test adds up (sflow_sender.c:115-121) bound what
\* sflow_datagram_flat will write, on either pointer size.
DatagramFits ==
  \A i \in DOMAIN sent :
    Len(sent[i].samples) >= 2 => sent[i].size <= MTU

\* The indicator never stays locked with nobody about to unlock it: a running
\* alarm, a pending SIGALRM, or a thread on its way to start the alarm or to
\* send stands behind it.  Otherwise no later sample could start an alarm again
\* (sflow_sender.c:109-110, 126-130).
IndicatorBacked ==
  indicator =>
    \/ timer
    \/ sigalrm
    \/ \E a \in Appenders : pc[a] \in {"alarm", "realarm", "unlock_indicator"}
    \/ pc[Handler] \in {"lock", "unlock_indicator"}

\* Datagrams reach sendto in the order of their sequence numbers, without gaps,
\* so that a gap a collector sees is a datagram the network lost
\* (sflow_protocol_branches.c:442, sflow_sender.c:94).
SequenceIsWireOrder ==
  \A i \in DOMAIN sent : sent[i].seq = i - 1

\* The batch between the two ends of send_samples has left the list and has not
\* reached sendto: it is still pending.
InFlight == mtx # NoThread /\ pc[mtx] = "sendto"
PendingSamples == IF InFlight THEN dg[mtx].samples ELSE ListDrain(buffered)
PendingBytes == IF InFlight THEN dg[mtx].size - DG_HEADER_V4 ELSE flatBytes

Batching == INSTANCE SampleBatching
              WITH BatchSamples <- Samples, HEADER <- DG_HEADER_V4,
                   pending <- PendingSamples, bytes <- PendingBytes, out <- sent

\* The threads together behave like one batcher: no sample is lost, sent twice,
\* moved to a later batch or sent ahead of one appended before it, whatever the
\* interleaving of appenders, alarm and signal thread.
BatchingRefined == Batching!BatchSpec

\* What the samples of a sequence take on the wire.
FlatSize(seq) == Total([k \in DOMAIN seq |-> SP_HEADER + seq[k].len])

\* The running totals are the totals: sdl_count and sdl_data_size of the buffered
\* list, and the size of every datagram, equal the sums over what they hold, as
\* sflow_datagram_flat recomputes them (sflow_protocol_branches.c:399-403).
BytesAccounted ==
  /\ buffered.count = Len(buffered.nodes)
  /\ buffered.size
       = Total([n \in DOMAIN buffered.nodes |-> NodeSize(buffered.nodes[n].data)])
  /\ flatBytes = FlatSize(ListDrain(buffered))
  /\ \A i \in DOMAIN sent : sent[i].size = DG_HEADER_V4 + FlatSize(sent[i].samples)

\* The samples of the first datagrams, one after the other.
Wires(ds) ==
  LET wire[d \in 0..Len(ds)] == IF d = 0 THEN <<>> ELSE wire[d - 1] \o ds[d].samples
  IN  wire
Wire(ds) == Wires(ds)[Len(ds)]

\* The numbers of a thread's samples among the first of a sequence.
Ids(a, seq) ==
  LET ids[k \in 0..Len(seq)] ==
        IF k = 0 THEN <<>>
        ELSE IF seq[k].by = a THEN Append(ids[k - 1], seq[k].id) ELSE ids[k - 1]
  IN  ids
IdsOf(a, seq) == Ids(a, seq)[Len(seq)]

\* How many of its samples a thread has put into the buffer.
Taken(a) == IF pc[a] \in {"idle", "unlock"} THEN sample[a].id ELSE sample[a].id - 1

\* Every sample a source made and the sender took is in exactly one place, and a
\* source's samples keep their order on the wire, in flight and in the buffer.
PerSourceFifo ==
  \A a \in Appenders : IdsOf(a, Wire(sent) \o PendingSamples) = [i \in 1..Taken(a) |-> i]

IsBuffered(a, i) ==
  \E n \in 1..Len(buffered.nodes) :
    buffered.nodes[n].data.by = a /\ buffered.nodes[n].data.id = i
IsSent(a, i) ==
  \E d \in DOMAIN sent : \E n \in DOMAIN sent[d].samples :
    sent[d].samples[n].by = a /\ sent[d].samples[n].id = i

Armed == timer \/ sigalrm \/ pc[Handler] \in {"lock", "unlock_indicator"}

\* A buffered sample leaves once an alarm is running or its signal is on the way,
\* whoever ends up sending it: cancelling the alarm (sflow_sender.c:126) never
\* takes the alarm away from a sample that stays in the buffer.
AlarmDelivers ==
  \A a \in Appenders, i \in 1..MaxSamples :
    (IsBuffered(a, i) /\ Armed) ~> IsSent(a, i)

\* A thread that calls the sender comes back, however the others interleave: the
\* mutex is always released, and no step waits for another thread in a cycle.
AppendReturns ==
  \A a \in Appenders : pc[a] # "idle" ~> pc[a] = "idle"

\* "append sample to list, and start alarm" (sflow_sender.c:102): when nobody is
\* inside the sender, a buffered sample has an alarm running or a signal pending.
NoStrandedSamples ==
  (buffered.nodes # <<>> /\ \A t \in Threads : pc[t] = "idle") => timer \/ sigalrm

================================================================================
