--------------------------- MODULE SflowSender_proofs ---------------------------
(***************************************************************************)
(* Proofs of the safety properties of SflowSender, and that it implements  *)
(* SampleBatching, for every set of threads, sample length and bound.      *)
(***************************************************************************)
EXTENDS SflowSender, SequenceTotals_proofs, SequenceTheorems

\* The steps a thread takes while it owns sflow_buffered_samples_mtx.
Critical == {"check", "cancel", "unlock_indicator", "pack", "sendto", "create",
             "retry", "realarm", "append", "unlock"}
HandlerPcs == {"idle", "lock", "unlock_indicator", "pack", "sendto", "create", "unlock"}

MutexInv ==
  /\ \A t \in Threads : mtx = t <=> pc[t] \in Critical
  /\ pc[Handler] \in HandlerPcs

\* The buffered list is freed exactly between the packing and the new list, and
\* is empty while the sender's own sample waits for its place in the new one.
ListInv ==
  /\ listFreed <=> \E t \in Threads : pc[t] \in {"sendto", "create"}
  /\ (\E t \in Threads : pc[t] \in {"sendto", "create", "retry", "realarm"})
       => buffered = ListCreate /\ flatBytes = 0
  /\ buffered.count = Len(buffered.nodes)
  /\ \A a \in Appenders : pc[a] = "append" => buffered.count = 0 \/ ~Overflows(sample[a])

\* What the overflow test adds up bounds what will be written.
SizeInv ==
  /\ 0 <= flatBytes /\ flatBytes <= buffered.size
  /\ buffered.count >= 2 => buffered.size + DG_HEADER <= MTU
  /\ \A t \in Threads : Len(dg[t].samples) >= 2 => dg[t].size <= MTU

\* Numbering: the datagram between the packing and sendto is the next one.
CountInv ==
  /\ (\A t \in Threads : pc[t] # "sendto") => datagramCount = Len(sent)
  /\ \A t \in Threads :
       pc[t] = "sendto" => dg[t].seq = Len(sent) /\ datagramCount = Len(sent) + 1

SentInv == DatagramFits /\ SequenceIsWireOrder


ControlTypeOK ==
  /\ pc \in [Threads -> Pcs]
  /\ sample \in [Appenders -> Samples]
  /\ mtx \in Threads \cup {NoThread}
  /\ indicator \in BOOLEAN /\ timer \in BOOLEAN /\ sigalrm \in BOOLEAN

ControlInv == ControlTypeOK /\ MutexInv /\ IndicatorBacked

USE DEF Threads

\* Every step that moves one thread from a step to another keeps the mutex with
\* the thread inside the critical section.
LEMMA GotoKeepsMutex ==
  ASSUME ControlTypeOK, MutexInv, NEW t \in Threads, NEW from \in Pcs, NEW to \in Pcs,
         Goto(t, from, to), t = Handler => to \in HandlerPcs,
         \/ mtx' = mtx /\ (from \in Critical <=> to \in Critical)
         \/ mtx = NoThread /\ mtx' = t /\ to \in Critical
         \/ mtx' = NoThread /\ from \in Critical /\ to \notin Critical
  PROVE  MutexInv' /\ pc' \in [Threads -> Pcs] /\ mtx' \in Threads \cup {NoThread}
BY ThreadsAssumption, SMTT(30) DEF ControlTypeOK, MutexInv, Goto, Critical, HandlerPcs, Pcs

LEMMA ControlInit == Init => ControlInv
<1> SUFFICES ASSUME Init PROVE ControlInv
  OBVIOUS
<1>1. ControlTypeOK
  <2>1. \A a \in Appenders : [by |-> a, id |-> 0, len |-> 0] \in Samples
    BY MaxSamplesAssumption DEF Samples
  <2>2. QED
    BY <2>1 DEF Init, ControlTypeOK, Pcs
<1>2. MutexInv /\ IndicatorBacked
  BY ThreadsAssumption DEF Init, MutexInv, IndicatorBacked, Critical, HandlerPcs
<1>3. QED
  BY <1>1, <1>2 DEF ControlInv

LEMMA ControlNext == ControlInv /\ [Next]_vars => ControlInv'
<1> SUFFICES ASSUME ControlInv, [Next]_vars PROVE ControlInv'
  OBVIOUS
<1> USE ThreadsAssumption, MaxSamplesAssumption DEF ControlInv
<1>1. ASSUME NEW a \in Appenders, TryIndicator(a) PROVE ControlInv'
  <2>1. MutexInv' /\ pc' \in [Threads -> Pcs] /\ mtx' \in Threads \cup {NoThread}
    BY <1>1, GotoKeepsMutex DEF TryIndicator, Pcs, Critical
  <2>2. sample' \in [Appenders -> Samples]
    BY <1>1, LensAssumption DEF TryIndicator, ControlTypeOK, Samples
  <2>3. QED
    BY <1>1, <2>1, <2>2 DEF TryIndicator, ControlTypeOK, IndicatorBacked, Goto, MutexInv
<1>2. ASSUME NEW a \in Appenders, StartAlarm(a) PROVE ControlInv'
  <2>1. MutexInv' /\ pc' \in [Threads -> Pcs] /\ mtx' \in Threads \cup {NoThread}
    BY <1>2, GotoKeepsMutex DEF StartAlarm, Pcs, Critical, HandlerPcs
  <2>2. QED
    BY <1>2, <2>1 DEF StartAlarm, ControlTypeOK, IndicatorBacked, Goto, alarmVars
<1>3. ASSUME NEW t \in Threads, Lock(t) PROVE ControlInv'
  <2>1. MutexInv' /\ pc' \in [Threads -> Pcs] /\ mtx' \in Threads \cup {NoThread}
    BY <1>3, GotoKeepsMutex DEF Lock, Pcs, Critical, HandlerPcs
  <2>2. QED
    BY <1>3, <2>1 DEF Lock, ControlTypeOK, IndicatorBacked, Goto, alarmVars
<1>4. ASSUME NEW a \in Appenders, CheckOverflow(a) PROVE ControlInv'
  <2>1. MutexInv' /\ pc' \in [Threads -> Pcs] /\ mtx' \in Threads \cup {NoThread}
    BY <1>4, GotoKeepsMutex DEF CheckOverflow, Pcs, Critical, HandlerPcs
  <2>2. QED
    BY <1>4, <2>1 DEF CheckOverflow, ControlTypeOK, IndicatorBacked, Goto, alarmVars
<1>5. ASSUME NEW a \in Appenders, CancelAlarm(a) PROVE ControlInv'
  <2>1. MutexInv' /\ pc' \in [Threads -> Pcs] /\ mtx' \in Threads \cup {NoThread}
    BY <1>5, GotoKeepsMutex DEF CancelAlarm, Pcs, Critical, HandlerPcs
  <2>2. QED
    BY <1>5, <2>1 DEF CancelAlarm, ControlTypeOK, IndicatorBacked, Goto, alarmVars
<1>6. ASSUME NEW a \in Appenders, RetryIndicator(a) PROVE ControlInv'
  <2>1. MutexInv' /\ pc' \in [Threads -> Pcs] /\ mtx' \in Threads \cup {NoThread}
    BY <1>6, GotoKeepsMutex DEF RetryIndicator, Pcs, Critical, HandlerPcs
  <2>2. QED
    BY <1>6, <2>1 DEF RetryIndicator, ControlTypeOK, IndicatorBacked, Goto, alarmVars
<1>7. ASSUME NEW a \in Appenders, RestartAlarm(a) PROVE ControlInv'
  <2>1. MutexInv' /\ pc' \in [Threads -> Pcs] /\ mtx' \in Threads \cup {NoThread}
    BY <1>7, GotoKeepsMutex DEF RestartAlarm, Pcs, Critical, HandlerPcs
  <2>2. QED
    BY <1>7, <2>1 DEF RestartAlarm, ControlTypeOK, IndicatorBacked, Goto, alarmVars
<1>8. ASSUME NEW a \in Appenders, AppendSample(a) PROVE ControlInv'
  <2>1. MutexInv' /\ pc' \in [Threads -> Pcs] /\ mtx' \in Threads \cup {NoThread}
    BY <1>8, GotoKeepsMutex DEF AppendSample, Pcs, Critical, HandlerPcs
  <2>2. QED
    BY <1>8, <2>1 DEF AppendSample, ControlTypeOK, IndicatorBacked, Goto, alarmVars
<1>9. ASSUME NEW t \in Threads, Unlock(t) PROVE ControlInv'
  <2>1. MutexInv' /\ pc' \in [Threads -> Pcs] /\ mtx' \in Threads \cup {NoThread}
    BY <1>9, GotoKeepsMutex DEF Unlock, Pcs, Critical, HandlerPcs
  <2>2. QED
    BY <1>9, <2>1 DEF Unlock, ControlTypeOK, IndicatorBacked, Goto, alarmVars
<1>10. ASSUME NEW t \in Threads, UnlockIndicator(t) PROVE ControlInv'
  <2>1. MutexInv' /\ pc' \in [Threads -> Pcs] /\ mtx' \in Threads \cup {NoThread}
    BY <1>10, GotoKeepsMutex DEF UnlockIndicator, Pcs, Critical, HandlerPcs
  <2>2. QED
    BY <1>10, <2>1 DEF UnlockIndicator, ControlTypeOK, IndicatorBacked, Goto, alarmVars
<1>11. ASSUME NEW t \in Threads, PackDatagram(t) PROVE ControlInv'
  <2>1. MutexInv' /\ pc' \in [Threads -> Pcs] /\ mtx' \in Threads \cup {NoThread}
    BY <1>11, GotoKeepsMutex DEF PackDatagram, Pcs, Critical, HandlerPcs
  <2>2. QED
    BY <1>11, <2>1 DEF PackDatagram, ControlTypeOK, IndicatorBacked, Goto, alarmVars
<1>12. ASSUME NEW t \in Threads, SendTo(t) PROVE ControlInv'
  <2>1. MutexInv' /\ pc' \in [Threads -> Pcs] /\ mtx' \in Threads \cup {NoThread}
    BY <1>12, GotoKeepsMutex DEF SendTo, Pcs, Critical, HandlerPcs
  <2>2. QED
    BY <1>12, <2>1 DEF SendTo, ControlTypeOK, IndicatorBacked, Goto, alarmVars
<1>13. ASSUME NEW t \in Threads, CreateList(t) PROVE ControlInv'
  <2>1. MutexInv' /\ pc' \in [Threads -> Pcs] /\ mtx' \in Threads \cup {NoThread}
    BY <1>13, GotoKeepsMutex DEF CreateList, Pcs, Critical, HandlerPcs
  <2>2. QED
    BY <1>13, <2>1 DEF CreateList, ControlTypeOK, IndicatorBacked, Goto, alarmVars
<1>14. ASSUME SigWait PROVE ControlInv'
  <2>1. MutexInv' /\ pc' \in [Threads -> Pcs] /\ mtx' \in Threads \cup {NoThread}
    BY <1>14, GotoKeepsMutex DEF SigWait, Pcs, Critical, HandlerPcs
  <2>2. QED
    BY <1>14, <2>1 DEF SigWait, ControlTypeOK, IndicatorBacked, Goto
<1>15. ASSUME Expire PROVE ControlInv'
  BY <1>15 DEF Expire, ControlTypeOK, MutexInv, IndicatorBacked
<1>16. ASSUME UNCHANGED vars PROVE ControlInv'
  BY <1>16 DEF vars, alarmVars, ControlTypeOK, MutexInv, IndicatorBacked
<1>17. QED
  BY <1>1, <1>2, <1>3, <1>4, <1>5, <1>6, <1>7, <1>8, <1>9, <1>10, <1>11, <1>12, <1>13, <1>14, <1>15, <1>16
  DEF Next, AppendStep, HandlerStep, SendStep

--------------------------------------------------------------------------------
DataTypeOK ==
  /\ buffered \in [nodes : Seq(Nodes), count : Nat, size : Int]
  /\ listFreed \in BOOLEAN
  /\ dg \in [Threads -> Datagrams]
  /\ datagramCount \in Nat
  /\ sent \in Seq(Datagrams)
  /\ flatBytes \in Nat

DataInv == DataTypeOK /\ ListInv /\ SizeInv /\ CountInv /\ SentInv

IInv == ControlInv /\ DataInv

LEMMA OneInCritical ==
  ASSUME ControlInv, NEW t \in Threads, NEW u \in Threads,
         pc[t] \in Critical, pc[u] \in Critical
  PROVE  t = u
BY DEF ControlInv, MutexInv

LEMMA SampleTypes ==
  ASSUME ControlInv, NEW a \in Appenders
  PROVE  sample[a] \in Samples /\ sample[a].len \in Nat /\ NodeSize(sample[a]) \in Nat
         /\ NodeSize(sample[a]) >= SP_HEADER + sample[a].len
<1>1. sample[a] \in Samples
  BY DEF ControlInv, ControlTypeOK
<1>2. sample[a].len \in Nat
  <2>1. sample[a].len \in Lens \cup {0}
    BY <1>1 DEF Samples
  <2>2. \A len \in Lens \cup {0} : len \in Nat
    BY LensAssumption
  <2>3. QED
    BY <2>1, <2>2
<1>3. QED
  BY <1>1, <1>2, PsizeAssumption DEF NodeSize, SP_HEADER

\* A step that moves one thread and leaves the list, the datagrams and the wire
\* alone keeps every fact about them, if it neither enters nor leaves the part of
\* send_samples in which there is no list.
LEMMA QuietStep ==
  ASSUME ControlInv, DataInv, NEW t \in Threads, NEW from \in Pcs, NEW to \in Pcs,
         Goto(t, from, to), UNCHANGED <<listVars, wireVars>>,
         from \notin {"sendto", "create"}, to \notin {"sendto", "create"},
         to \in {"retry", "realarm"} => from \in {"retry", "realarm"},
         to = "append" => t \in Appenders /\ (buffered.count = 0 \/ ~Overflows(sample[t])),
         \A a \in Appenders : pc'[a] = "append" => sample'[a] = sample[a]
  PROVE  DataInv'
<1> USE DEF listVars, wireVars, Goto
<1>1. DataTypeOK' /\ SizeInv' /\ SentInv'
  BY DEF DataInv, DataTypeOK, SizeInv, SentInv, DatagramFits, SequenceIsWireOrder
<1>2. /\ \A u \in Threads : u # t => pc'[u] = pc[u]
      /\ pc[t] = from /\ pc'[t] = to
  BY DEF ControlInv, ControlTypeOK
<1>3. ListInv'
  <2>1. listFreed' <=> \E u \in Threads : pc'[u] \in {"sendto", "create"}
    BY <1>2 DEF DataInv, ListInv
  <2>2. (\E u \in Threads : pc'[u] \in {"sendto", "create", "retry", "realarm"})
          => buffered' = ListCreate /\ flatBytes' = 0
    BY <1>2 DEF DataInv, ListInv
  <2>3. buffered'.count = Len(buffered'.nodes)
    BY DEF DataInv, ListInv
  <2>4. ASSUME NEW a \in Appenders, pc'[a] = "append"
        PROVE  buffered'.count = 0 \/ ~Overflows(sample[a])'
    BY <1>2, <2>4 DEF DataInv, ListInv, Overflows, NodeSize
  <2>5. QED
    BY <2>1, <2>2, <2>3, <2>4 DEF ListInv
<1>4. CountInv'
  BY <1>2 DEF DataInv, CountInv
<1>5. QED
  BY <1>1, <1>3, <1>4 DEF DataInv

LEMMA DataInit == Init => DataInv
<1> SUFFICES ASSUME Init PROVE DataInv
  OBVIOUS
<1>1. DataTypeOK
  <2>1. EmptyDatagram \in Datagrams
    <3>1. <<>> \in Seq(Samples)
      OBVIOUS
    <3>2. QED
      BY <3>1 DEF EmptyDatagram, Datagrams, DG_HEADER_V4, DG_HEADER
  <2>2. ListCreate \in [nodes : Seq(Nodes), count : Nat, size : Int]
    <3>1. <<>> \in Seq(Nodes)
      OBVIOUS
    <3>2. QED
      BY <3>1 DEF ListCreate
  <2>3. sent \in Seq(Datagrams)
    BY DEF Init
  <2>4. QED
    BY <2>1, <2>2, <2>3 DEF Init, DataTypeOK
<1>2. ListInv
  BY DEF Init, ListInv, ListCreate
<1>3. SizeInv /\ CountInv /\ SentInv
  BY DEF Init, SizeInv, CountInv, SentInv, DatagramFits, SequenceIsWireOrder,
     ListCreate, EmptyDatagram
<1>4. QED
  BY <1>1, <1>2, <1>3 DEF DataInv

LEMMA ListCreateTypes ==
  /\ ListCreate \in [nodes : Seq(Nodes), count : Nat, size : Int]
  /\ ListCreate.nodes = <<>> /\ ListCreate.count = 0 /\ ListCreate.size = 0
<1>1. <<>> \in Seq(Nodes)
  OBVIOUS
<1>2. QED
  BY <1>1 DEF ListCreate

\* Appending a sample: the list grows by one node, whose size is not CHECK_DATA.
LEMMA AppendKeepsData ==
  ASSUME ControlInv, DataInv, NEW a \in Appenders, AppendSample(a)
  PROVE  DataInv'
<1> USE DEF AppendSample, Goto
<1> DEFINE node == NodeCreate(sample[a], NodeSize(sample[a]))
<1>1. /\ \A u \in Threads : u # a => pc'[u] = pc[u]
      /\ pc[a] = "append" /\ pc'[a] = "unlock"
      /\ \A u \in Threads : u # a => pc[u] \notin Critical
  BY OneInCritical DEF ControlInv, ControlTypeOK, Critical
<1>2. /\ sample[a] \in Samples /\ sample[a].len \in Nat /\ NodeSize(sample[a]) \in Nat
      /\ NodeSize(sample[a]) >= SP_HEADER + sample[a].len
  BY SampleTypes
<1>3. node \in Nodes /\ node.size = NodeSize(sample[a])
  BY <1>2 DEF NodeCreate, Nodes
<1>4. /\ buffered'.nodes = Append(buffered.nodes, node)
      /\ buffered'.count = buffered.count + 1
      /\ buffered'.size = buffered.size + NodeSize(sample[a])
      /\ buffered' \in [nodes : Seq(Nodes), count : Nat, size : Int]
  <2>1. node.size # CHECK_DATA
    BY <1>2, <1>3 DEF CHECK_DATA
  <2>2. buffered' = [nodes |-> Append(buffered.nodes, node),
                     count |-> buffered.count + 1,
                     size  |-> buffered.size + NodeSize(sample[a])]
    BY <1>3, <2>1 DEF ListAppend
  <2>3. buffered \in [nodes : Seq(Nodes), count : Nat, size : Int]
    BY DEF DataInv, DataTypeOK
  <2>4. Append(buffered.nodes, node) \in Seq(Nodes)
    BY <1>3, <2>3
  <2>5. QED
    BY <1>2, <2>2, <2>3, <2>4
<1>5. DataTypeOK' /\ flatBytes' = flatBytes + SP_HEADER + sample[a].len
  <2>1. flatBytes' = flatBytes + SP_HEADER + sample[a].len
    OBVIOUS
  <2>2. flatBytes \in Nat /\ SP_HEADER \in Nat
    BY DEF DataInv, DataTypeOK, SP_HEADER
  <2>3. flatBytes' \in Nat
    BY <1>2, <2>1, <2>2
  <2>4. QED
    BY <1>4, <2>1, <2>3 DEF DataInv, DataTypeOK, wireVars
<1>6. ListInv'
  <2>1. listFreed' = listFreed /\ ~listFreed
    BY <1>1 DEF DataInv, ListInv, Critical
  <2>2. \A u \in Threads : pc'[u] \notin {"sendto", "create", "retry", "realarm", "append"}
    BY <1>1 DEF Critical
  <2>3. buffered'.count = Len(buffered'.nodes)
    BY <1>4, <1>3 DEF DataInv, ListInv, DataTypeOK
  <2>4. QED
    BY <2>1, <2>2, <2>3 DEF ListInv
<1>7. SizeInv'
  <2>1. 0 <= flatBytes' /\ flatBytes' <= buffered'.size
    <3>1. /\ flatBytes \in Nat /\ buffered.size \in Int
          /\ flatBytes <= buffered.size /\ SP_HEADER \in Nat
      BY DEF DataInv, SizeInv, DataTypeOK, SP_HEADER
    <3>2. /\ flatBytes' = flatBytes + SP_HEADER + sample[a].len
          /\ buffered'.size = buffered.size + NodeSize(sample[a])
      BY <1>4, <1>5
    <3> HIDE DEF AppendSample, Goto
    <3>3. QED
      BY <1>2, <3>1, <3>2
  <2>2. ASSUME buffered'.count >= 2 PROVE buffered'.size + DG_HEADER <= MTU
    <3>1. buffered.count \in Nat /\ buffered.count # 0 /\ buffered.size \in Int
      BY <1>4, <2>2 DEF DataInv, DataTypeOK
    <3>2. ~Overflows(sample[a])
      BY <1>1, <3>1 DEF DataInv, ListInv
    <3>3. QED
      BY <1>2, <1>4, <3>1, <3>2, MtuAssumption DEF Overflows, DG_HEADER
  <2>3. QED
    BY <2>1, <2>2 DEF SizeInv, DataInv, wireVars
<1>8. CountInv'
  BY <1>1 DEF DataInv, CountInv, wireVars
<1>9. SentInv'
  BY DEF DataInv, SentInv, DatagramFits, SequenceIsWireOrder, wireVars
<1>10. QED
  BY <1>5, <1>6, <1>7, <1>8, <1>9 DEF DataInv

\* The packing loop moves as many samples as the list counts.
LEMMA DrainTypes ==
  ASSUME DataInv
  PROVE  ListDrain(buffered) \in Seq(Samples) /\ Len(ListDrain(buffered)) = buffered.count
<1>1. /\ buffered.nodes \in Seq(Nodes) /\ buffered.count \in Nat
      /\ buffered.count = Len(buffered.nodes)
  BY DEF DataInv, DataTypeOK, ListInv
<1>2. \A i \in 1..buffered.count : buffered.nodes[i].data \in Samples
  <2>1. \A i \in 1..buffered.count : buffered.nodes[i] \in Nodes
    BY <1>1
  <2>2. \A n \in Nodes : n.data \in Samples
    BY DEF Nodes
  <2>3. QED
    BY <2>1, <2>2
<1>3. QED
  BY <1>1, <1>2 DEF ListDrain

LEMMA PackKeepsData ==
  ASSUME ControlInv, DataInv, NEW t \in Threads, PackDatagram(t)
  PROVE  DataInv'
<1> USE DEF PackDatagram, Goto
<1> DEFINE d == [seq |-> datagramCount, samples |-> ListDrain(buffered),
                 size |-> DG_HEADER_V4 + flatBytes]
<1>1. /\ \A u \in Threads : u # t => pc'[u] = pc[u]
      /\ pc[t] = "pack" /\ pc'[t] = "sendto"
      /\ \A u \in Threads : u # t => pc[u] \notin Critical
  BY OneInCritical DEF ControlInv, ControlTypeOK, Critical
<1>2. /\ datagramCount \in Nat /\ sent \in Seq(Datagrams) /\ dg \in [Threads -> Datagrams]
      /\ flatBytes \in Nat /\ buffered.size \in Int /\ buffered.count \in Nat
  BY DEF DataInv, DataTypeOK
<1>3. d \in Datagrams /\ (Len(d.samples) >= 2 => d.size <= MTU)
  <2>1. d \in Datagrams
    BY <1>2, DrainTypes DEF Datagrams, DG_HEADER_V4, DG_HEADER
  <2>2. ASSUME Len(d.samples) >= 2 PROVE d.size <= MTU
    <3>1. buffered.count >= 2 /\ d.size = DG_HEADER_V4 + flatBytes
      BY <2>2, DrainTypes
    <3>2. buffered.size + DG_HEADER <= MTU /\ flatBytes <= buffered.size
      BY <3>1 DEF DataInv, SizeInv
    <3>3. QED
      BY <1>2, <3>1, <3>2, MtuAssumption DEF DG_HEADER_V4, DG_HEADER
  <2>3. QED
    BY <2>1, <2>2
<1>4. dg' = [dg EXCEPT ![t] = d]
  OBVIOUS
<1>5. dg'[t] = d /\ (\A u \in Threads : u # t => dg'[u] = dg[u]) /\ dg' \in [Threads -> Datagrams]
  BY <1>2, <1>3, <1>4
<1>6. DataTypeOK'
  BY <1>2, <1>5, ListCreateTypes DEF DataTypeOK
<1>7. ListInv'
  <2>1. \A u \in Threads : pc'[u] # "append"
    BY <1>1 DEF Critical
  <2>2. QED
    BY <1>1, <2>1, ListCreateTypes DEF ListInv
<1>8. SizeInv'
  BY <1>3, <1>5, ListCreateTypes DEF DataInv, SizeInv
<1>9. CountInv'
  <2>1. \A u \in Threads : pc[u] # "sendto"
    BY <1>1 DEF Critical
  <2>2. datagramCount = Len(sent)
    BY <2>1 DEF DataInv, CountInv
  <2>3. \A u \in Threads : pc'[u] = "sendto" => u = t
    BY <1>1, <2>1
  <2>4. QED
    BY <1>1, <1>5, <2>2, <2>3 DEF CountInv
<1>10. SentInv'
  BY DEF DataInv, SentInv, DatagramFits, SequenceIsWireOrder
<1>11. QED
  BY <1>6, <1>7, <1>8, <1>9, <1>10 DEF DataInv

LEMMA SendToKeepsData ==
  ASSUME ControlInv, DataInv, NEW t \in Threads, SendTo(t)
  PROVE  DataInv'
<1> USE DEF SendTo, Goto
<1>1. /\ \A u \in Threads : u # t => pc'[u] = pc[u]
      /\ pc[t] = "sendto" /\ pc'[t] = "create"
      /\ \A u \in Threads : u # t => pc[u] \notin Critical
  BY OneInCritical DEF ControlInv, ControlTypeOK, Critical
<1>2. /\ datagramCount \in Nat /\ sent \in Seq(Datagrams) /\ dg \in [Threads -> Datagrams]
      /\ dg[t] \in Datagrams
  BY DEF DataInv, DataTypeOK
<1>3. EmptyDatagram \in Datagrams /\ EmptyDatagram.samples = <<>>
  <2>1. <<>> \in Seq(Samples)
    OBVIOUS
  <2>2. QED
    BY <2>1 DEF EmptyDatagram, Datagrams, DG_HEADER_V4, DG_HEADER
<1>4. dg'[t] = EmptyDatagram /\ (\A u \in Threads : u # t => dg'[u] = dg[u])
      /\ dg' \in [Threads -> Datagrams]
  BY <1>2, <1>3
<1>5. DataTypeOK'
  BY <1>2, <1>4 DEF DataInv, DataTypeOK, listVars
<1>6. ListInv'
  <2>1. listFreed /\ buffered = ListCreate /\ flatBytes = 0
    BY <1>1 DEF DataInv, ListInv
  <2>2. \A u \in Threads : pc'[u] # "append"
    BY <1>1 DEF Critical
  <2>3. QED
    BY <1>1, <2>1, <2>2, ListCreateTypes DEF ListInv, listVars
<1>7. SizeInv'
  BY <1>3, <1>4 DEF DataInv, SizeInv, listVars
<1>8. dg[t].seq = Len(sent) /\ datagramCount = Len(sent) + 1
  BY <1>1 DEF DataInv, CountInv
<1>9. CountInv'
  <2>1. \A u \in Threads : pc'[u] # "sendto"
    BY <1>1 DEF Critical
  <2>2. Len(sent') = Len(sent) + 1
    BY <1>2
  <2>3. QED
    BY <1>8, <2>1, <2>2 DEF CountInv
<1>10. SentInv'
  <2>1. Len(dg[t].samples) >= 2 => dg[t].size <= MTU
    BY DEF DataInv, SizeInv
  <2>2. /\ Len(sent') = Len(sent) + 1 /\ sent'[Len(sent) + 1] = dg[t]
        /\ \A i \in 1..Len(sent) : sent'[i] = sent[i]
        /\ DOMAIN sent' = 1..(Len(sent) + 1) /\ DOMAIN sent = 1..Len(sent)
        /\ Len(sent) \in Nat
    BY <1>2
  <2>3. QED
    BY <1>8, <2>1, <2>2 DEF DataInv, SentInv, DatagramFits, SequenceIsWireOrder
<1>11. QED
  BY <1>5, <1>6, <1>7, <1>9, <1>10 DEF DataInv

LEMMA CreateKeepsData ==
  ASSUME ControlInv, DataInv, NEW t \in Threads, CreateList(t)
  PROVE  DataInv'
<1> USE DEF CreateList, Goto
<1>1. /\ \A u \in Threads : u # t => pc'[u] = pc[u]
      /\ pc[t] = "create" /\ pc'[t] \in {"unlock", "retry"}
      /\ \A u \in Threads : u # t => pc[u] \notin Critical
  BY OneInCritical DEF ControlInv, ControlTypeOK, Critical
<1>2. DataTypeOK'
  BY ListCreateTypes DEF DataInv, DataTypeOK, wireVars
<1>3. ListInv'
  <2>1. \A u \in Threads : pc'[u] \notin {"sendto", "create", "append"}
    BY <1>1 DEF Critical
  <2>2. QED
    BY <2>1, ListCreateTypes DEF ListInv
<1>4. SizeInv'
  BY ListCreateTypes DEF DataInv, SizeInv, wireVars
<1>5. CountInv'
  <2>1. \A u \in Threads : pc[u] # "sendto" /\ pc'[u] # "sendto"
    BY <1>1 DEF Critical
  <2>2. QED
    BY <2>1 DEF DataInv, CountInv, wireVars
<1>6. SentInv'
  BY DEF DataInv, SentInv, DatagramFits, SequenceIsWireOrder, wireVars
<1>7. QED
  BY <1>2, <1>3, <1>4, <1>5, <1>6 DEF DataInv

LEMMA DataNext == ControlInv /\ DataInv /\ [Next]_vars => DataInv'
<1> SUFFICES ASSUME ControlInv, DataInv, [Next]_vars PROVE DataInv'
  OBVIOUS
<1> USE DEF Pcs
<1>1. ASSUME NEW a \in Appenders, TryIndicator(a) PROVE DataInv'
  <2>1. \A b \in Appenders : pc'[b] = "append" => sample'[b] = sample[b]
    BY <1>1 DEF TryIndicator, Goto, ControlInv, ControlTypeOK
  <2>2. UNCHANGED <<listVars, wireVars>>
    BY <1>1 DEF TryIndicator
  <2>3. CASE indicator
    <3>1. Goto(a, "idle", "lock")
      BY <1>1, <2>3 DEF TryIndicator
    <3>2. QED
      BY <2>1, <2>2, <3>1, QuietStep
  <2>4. CASE ~indicator
    <3>1. Goto(a, "idle", "alarm")
      BY <1>1, <2>4 DEF TryIndicator
    <3>2. QED
      BY <2>1, <2>2, <3>1, QuietStep
  <2>5. QED
    BY <2>3, <2>4
<1>2. ASSUME NEW a \in Appenders, StartAlarm(a) PROVE DataInv'
  BY <1>2, QuietStep DEF StartAlarm
<1>3. ASSUME NEW t \in Threads, Lock(t) PROVE DataInv'
  <2>1. CASE t = Handler
    BY <1>3, <2>1, QuietStep DEF Lock
  <2>2. CASE t # Handler
    BY <1>3, <2>2, QuietStep DEF Lock
  <2>3. QED
    BY <2>1, <2>2
<1>4. ASSUME NEW a \in Appenders, CheckOverflow(a) PROVE DataInv'
  <2>1. CASE Overflows(sample[a])
    BY <1>4, <2>1, QuietStep DEF CheckOverflow
  <2>2. CASE ~Overflows(sample[a])
    BY <1>4, <2>2, QuietStep DEF CheckOverflow
  <2>3. QED
    BY <2>1, <2>2
<1>5. ASSUME NEW a \in Appenders, CancelAlarm(a) PROVE DataInv'
  BY <1>5, QuietStep DEF CancelAlarm
<1>6. ASSUME NEW a \in Appenders, RetryIndicator(a) PROVE DataInv'
  <2>1. pc[a] = "retry"
    BY <1>6 DEF RetryIndicator, Goto
  <2>2. buffered.count = 0
    BY <2>1, ListCreateTypes DEF DataInv, ListInv
  <2>3. CASE indicator
    BY <1>6, <2>2, <2>3, QuietStep DEF RetryIndicator
  <2>4. CASE ~indicator
    BY <1>6, <2>2, <2>4, QuietStep DEF RetryIndicator
  <2>5. QED
    BY <2>3, <2>4
<1>7. ASSUME NEW a \in Appenders, RestartAlarm(a) PROVE DataInv'
  <2>1. pc[a] = "realarm"
    BY <1>7 DEF RestartAlarm, Goto
  <2>2. buffered.count = 0
    BY <2>1, ListCreateTypes DEF DataInv, ListInv
  <2>3. QED
    BY <1>7, <2>2, QuietStep DEF RestartAlarm
<1>8. ASSUME NEW a \in Appenders, AppendSample(a) PROVE DataInv'
  BY <1>8, AppendKeepsData
<1>9. ASSUME NEW t \in Threads, Unlock(t) PROVE DataInv'
  BY <1>9, QuietStep DEF Unlock
<1>10. ASSUME NEW t \in Threads, UnlockIndicator(t) PROVE DataInv'
  BY <1>10, QuietStep DEF UnlockIndicator
<1>11. ASSUME NEW t \in Threads, PackDatagram(t) PROVE DataInv'
  BY <1>11, PackKeepsData
<1>12. ASSUME NEW t \in Threads, SendTo(t) PROVE DataInv'
  BY <1>12, SendToKeepsData
<1>13. ASSUME NEW t \in Threads, CreateList(t) PROVE DataInv'
  BY <1>13, CreateKeepsData
<1>14. ASSUME SigWait PROVE DataInv'
  BY <1>14, QuietStep DEF SigWait
<1>15. ASSUME Expire PROVE DataInv'
  BY <1>15 DEF Expire, listVars, wireVars, DataInv, DataTypeOK, ListInv, SizeInv, CountInv,
     SentInv, DatagramFits, SequenceIsWireOrder, Overflows
<1>16. ASSUME UNCHANGED vars PROVE DataInv'
  BY <1>16 DEF vars, alarmVars, listVars, wireVars, DataInv, DataTypeOK, ListInv, SizeInv, CountInv,
     SentInv, DatagramFits, SequenceIsWireOrder, Overflows
<1>17. QED
  BY <1>1, <1>2, <1>3, <1>4, <1>5, <1>6, <1>7, <1>8, <1>9, <1>10, <1>11, <1>12, <1>13, <1>14, <1>15, <1>16
  DEF Next, AppendStep, HandlerStep, SendStep

--------------------------------------------------------------------------------
\* The inductive invariant.
THEOREM Invariance == Spec => []IInv
<1>1. Init => IInv
  BY ControlInit, DataInit DEF IInv
<1>2. IInv /\ [Next]_vars => IInv'
  BY ControlNext, DataNext DEF IInv
<1>3. QED
  BY <1>1, <1>2, PTL DEF Spec

\* The variables keep their types, whatever the number of threads.
THEOREM TypeCorrect == Spec => []TypeOK
<1>1. IInv => TypeOK
  BY DEF IInv, ControlInv, ControlTypeOK, DataInv, DataTypeOK, TypeOK
<1>2. QED
  BY <1>1, Invariance, PTL

\* The buffered list is only touched under its mutex and never while freed.
THEOREM ListSafety == Spec => []ListAccessSafe
<1>1. IInv => ListAccessSafe
  <2> SUFFICES ASSUME IInv, NEW t \in Threads, pc[t] \in ListSteps
               PROVE  mtx = t /\ ~listFreed
    BY DEF ListAccessSafe
  <2>1. ControlInv /\ pc[t] \in Critical
    BY DEF IInv, ListSteps, Critical
  <2>2. mtx = t
    BY <2>1 DEF ControlInv, MutexInv
  <2>3. \A u \in Threads : pc[u] \notin {"sendto", "create"}
    BY <2>1, OneInCritical DEF ListSteps, Critical
  <2>4. QED
    BY <2>2, <2>3 DEF IInv, DataInv, ListInv
<1>2. QED
  BY <1>1, Invariance, PTL

\* No datagram of two or more samples exceeds the MTU, for any MTU, any sample
\* lengths and any pointer size of at least four bytes.
THEOREM MtuRespected == Spec => []DatagramFits
<1>1. IInv => DatagramFits
  BY DEF IInv, DataInv, SentInv
<1>2. QED
  BY <1>1, Invariance, PTL

\* The n-th datagram given to sendto carries sequence number n - 1.
THEOREM WireOrder == Spec => []SequenceIsWireOrder
<1>1. IInv => SequenceIsWireOrder
  BY DEF IInv, DataInv, SentInv
<1>2. QED
  BY <1>1, Invariance, PTL

\* A locked indicator always has an alarm, a signal or a thread behind it.
THEOREM IndicatorNeverStuck == Spec => []IndicatorBacked
<1>1. IInv => IndicatorBacked
  BY DEF IInv, ControlInv
<1>2. QED
  BY <1>1, Invariance, PTL

--------------------------------------------------------------------------------
(***************************************************************************)
(* Refinement: the sender implements SampleBatching.                       *)
(***************************************************************************)

LEMMA InFlightThread ==
  ASSUME ControlInv
  PROVE  /\ \A t \in Threads : pc[t] = "sendto" => InFlight /\ mtx = t
         /\ InFlight => mtx \in Threads
BY ThreadsAssumption DEF ControlInv, ControlTypeOK, MutexInv, InFlight, Critical

LEMMA EmptyDrain == ListDrain(ListCreate) = <<>>
BY DEF ListDrain, ListCreate

\* Appending a sample puts it behind those that packing would move.
LEMMA AppendDrains ==
  ASSUME ControlInv, DataInv, NEW a \in Appenders, AppendSample(a)
  PROVE  /\ buffered'.nodes
              = Append(buffered.nodes, NodeCreate(sample[a], NodeSize(sample[a])))
         /\ buffered'.size = buffered.size + NodeSize(sample[a])
         /\ buffered'.count = buffered.count + 1
         /\ ListDrain(buffered') = Append(ListDrain(buffered), sample[a])
<1> USE DEF AppendSample
<1> DEFINE node == NodeCreate(sample[a], NodeSize(sample[a]))
<1>1. sample[a] \in Samples /\ NodeSize(sample[a]) \in Nat
  BY SampleTypes
<1>2. /\ buffered.nodes \in Seq(Nodes) /\ buffered.count \in Nat
      /\ buffered.count = Len(buffered.nodes)
  BY DEF DataInv, DataTypeOK, ListInv
<1>3. /\ node \in Nodes /\ node.data = sample[a] /\ node.size = NodeSize(sample[a])
      /\ node.size # CHECK_DATA
  BY <1>1 DEF NodeCreate, Nodes, CHECK_DATA
<1>4. /\ buffered'.nodes = Append(buffered.nodes, node)
      /\ buffered'.count = buffered.count + 1
      /\ buffered'.size = buffered.size + NodeSize(sample[a])
  BY <1>3 DEF ListAppend
<1>5. \A i \in 1..buffered.count : buffered'.nodes[i] = buffered.nodes[i]
  BY <1>2, <1>3, <1>4
<1>6. buffered'.nodes[buffered.count + 1] = node
  BY <1>2, <1>3, <1>4
<1>7. ListDrain(buffered) \in Seq(Samples) /\ Len(ListDrain(buffered)) = buffered.count
  BY DrainTypes
<1>8. \A i \in 1..(buffered.count + 1) :
         buffered'.nodes[i].data = Append(ListDrain(buffered), sample[a])[i]
  <2> TAKE i \in 1..(buffered.count + 1)
  <2>1. CASE i = buffered.count + 1
    BY <1>1, <1>3, <1>6, <1>7, <2>1
  <2>2. CASE i # buffered.count + 1
    <3>1. i \in 1..buffered.count
      BY <1>2, <2>2
    <3>2. Append(ListDrain(buffered), sample[a])[i] = ListDrain(buffered)[i]
      BY <1>1, <1>7, <3>1
    <3>3. QED
      BY <1>5, <3>1, <3>2 DEF ListDrain
  <2>3. QED
    BY <2>1, <2>2
<1>9. ListDrain(buffered') = [i \in 1..(buffered.count + 1) |-> buffered'.nodes[i].data]
  BY <1>4 DEF ListDrain
<1>10. /\ Append(ListDrain(buffered), sample[a]) \in Seq(Samples)
       /\ Len(Append(ListDrain(buffered), sample[a])) = buffered.count + 1
  BY <1>1, <1>2, <1>7
<1>11. Append(ListDrain(buffered), sample[a])
         = [i \in 1..(buffered.count + 1) |-> Append(ListDrain(buffered), sample[a])[i]]
  BY <1>10
<1>12. QED
  BY <1>4, <1>8, <1>9, <1>11

\* A step outside pack, sendto, create and append is a stutter of the batcher.
LEMMA QuietMaps ==
  ASSUME ControlInv, ControlInv', NEW t \in Threads, pc' = [pc EXCEPT ![t] = pc'[t]],
         pc[t] # "sendto", pc'[t] # "sendto", UNCHANGED <<buffered, flatBytes, dg, sent>>
  PROVE  UNCHANGED <<PendingSamples, PendingBytes, sent>>
<1>1. pc \in [Threads -> Pcs]
  BY DEF ControlInv, ControlTypeOK
<1>2. InFlight => InFlight' /\ mtx' = mtx
  <2> SUFFICES ASSUME InFlight PROVE InFlight' /\ mtx' = mtx
    OBVIOUS
  <2>1. mtx \in Threads /\ pc[mtx] = "sendto"
    BY InFlightThread DEF InFlight
  <2>2. pc'[mtx] = "sendto"
    BY <1>1, <2>1
  <2>3. mtx' = mtx
    BY <2>1, <2>2 DEF ControlInv, MutexInv, Critical
  <2>4. QED
    BY <2>1, <2>2, <2>3, ThreadsAssumption DEF InFlight
<1>3. InFlight' => InFlight
  <2> SUFFICES ASSUME InFlight' PROVE InFlight
    OBVIOUS
  <2>1. mtx' \in Threads /\ pc'[mtx'] = "sendto"
    BY ThreadsAssumption DEF InFlight, ControlInv, ControlTypeOK
  <2>2. pc[mtx'] = "sendto"
    BY <1>1, <2>1
  <2>3. QED
    BY <2>1, <2>2, InFlightThread
<1>4. QED
  BY <1>2, <1>3 DEF PendingSamples, PendingBytes, ListDrain

LEMMA AppendMaps ==
  ASSUME ControlInv, ControlInv', DataInv, NEW a \in Appenders, AppendSample(a)
  PROVE  Batching!BatchNext
<1> USE DEF AppendSample, Goto
<1>1. /\ pc[a] = "append" /\ mtx = a /\ pc'[a] = "unlock" /\ mtx' = a
  BY DEF ControlInv, ControlTypeOK, MutexInv, Critical
<1>2. ~InFlight /\ ~InFlight'
  BY <1>1 DEF InFlight
<1>3. /\ PendingSamples = ListDrain(buffered) /\ PendingSamples' = ListDrain(buffered')
      /\ PendingBytes = flatBytes /\ PendingBytes' = flatBytes'
  BY <1>2 DEF PendingSamples, PendingBytes, ListDrain
<1>4. /\ sample[a] \in Samples /\ sample[a].len \in Nat
      /\ NodeSize(sample[a]) \in Nat
      /\ NodeSize(sample[a]) >= SP_HEADER + sample[a].len
  BY SampleTypes
<1>5. /\ buffered.nodes \in Seq(Nodes) /\ buffered.count \in Nat /\ buffered.size \in Int
      /\ buffered.count = Len(buffered.nodes) /\ flatBytes \in Nat
      /\ flatBytes <= buffered.size
  BY DEF DataInv, DataTypeOK, ListInv, SizeInv
<1>6. ListDrain(buffered') = Append(ListDrain(buffered), sample[a])
  BY AppendDrains
<1>7. PendingSamples = <<>> \/ DG_HEADER_V4 + PendingBytes + SP_HEADER + sample[a].len <= MTU
  <2>1. CASE buffered.count = 0
    <3>1. ListDrain(buffered) \in Seq(Samples) /\ Len(ListDrain(buffered)) = 0
      BY <2>1, DrainTypes
    <3> HIDE DEF AppendSample, Goto
    <3>2. ListDrain(buffered) = <<>>
      BY <3>1
    <3>3. QED
      BY <1>3, <3>2
  <2>2. CASE ~Overflows(sample[a])
    <3> HIDE DEF AppendSample, Goto
    <3>1. buffered.size + NodeSize(sample[a]) + DG_HEADER <= MTU
      BY <2>2, <1>4, <1>5, MtuAssumption DEF Overflows, DG_HEADER
    <3>2. DG_HEADER_V4 + flatBytes + SP_HEADER + sample[a].len <= MTU
      BY <1>4, <1>5, <3>1, MtuAssumption DEF DG_HEADER_V4, DG_HEADER, SP_HEADER
    <3>3. QED
      BY <1>3, <3>2
  <2>3. QED
    BY <1>1, <2>1, <2>2 DEF DataInv, ListInv
<1>8. Batching!Accept(sample[a])
  BY <1>3, <1>6, <1>7 DEF Batching!Accept, wireVars
<1>9. QED
  BY <1>4, <1>8 DEF Batching!BatchNext

LEMMA PackMaps ==
  ASSUME ControlInv, ControlInv', DataInv, NEW t \in Threads, PackDatagram(t)
  PROVE  UNCHANGED <<PendingSamples, PendingBytes, sent>>
<1> USE DEF PackDatagram, Goto
<1>1. pc[t] = "pack" /\ mtx = t /\ pc'[t] = "sendto" /\ mtx' = t /\ t # NoThread
  BY ThreadsAssumption DEF ControlInv, ControlTypeOK, MutexInv, Critical
<1>2. ~InFlight /\ InFlight'
  BY <1>1 DEF InFlight
<1>3. dg'[t].samples = ListDrain(buffered) /\ dg'[t].size = DG_HEADER_V4 + flatBytes
      /\ flatBytes \in Nat
  BY DEF DataInv, DataTypeOK
<1>4. QED
  BY <1>1, <1>2, <1>3 DEF PendingSamples, PendingBytes, DG_HEADER_V4, DG_HEADER

LEMMA SendToMaps ==
  ASSUME ControlInv, ControlInv', DataInv, NEW t \in Threads, SendTo(t)
  PROVE  Batching!Flush
<1> USE DEF SendTo, Goto
<1>1. pc[t] = "sendto" /\ mtx = t /\ pc'[t] = "create" /\ mtx' = t /\ t # NoThread
  BY ThreadsAssumption DEF ControlInv, ControlTypeOK, MutexInv, Critical
<1>2. InFlight /\ ~InFlight'
  BY <1>1 DEF InFlight
<1>3. PendingSamples = dg[t].samples /\ PendingBytes = dg[t].size - DG_HEADER_V4
  BY <1>1, <1>2 DEF PendingSamples, PendingBytes
<1>4. PendingSamples' = <<>> /\ PendingBytes' = 0
  <2>1. buffered' = ListCreate /\ flatBytes' = 0
    BY <1>1 DEF DataInv, ListInv, listVars
  <2>2. QED
    BY <1>2, <2>1, EmptyDrain DEF PendingSamples, PendingBytes, ListDrain
<1>5. dg[t] = [seq |-> Len(sent), samples |-> dg[t].samples,
               size |-> DG_HEADER_V4 + (dg[t].size - DG_HEADER_V4)]
  <2>1. dg[t] \in Datagrams /\ dg[t].seq = Len(sent)
    BY <1>1 DEF DataInv, DataTypeOK, CountInv
  <2>2. dg[t].size \in Int /\ DG_HEADER_V4 \in Int
    BY <2>1 DEF Datagrams, DG_HEADER_V4, DG_HEADER
  <2>3. DG_HEADER_V4 + (dg[t].size - DG_HEADER_V4) = dg[t].size
    BY <2>2
  <2>4. QED
    BY <2>1, <2>3 DEF Datagrams
<1>6. QED
  BY <1>3, <1>4, <1>5 DEF Batching!Flush

LEMMA CreateMaps ==
  ASSUME ControlInv, ControlInv', DataInv, NEW t \in Threads, CreateList(t)
  PROVE  UNCHANGED <<PendingSamples, PendingBytes, sent>>
<1> USE DEF CreateList, Goto
<1>1. pc[t] = "create" /\ mtx = t /\ mtx' = t /\ pc'[t] # "sendto"
  BY DEF ControlInv, ControlTypeOK, MutexInv, Critical
<1>2. ~InFlight /\ ~InFlight'
  BY <1>1 DEF InFlight
<1>3. buffered' = buffered /\ flatBytes' = flatBytes
  BY <1>1 DEF DataInv, ListInv
<1>4. QED
  BY <1>2, <1>3 DEF PendingSamples, PendingBytes, ListDrain, wireVars

\* All other steps are stutters of the batcher.
LEMMA StepKinds ==
  ASSUME IInv, IInv', [Next]_vars
  PROVE  \/ UNCHANGED <<PendingSamples, PendingBytes, sent>>
         \/ \E a \in Appenders : AppendSample(a)
         \/ \E t \in Threads : SendTo(t)
<1> DEFINE Same == UNCHANGED <<PendingSamples, PendingBytes, sent>>
<1>1. ControlInv /\ ControlInv' /\ DataInv
  BY DEF IInv
<1>2. ASSUME NEW t \in Threads, NEW to \in Pcs, pc[t] # "sendto", to # "sendto",
             pc' = [pc EXCEPT ![t] = to], UNCHANGED <<buffered, flatBytes, dg, sent>>
      PROVE  Same
  <2>1. pc'[t] = to
    BY <1>1, <1>2 DEF ControlInv, ControlTypeOK
  <2>2. QED
    BY <1>1, <1>2, <2>1, QuietMaps
<1> USE DEF Goto, Pcs, listVars, wireVars
<1>3. ASSUME NEW a \in Appenders,
             \/ TryIndicator(a) \/ StartAlarm(a) \/ CheckOverflow(a) \/ CancelAlarm(a)
             \/ RetryIndicator(a) \/ RestartAlarm(a)
      PROVE  Same
  <2> HIDE DEF Same
  <2>1. CASE TryIndicator(a)    BY <1>2, <2>1 DEF TryIndicator
  <2>2. CASE StartAlarm(a)      BY <1>2, <2>2 DEF StartAlarm
  <2>3. CASE CheckOverflow(a)   BY <1>2, <2>3 DEF CheckOverflow
  <2>4. CASE CancelAlarm(a)     BY <1>2, <2>4 DEF CancelAlarm
  <2>5. CASE RetryIndicator(a)  BY <1>2, <2>5 DEF RetryIndicator
  <2>6. CASE RestartAlarm(a)    BY <1>2, <2>6 DEF RestartAlarm
  <2>7. QED BY <1>3, <2>1, <2>2, <2>3, <2>4, <2>5, <2>6
<1>4. ASSUME NEW t \in Threads, Lock(t) \/ UnlockIndicator(t) \/ Unlock(t)
      PROVE  Same
  <2> HIDE DEF Same
  <2>1. CASE Lock(t)            BY <1>2, <2>1 DEF Lock
  <2>2. CASE UnlockIndicator(t) BY <1>2, <2>2 DEF UnlockIndicator
  <2>3. CASE Unlock(t)          BY <1>2, <2>3 DEF Unlock
  <2>4. QED BY <1>4, <2>1, <2>2, <2>3
<1>5. ASSUME SigWait PROVE Same
  BY <1>2, <1>5 DEF SigWait
<1>6. ASSUME Expire \/ UNCHANGED vars PROVE Same
  BY <1>6 DEF Expire, vars, PendingSamples, PendingBytes, InFlight, ListDrain
<1>7. ASSUME NEW t \in Threads, PackDatagram(t) \/ CreateList(t) PROVE Same
  BY <1>1, <1>7, PackMaps, CreateMaps
<1>8. QED
  <2> HIDE DEF Same, Goto, Pcs, listVars, wireVars
  <2>1. Same \/ (\E a \in Appenders : AppendSample(a)) \/ (\E t \in Threads : SendTo(t))
    BY <1>3, <1>4, <1>5, <1>6, <1>7 DEF Next, AppendStep, HandlerStep, SendStep
  <2>2. QED
    BY <2>1 DEF Same

LEMMA StepMaps ==
  ASSUME IInv, IInv', [Next]_vars
  PROVE  [Batching!BatchNext]_(Batching!bvars)
<1>1. ControlInv /\ ControlInv' /\ DataInv
  BY DEF IInv
<1>2. ASSUME NEW t \in Threads, SendTo(t) PROVE Batching!BatchNext
  BY <1>1, <1>2, SendToMaps DEF Batching!BatchNext
<1>3. ASSUME NEW a \in Appenders, AppendSample(a) PROVE Batching!BatchNext
  BY <1>1, <1>3, AppendMaps
<1>4. QED
  BY <1>2, <1>3, StepKinds DEF Batching!bvars

\* The threads, locks and alarms together implement one batcher: every sample is
\* accepted once, leaves once, in order, in a numbered datagram that fits.
THEOREM Refinement == Spec => BatchingRefined
<1>1. Init => Batching!BatchInit
  BY EmptyDrain DEF Init, Batching!BatchInit, PendingSamples, PendingBytes, InFlight
<1>2. IInv /\ IInv' /\ [Next]_vars => [Batching!BatchNext]_(Batching!bvars)
  BY StepMaps
<1>3. QED
  BY <1>1, <1>2, Invariance, PTL DEF Spec, Batching!BatchSpec, BatchingRefined
--------------------------------------------------------------------------------
(***************************************************************************)
(* The running totals are the totals.                                      *)
(***************************************************************************)

\* Only these steps touch the list, the packed datagrams or the wire.
LEMMA DataSteps ==
  ASSUME [Next]_vars
  PROVE  \/ UNCHANGED <<buffered, flatBytes, dg, sent>>
         \/ \E a \in Appenders : AppendSample(a)
         \/ \E t \in Threads : PackDatagram(t) \/ SendTo(t) \/ CreateList(t)
<1> USE DEF listVars, wireVars
<1>1. ASSUME NEW a \in Appenders, TryIndicator(a) \/ AppendStep(a), ~AppendSample(a),
             ~PackDatagram(a), ~SendTo(a), ~CreateList(a)
      PROVE  UNCHANGED <<buffered, flatBytes, dg, sent>>
  BY <1>1 DEF TryIndicator, AppendStep, StartAlarm, Lock, CheckOverflow, CancelAlarm,
     RetryIndicator, RestartAlarm, Unlock, SendStep, UnlockIndicator
<1>2. ASSUME HandlerStep, ~PackDatagram(Handler), ~SendTo(Handler), ~CreateList(Handler)
      PROVE  UNCHANGED <<buffered, flatBytes, dg, sent>>
  BY <1>2 DEF HandlerStep, SigWait, Lock, Unlock, SendStep, UnlockIndicator
<1>3. Expire => UNCHANGED <<buffered, flatBytes, dg, sent>>
  BY DEF Expire
<1>4. UNCHANGED vars => UNCHANGED <<buffered, flatBytes, dg, sent>>
  BY DEF vars
<1>5. QED
  BY <1>1, <1>2, <1>3, <1>4 DEF Next

BytesInv ==
  /\ BytesAccounted
  /\ \A t \in Threads : dg[t].size = DG_HEADER_V4 + FlatSize(dg[t].samples)

LEMMA SampleLen == \A s \in Samples : s.len \in Nat
<1>1. \A len \in Lens \cup {0} : len \in Nat
  BY LensAssumption
<1>2. QED
  BY <1>1 DEF Samples

LEMMA FlatSizeEmpty == FlatSize(<<>>) = 0
<1>1. [k \in DOMAIN <<>> |-> SP_HEADER + <<>>[k].len] = <<>>
  OBVIOUS
<1>2. QED
  BY <1>1, TotalEmpty DEF FlatSize

\* A sample more takes its header and its bytes.
LEMMA FlatSizeAppend ==
  ASSUME NEW seq \in Seq(Samples), NEW s \in Samples
  PROVE  FlatSize(Append(seq, s)) = FlatSize(seq) + (SP_HEADER + s.len)
<1> DEFINE n == Len(seq)
           w == [k \in DOMAIN seq |-> SP_HEADER + seq[k].len]
           v == [k \in DOMAIN Append(seq, s) |-> SP_HEADER + Append(seq, s)[k].len]
<1>1. SP_HEADER + s.len \in Int
  BY SampleLen DEF SP_HEADER
<1>2. w \in Seq(Int) /\ Len(w) = n /\ \A k \in 1..n : w[k] = SP_HEADER + seq[k].len
  <2>1. \A k \in 1..Len(seq) : SP_HEADER + seq[k].len \in Int
    BY SampleLen DEF SP_HEADER
  <2>2. DOMAIN seq = 1..Len(seq) /\ Len(seq) \in Nat
    OBVIOUS
  <2>3. QED
    BY <2>1, <2>2
<1>3. v = Append(w, SP_HEADER + s.len)
  <2>1. /\ Len(Append(seq, s)) = n + 1 /\ DOMAIN Append(seq, s) = 1..(n + 1) /\ n \in Nat
        /\ Append(seq, s)[n + 1] = s /\ \A k \in 1..n : Append(seq, s)[k] = seq[k]
    OBVIOUS
  <2> HIDE DEF n, w
  <2>2. Append(w, SP_HEADER + s.len) = [k \in 1..(n + 1) |-> Append(w, SP_HEADER + s.len)[k]]
    BY <1>1, <1>2
  <2>3. \A k \in 1..(n + 1) :
          Append(w, SP_HEADER + s.len)[k] = SP_HEADER + Append(seq, s)[k].len
    BY <1>1, <1>2, <2>1
  <2>4. QED
    BY <2>1, <2>2, <2>3
<1>4. QED
  BY <1>1, <1>2, <1>3, TotalAppend DEF FlatSize

LEMMA BytesInit == Init => BytesInv
<1> SUFFICES ASSUME Init PROVE BytesInv
  OBVIOUS
<1>1. buffered.nodes = <<>> /\ buffered.count = 0 /\ buffered.size = 0
  BY ListCreateTypes DEF Init
<1>2. ListDrain(buffered) = <<>>
  BY EmptyDrain DEF Init
<1>3. [n \in DOMAIN buffered.nodes |-> NodeSize(buffered.nodes[n].data)] = <<>>
  BY <1>1
<1>4. BytesAccounted
  BY <1>1, <1>2, <1>3, TotalEmpty, FlatSizeEmpty DEF Init, BytesAccounted
<1>5. \A t \in Threads : dg[t].size = DG_HEADER_V4 + FlatSize(dg[t].samples)
  BY FlatSizeEmpty DEF Init, EmptyDatagram, DG_HEADER_V4, DG_HEADER
<1>6. QED
  BY <1>4, <1>5 DEF BytesInv

LEMMA BytesAppend ==
  ASSUME ControlInv, DataInv, BytesInv, NEW a \in Appenders, AppendSample(a)
  PROVE  BytesInv'
<1> DEFINE node == NodeCreate(sample[a], NodeSize(sample[a]))
           w == [n \in DOMAIN buffered.nodes |-> NodeSize(buffered.nodes[n].data)]
           v == [n \in DOMAIN buffered'.nodes |-> NodeSize(buffered'.nodes[n].data)]
           c == Len(buffered.nodes)
<1>1. /\ sample[a] \in Samples /\ sample[a].len \in Nat /\ NodeSize(sample[a]) \in Nat
  BY SampleTypes
<1>2. /\ buffered.nodes \in Seq(Nodes) /\ buffered.count = c /\ flatBytes \in Nat /\ c \in Nat
  BY DEF DataInv, DataTypeOK, ListInv
<1>3. /\ buffered'.nodes = Append(buffered.nodes, node) /\ node.data = sample[a]
      /\ buffered'.size = buffered.size + NodeSize(sample[a])
      /\ buffered'.count = buffered.count + 1
      /\ ListDrain(buffered') = Append(ListDrain(buffered), sample[a])
  BY AppendDrains DEF NodeCreate
<1>4. w \in Seq(Int) /\ Len(w) = c /\ \A k \in 1..c : w[k] = NodeSize(buffered.nodes[k].data)
  <2>1. \A n \in Nodes : NodeSize(n.data) \in Int
    BY SampleLen, PsizeAssumption DEF NodeSize, Nodes
  <2>2. DOMAIN buffered.nodes = 1..c /\ \A k \in 1..c : buffered.nodes[k] \in Nodes
    BY <1>2
  <2>3. QED
    BY <1>2, <2>1, <2>2
<1>5. v = Append(w, NodeSize(sample[a]))
  <2>1. /\ DOMAIN buffered'.nodes = 1..(c + 1) /\ buffered'.nodes[c + 1] = node
        /\ \A k \in 1..c : buffered'.nodes[k] = buffered.nodes[k]
    BY <1>2, <1>3
  <2> HIDE DEF c, w, node
  <2>2. Append(w, NodeSize(sample[a])) = [k \in 1..(c + 1) |-> Append(w, NodeSize(sample[a]))[k]]
    BY <1>1, <1>4
  <2>3. \A k \in 1..(c + 1) :
          Append(w, NodeSize(sample[a]))[k] = NodeSize(buffered'.nodes[k].data)
    <3> TAKE k \in 1..(c + 1)
    <3>1. CASE k = c + 1
      BY <1>1, <1>3, <1>4, <2>1, <3>1
    <3>2. CASE k # c + 1
      <4>1. k \in 1..c
        BY <1>2, <3>2
      <4>2. Append(w, NodeSize(sample[a]))[k] = w[k]
        BY <1>1, <1>4, <4>1
      <4>3. QED
        BY <1>4, <2>1, <4>1, <4>2
    <3>3. QED
      BY <3>1, <3>2
  <2>4. QED
    BY <2>1, <2>2, <2>3
<1>6. buffered'.size = Total(v)
  <2>1. buffered.size = Total(w)
    BY DEF BytesInv, BytesAccounted
  <2>2. w \in Seq(Int) /\ NodeSize(sample[a]) \in Int
    BY <1>1, <1>4
  <2> HIDE DEF w, v
  <2>3. Total(v) = Total(w) + NodeSize(sample[a])
    BY <1>5, <2>2, TotalAppend
  <2>4. QED
    BY <1>3, <2>1, <2>3
<1>7. flatBytes' = FlatSize(ListDrain(buffered'))
  <2>1. FlatSize(ListDrain(buffered')) = FlatSize(ListDrain(buffered)) + (SP_HEADER + sample[a].len)
    BY <1>1, <1>3, DrainTypes, FlatSizeAppend
  <2>2. flatBytes' = flatBytes + SP_HEADER + sample[a].len
    BY DEF AppendSample
  <2>3. flatBytes = FlatSize(ListDrain(buffered))
    BY DEF BytesInv, BytesAccounted
  <2>4. flatBytes \in Nat /\ sample[a].len \in Nat /\ SP_HEADER \in Nat
    BY <1>1, <1>2 DEF SP_HEADER
  <2>5. flatBytes' = flatBytes + (SP_HEADER + sample[a].len)
    BY <2>2, <2>4
  <2>6. QED
    BY <2>1, <2>3, <2>5
<1>8. buffered'.count = Len(buffered'.nodes)
  BY <1>2, <1>3
<1>9. UNCHANGED <<dg, sent>>
  BY DEF AppendSample, wireVars
<1>10. QED
  BY <1>6, <1>7, <1>8, <1>9 DEF BytesInv, BytesAccounted, FlatSize

\* The list is empty after packing and after its creation.
LEMMA BytesOfNewList ==
  ASSUME buffered' = ListCreate, flatBytes' = 0, sent' = sent, BytesAccounted
  PROVE  BytesAccounted'
<1>1. ListDrain(buffered') = <<>>
  BY EmptyDrain
<1>2. buffered'.nodes = <<>> /\ buffered'.count = 0 /\ buffered'.size = 0
  BY ListCreateTypes
<1>3. [n \in DOMAIN buffered'.nodes |-> NodeSize(buffered'.nodes[n].data)] = <<>>
  BY <1>2
<1>4. FlatSize(ListDrain(buffered')) = 0
  BY <1>1, FlatSizeEmpty
<1>5. QED
  BY <1>2, <1>3, <1>4, TotalEmpty DEF BytesAccounted, FlatSize

LEMMA BytesPack ==
  ASSUME ControlInv, DataInv, BytesInv, NEW t \in Threads, PackDatagram(t)
  PROVE  BytesInv'
<1>1. BytesAccounted'
  BY BytesOfNewList DEF PackDatagram, BytesInv
<1>2. dg' = [dg EXCEPT ![t] = [seq |-> datagramCount, samples |-> ListDrain(buffered),
                              size |-> DG_HEADER_V4 + flatBytes]]
  BY DEF PackDatagram
<1>3. dg \in [Threads -> Datagrams]
  BY DEF DataInv, DataTypeOK
<1>4. ASSUME NEW u \in Threads PROVE dg'[u].size = DG_HEADER_V4 + FlatSize(dg'[u].samples)
  <2>1. CASE u = t
    BY <1>2, <1>3, <2>1 DEF BytesInv, BytesAccounted
  <2>2. CASE u # t
    BY <1>2, <1>3, <2>2 DEF BytesInv
  <2>3. QED
    BY <2>1, <2>2
<1>5. QED
  BY <1>1, <1>4 DEF BytesInv, FlatSize

LEMMA BytesSend ==
  ASSUME ControlInv, DataInv, BytesInv, NEW t \in Threads, SendTo(t)
  PROVE  BytesInv'
<1>1. /\ sent' = Append(sent, dg[t]) /\ dg' = [dg EXCEPT ![t] = EmptyDatagram]
      /\ UNCHANGED <<buffered, flatBytes>>
  BY DEF SendTo, listVars
<1>2. dg \in [Threads -> Datagrams] /\ sent \in Seq(Datagrams)
  BY DEF DataInv, DataTypeOK
<1>3. ASSUME NEW i \in DOMAIN sent'
      PROVE  sent'[i].size = DG_HEADER_V4 + FlatSize(sent'[i].samples)
  <2>1. i \in 1..(Len(sent) + 1) /\ DOMAIN sent = 1..Len(sent)
    BY <1>1, <1>2, <1>3
  <2>2. CASE i = Len(sent) + 1
    <3>1. sent'[i] = dg[t]
      BY <1>1, <1>2, <2>2
    <3>2. QED
      BY <3>1 DEF BytesInv
  <2>3. CASE i # Len(sent) + 1
    <3>1. i \in DOMAIN sent /\ sent'[i] = sent[i]
      BY <1>1, <1>2, <2>1, <2>3
    <3>2. QED
      BY <3>1 DEF BytesInv, BytesAccounted
  <2>4. QED
    BY <2>2, <2>3
<1>4. BytesAccounted'
  BY <1>1, <1>3 DEF BytesInv, BytesAccounted, FlatSize, ListDrain
<1>5. ASSUME NEW u \in Threads PROVE dg'[u].size = DG_HEADER_V4 + FlatSize(dg'[u].samples)
  <2>1. CASE u = t
    BY <1>1, <1>2, <2>1, FlatSizeEmpty DEF EmptyDatagram, DG_HEADER_V4, DG_HEADER
  <2>2. CASE u # t
    BY <1>1, <1>2, <2>2 DEF BytesInv
  <2>3. QED
    BY <2>1, <2>2
<1>6. QED
  BY <1>4, <1>5 DEF BytesInv, FlatSize

LEMMA BytesNext == IInv /\ BytesInv /\ [Next]_vars => BytesInv'
<1> SUFFICES ASSUME ControlInv, DataInv, BytesInv, [Next]_vars PROVE BytesInv'
  BY DEF IInv
<1>1. ASSUME UNCHANGED <<buffered, flatBytes, dg, sent>> PROVE BytesInv'
  BY <1>1 DEF BytesInv, BytesAccounted, FlatSize, ListDrain
<1>2. ASSUME NEW t \in Threads, CreateList(t) PROVE BytesInv'
  <2>1. BytesAccounted' /\ dg' = dg
    BY <1>2, BytesOfNewList DEF CreateList, wireVars, BytesInv
  <2>2. QED
    BY <2>1 DEF BytesInv, FlatSize
<1>3. QED
  BY <1>1, <1>2, BytesAppend, BytesPack, BytesSend, DataSteps

\* The counted list's sums and the sizes of the datagrams are those of the samples
\* they hold, for any number of samples.
THEOREM BytesAccountedHolds == Spec => []BytesAccounted
<1>1. Init => BytesInv
  BY BytesInit
<1>2. IInv /\ BytesInv /\ [Next]_vars => BytesInv'
  BY BytesNext
<1>3. BytesInv => BytesAccounted
  BY DEF BytesInv
<1>4. QED
  BY <1>1, <1>2, <1>3, Invariance, PTL DEF Spec
--------------------------------------------------------------------------------
(***************************************************************************)
(* Every source's samples are in one place each, and in order.             *)
(***************************************************************************)

\* Wires puts the datagrams' samples one after the other.
LEMMA WiresAre ==
  ASSUME NEW ds \in Seq(Datagrams)
  PROVE  /\ Wires(ds) \in [0..Len(ds) -> Seq(Samples)]
         /\ Wires(ds)[0] = <<>>
         /\ \A d \in 1..Len(ds) : Wires(ds)[d] = Wires(ds)[d - 1] \o ds[d].samples
<1> DEFINE n == Len(ds)
           step == [p \in (1..n) \X Seq(Samples) |-> p[2] \o ds[p[1]].samples]
<1>1. n \in Nat /\ \A d \in 1..n : ds[d].samples \in Seq(Samples)
  <2>1. \A d \in 1..n : ds[d] \in Datagrams
    OBVIOUS
  <2>2. \A d \in Datagrams : d.samples \in Seq(Samples)
    BY DEF Datagrams
  <2>3. QED
    BY <2>1, <2>2
<1>2. \A d \in 1..n, v \in Seq(Samples) :
        step[<<d, v>>] = v \o ds[d].samples /\ step[<<d, v>>] \in Seq(Samples)
  <2>1. \A u, v \in Seq(Samples) : u \o v \in Seq(Samples)
    BY ConcatProperties
  <2>2. \A d \in 1..n, v \in Seq(Samples) : step[<<d, v>>] = v \o ds[d].samples
    OBVIOUS
  <2> HIDE DEF n, step
  <2>3. ASSUME NEW d \in 1..n, NEW v \in Seq(Samples) PROVE v \o ds[d].samples \in Seq(Samples)
    BY <1>1, <2>1
  <2>4. QED
    BY <2>2, <2>3, Zenon
<1> HIDE DEF n, step
<1>3. PICK f : Recurs(f, Seq(Samples), n, <<>>, step)
  <2>1. StepsWithin(Seq(Samples), n, step)
    BY <1>2, Zenon DEF StepsWithin
  <2>2. <<>> \in Seq(Samples)
    OBVIOUS
  <2>3. QED
    BY <1>1, <2>1, <2>2, Recursion
<1>4. /\ f \in [0..n -> Seq(Samples)] /\ f[0] = <<>>
      /\ \A d \in 1..n : f[d] = f[d - 1] \o ds[d].samples
  <2>1. /\ f \in [0..n -> Seq(Samples)] /\ f[0] = <<>>
        /\ \A d \in 1..n : f[d] = step[<<d, f[d - 1]>>]
    BY <1>3 DEF Recurs
  <2>2. \A d \in 1..n : f[d - 1] \in Seq(Samples)
    BY <1>1, <2>1
  <2>3. QED
    BY <1>2, <2>1, <2>2
<1>5. f = [d \in 0..n |-> IF d = 0 THEN <<>> ELSE f[d - 1] \o ds[d].samples]
  <2>1. \A d \in 0..n : f[d] = IF d = 0 THEN <<>> ELSE f[d - 1] \o ds[d].samples
    <3>1. \A d \in 0..n : d # 0 => d \in 1..n
      BY <1>1
    <3>2. QED
      BY <1>4, <3>1, Zenon
  <2>2. f = [d \in 0..n |-> f[d]]
    BY <1>4
  <2>3. QED
    BY <2>1, <2>2
<1>6. Wires(ds) = CHOOSE g : g = [d \in 0..n |-> IF d = 0 THEN <<>> ELSE g[d - 1] \o ds[d].samples]
  BY DEF Wires, n
<1>7. Wires(ds) = [d \in 0..n |-> IF d = 0 THEN <<>> ELSE Wires(ds)[d - 1] \o ds[d].samples]
  BY <1>5, <1>6, Zenon
<1>8. /\ Wires(ds)[0] = <<>>
      /\ \A d \in 1..n : Wires(ds)[d] = Wires(ds)[d - 1] \o ds[d].samples
  <2>1. 0 \in 0..n /\ \A d \in 1..n : d \in 0..n /\ d # 0
    BY <1>1
  <2>2. QED
    BY <1>7, <2>1
<1>9. \A d \in 0..n : Wires(ds)[d] = f[d]
  <2>1. StaysAlike(Wires(ds), f, n)
    BY <1>4, <1>8 DEF StaysAlike
  <2>2. Wires(ds)[0] = f[0]
    BY <1>4, <1>8
  <2>3. Alike(Wires(ds), f, n)
    BY <1>1, <2>1, <2>2, RecursionAgrees
  <2>4. QED
    BY <2>3 DEF Alike
<1>10. Wires(ds) \in [0..n -> Seq(Samples)]
  BY <1>4, <1>7, <1>9
<1>11. QED
  BY <1>8, <1>10 DEF n

LEMMA WireEmpty == Wire(<<>>) = <<>>
<1>1. <<>> \in Seq(Datagrams) /\ Len(<<>>) = 0
  OBVIOUS
<1>2. QED
  BY <1>1, WiresAre DEF Wire

\* A datagram more continues the wire.
LEMMA WireAppend ==
  ASSUME NEW ds \in Seq(Datagrams), NEW d \in Datagrams
  PROVE  /\ Wire(ds) \in Seq(Samples)
         /\ Wire(Append(ds, d)) = Wire(ds) \o d.samples
<1>1. PICK es : es = Append(ds, d)
  OBVIOUS
<1>2. PICK n \in Nat : n = Len(ds)
  OBVIOUS
<1>3. /\ es \in Seq(Datagrams) /\ Len(es) = n + 1
      /\ es[n + 1] = d /\ \A k \in 1..n : es[k] = ds[k]
  BY <1>1, <1>2
<1>4. PICK f, g : f = Wires(es) /\ g = Wires(ds)
  OBVIOUS
<1>5. /\ f[0] = <<>> /\ \A k \in 1..(n + 1) : f[k] = f[k - 1] \o es[k].samples
      /\ g[0] = <<>> /\ \A k \in 1..n : g[k] = g[k - 1] \o ds[k].samples
      /\ g \in [0..n -> Seq(Samples)]
  BY <1>2, <1>3, <1>4, WiresAre
<1>6. \A k \in 0..n : f[k] = g[k]
  <2>1. f[0] = g[0]
    BY <1>5
  <2>2. \A k \in 1..n : k \in 1..(n + 1)
    OBVIOUS
  <2>3. StaysAlike(f, g, n)
    BY <1>3, <1>5, <2>2 DEF StaysAlike
  <2>4. Alike(f, g, n)
    BY <2>1, <2>3, RecursionAgrees
  <2>5. QED
    BY <2>4 DEF Alike
<1>7. n \in 0..n /\ n + 1 \in 1..(n + 1) /\ (n + 1) - 1 = n
  OBVIOUS
<1>8. f[n + 1] = g[n] \o d.samples
  BY <1>3, <1>5, <1>6, <1>7
<1>9. QED
  BY <1>1, <1>2, <1>3, <1>4, <1>5, <1>7, <1>8 DEF Wire

\* Ids picks the numbers of one source's samples.
LEMMA IdsAre ==
  ASSUME NEW a, NEW seq \in Seq(Samples)
  PROVE  /\ Ids(a, seq) \in [0..Len(seq) -> Seq(Int)]
         /\ Ids(a, seq)[0] = <<>>
         /\ \A k \in 1..Len(seq) :
              Ids(a, seq)[k] = IF seq[k].by = a THEN Append(Ids(a, seq)[k - 1], seq[k].id)
                               ELSE Ids(a, seq)[k - 1]
<1> DEFINE n == Len(seq)
           next(k, v) == IF seq[k].by = a THEN Append(v, seq[k].id) ELSE v
           step == [p \in (1..n) \X Seq(Int) |-> next(p[1], p[2])]
<1>1. n \in Nat /\ \A k \in 1..n : seq[k].id \in Int
  <2>1. \A k \in 1..n : seq[k] \in Samples
    OBVIOUS
  <2>2. \A x \in Samples : x.id \in Int
    BY MaxSamplesAssumption DEF Samples
  <2>3. QED
    BY <2>1, <2>2
<1>2. \A k \in 1..n, v \in Seq(Int) :
        step[<<k, v>>] = next(k, v) /\ step[<<k, v>>] \in Seq(Int)
  BY <1>1
<1> HIDE DEF n, step, next
<1>3. PICK f : Recurs(f, Seq(Int), n, <<>>, step)
  <2>1. StepsWithin(Seq(Int), n, step)
    BY <1>2, Zenon DEF StepsWithin
  <2>2. <<>> \in Seq(Int)
    OBVIOUS
  <2>3. QED
    BY <1>1, <2>1, <2>2, Recursion
<1>4. /\ f \in [0..n -> Seq(Int)] /\ f[0] = <<>>
      /\ \A k \in 1..n : f[k] = next(k, f[k - 1])
  <2>1. /\ f \in [0..n -> Seq(Int)] /\ f[0] = <<>>
        /\ \A k \in 1..n : f[k] = step[<<k, f[k - 1]>>]
    BY <1>3 DEF Recurs
  <2>2. \A k \in 1..n : f[k - 1] \in Seq(Int)
    BY <1>1, <2>1
  <2>3. QED
    BY <1>2, <2>1, <2>2
<1>5. f = [k \in 0..n |-> IF k = 0 THEN <<>> ELSE next(k, f[k - 1])]
  BY <1>1, <1>4
<1>6. Ids(a, seq) = CHOOSE g : g = [k \in 0..n |-> IF k = 0 THEN <<>> ELSE next(k, g[k - 1])]
  BY DEF Ids, n, next
<1>7. Ids(a, seq) = [k \in 0..n |-> IF k = 0 THEN <<>> ELSE next(k, Ids(a, seq)[k - 1])]
  BY <1>5, <1>6
<1>8. /\ Ids(a, seq)[0] = <<>>
      /\ \A k \in 1..n : Ids(a, seq)[k] = next(k, Ids(a, seq)[k - 1])
  <2>1. 0 \in 0..n /\ \A k \in 1..n : k \in 0..n /\ k # 0
    BY <1>1
  <2>2. QED
    BY <1>7, <2>1
<1>9. \A k \in 0..n : Ids(a, seq)[k] = f[k]
  <2>1. StaysAlike(Ids(a, seq), f, n)
    BY <1>4, <1>8 DEF StaysAlike
  <2>2. Ids(a, seq)[0] = f[0]
    BY <1>4, <1>8
  <2>3. Alike(Ids(a, seq), f, n)
    BY <1>1, <2>1, <2>2, RecursionAgrees
  <2>4. QED
    BY <2>3 DEF Alike
<1>10. Ids(a, seq) \in [0..n -> Seq(Int)]
  BY <1>4, <1>7, <1>9
<1>11. QED
  BY <1>8, <1>10 DEF n, next

LEMMA IdsEmpty == \A a : IdsOf(a, <<>>) = <<>>
<1>1. <<>> \in Seq(Samples) /\ Len(<<>>) = 0
  OBVIOUS
<1>2. QED
  BY <1>1, IdsAre DEF IdsOf

\* A sample more adds its number, if it is the source's.
LEMMA IdsAppend ==
  ASSUME NEW a, NEW seq \in Seq(Samples), NEW s \in Samples
  PROVE  IdsOf(a, Append(seq, s))
           = IF s.by = a THEN Append(IdsOf(a, seq), s.id) ELSE IdsOf(a, seq)
<1>1. PICK es : es = Append(seq, s)
  OBVIOUS
<1>2. PICK n \in Nat : n = Len(seq)
  OBVIOUS
<1>3. /\ es \in Seq(Samples) /\ Len(es) = n + 1
      /\ es[n + 1] = s /\ \A k \in 1..n : es[k] = seq[k]
  BY <1>1, <1>2
<1>4. PICK f, g : f = Ids(a, es) /\ g = Ids(a, seq)
  OBVIOUS
<1>5. /\ f[0] = <<>>
      /\ \A k \in 1..(n + 1) :
           f[k] = IF es[k].by = a THEN Append(f[k - 1], es[k].id) ELSE f[k - 1]
      /\ g[0] = <<>>
      /\ \A k \in 1..n :
           g[k] = IF seq[k].by = a THEN Append(g[k - 1], seq[k].id) ELSE g[k - 1]
  <2>1. /\ f[0] = <<>>
        /\ \A k \in 1..Len(es) :
             f[k] = IF es[k].by = a THEN Append(f[k - 1], es[k].id) ELSE f[k - 1]
    <3>1. es \in Seq(Samples)
      BY <1>3
    <3>2. /\ Ids(a, es)[0] = <<>>
          /\ \A k \in 1..Len(es) :
               Ids(a, es)[k] = IF es[k].by = a THEN Append(Ids(a, es)[k - 1], es[k].id)
                               ELSE Ids(a, es)[k - 1]
      BY <3>1, IdsAre
    <3>3. QED
      BY <1>4, <3>2
  <2>2. /\ g[0] = <<>>
        /\ \A k \in 1..Len(seq) :
             g[k] = IF seq[k].by = a THEN Append(g[k - 1], seq[k].id) ELSE g[k - 1]
    BY <1>4, IdsAre
  <2>3. QED
    BY <1>2, <1>3, <2>1, <2>2
<1>6. \A k \in 0..n : f[k] = g[k]
  <2>1. f[0] = g[0]
    BY <1>5
  <2>2. \A k \in 1..n : k \in 1..(n + 1)
    OBVIOUS
  <2>3. StaysAlike(f, g, n)
    BY <1>3, <1>5, <2>2 DEF StaysAlike
  <2>4. Alike(f, g, n)
    BY <2>1, <2>3, RecursionAgrees
  <2>5. QED
    BY <2>4 DEF Alike
<1>7. n \in 0..n /\ n + 1 \in 1..(n + 1) /\ (n + 1) - 1 = n
  OBVIOUS
<1>8. f[n + 1] = IF s.by = a THEN Append(g[n], s.id) ELSE g[n]
  BY <1>3, <1>5, <1>6, <1>7
<1>9. QED
  BY <1>1, <1>2, <1>3, <1>4, <1>8 DEF IdsOf

\* A thread inside the sender carries a sample that it has numbered.
NumberedInv ==
  \A a \in Appenders :
    /\ sample[a].by = a
    /\ pc[a] \notin {"idle", "unlock"} => sample[a].id >= 1

LEMMA NumberedInit == Init => NumberedInv
BY DEF Init, NumberedInv

\* A step that keeps the samples and does not end an append takes none.
LEMMA GotoTakesNone ==
  ASSUME ControlInv, NumberedInv, NEW t \in Threads, NEW from, NEW to, Goto(t, from, to),
         sample' = sample,
         t \in Appenders => (from \in {"idle", "unlock"} <=> to \in {"idle", "unlock"})
  PROVE  NumberedInv' /\ \A a \in Appenders : Taken(a)' = Taken(a)
<1>1. ASSUME NEW a \in Appenders
      PROVE  pc'[a] \in {"idle", "unlock"} <=> pc[a] \in {"idle", "unlock"}
  BY DEF ControlInv, ControlTypeOK, Goto
<1>2. QED
  BY <1>1 DEF NumberedInv, Taken

LEMMA NumberedNext ==
  ASSUME ControlInv, NumberedInv, [Next]_vars
  PROVE  /\ NumberedInv'
         /\ \A a \in Appenders : AppendSample(a) \/ Taken(a)' = Taken(a)
<1> DEFINE Good == /\ NumberedInv'
                   /\ \A a \in Appenders : AppendSample(a) \/ Taken(a)' = Taken(a)
<1>1. ASSUME NEW a \in Appenders, TryIndicator(a) PROVE Good
  <2>1. /\ pc[a] = "idle" /\ pc'[a] \notin {"idle", "unlock"}
        /\ \A b \in Appenders : b # a => pc'[b] = pc[b]
    BY <1>1 DEF TryIndicator, Goto, ControlInv, ControlTypeOK
  <2>2. /\ sample'[a].id = sample[a].id + 1 /\ sample'[a].by = a
        /\ \A b \in Appenders : b # a => sample'[b] = sample[b]
    BY <1>1 DEF TryIndicator, ControlInv, ControlTypeOK
  <2>3. sample[a].id \in Nat
    <3>1. sample[a] \in Samples
      BY DEF ControlInv, ControlTypeOK
    <3>2. QED
      BY <3>1, MaxSamplesAssumption DEF Samples
  <2>4. ASSUME NEW b \in Appenders
        PROVE  /\ sample'[b].by = b
               /\ pc'[b] \notin {"idle", "unlock"} => sample'[b].id >= 1
               /\ Taken(b)' = Taken(b)
    <3>1. CASE b = a
      BY <2>1, <2>2, <2>3, <3>1 DEF Taken
    <3>2. CASE b # a
      BY <2>1, <2>2, <3>2 DEF Taken, NumberedInv
    <3>3. QED
      BY <3>1, <3>2
  <2>5. QED
    BY <2>4 DEF NumberedInv
<1>2. ASSUME NEW a \in Appenders, AppendSample(a) PROVE Good
  <2>1. /\ sample' = sample /\ pc'[a] = "unlock"
        /\ \A b \in Appenders : b # a => pc'[b] = pc[b]
    BY <1>2 DEF AppendSample, Goto, ControlInv, ControlTypeOK
  <2>2. NumberedInv'
    BY <2>1 DEF NumberedInv
  <2>3. ASSUME NEW b \in Appenders PROVE AppendSample(b) \/ Taken(b)' = Taken(b)
    <3>1. CASE b = a
      BY <1>2, <3>1
    <3>2. CASE b # a
      BY <2>1, <3>2 DEF Taken
    <3>3. QED
      BY <3>1, <3>2
  <2>4. QED
    BY <2>2, <2>3
<1>3. ASSUME NEW a \in Appenders,
             \/ StartAlarm(a) \/ CheckOverflow(a) \/ CancelAlarm(a)
             \/ RetryIndicator(a) \/ RestartAlarm(a)
      PROVE  Good
  <2> HIDE DEF Good
  <2>1. SUFFICES NumberedInv' /\ \A b \in Appenders : Taken(b)' = Taken(b)
    BY DEF Good
  <2>2. CASE StartAlarm(a)      BY <2>2, GotoTakesNone DEF StartAlarm
  <2>3. CASE CheckOverflow(a)   BY <2>3, GotoTakesNone DEF CheckOverflow
  <2>4. CASE CancelAlarm(a)     BY <2>4, GotoTakesNone DEF CancelAlarm
  <2>5. CASE RetryIndicator(a)  BY <2>5, GotoTakesNone DEF RetryIndicator
  <2>6. CASE RestartAlarm(a)    BY <2>6, GotoTakesNone DEF RestartAlarm
  <2>7. QED BY <1>3, <2>2, <2>3, <2>4, <2>5, <2>6
<1>4. ASSUME NEW t \in Threads,
             \/ Lock(t) \/ UnlockIndicator(t) \/ PackDatagram(t) \/ SendTo(t)
             \/ CreateList(t) \/ Unlock(t)
      PROVE  Good
  <2> HIDE DEF Good
  <2>1. SUFFICES NumberedInv' /\ \A b \in Appenders : Taken(b)' = Taken(b)
    BY DEF Good
  <2>2. t \in Appenders => t # Handler
    BY ThreadsAssumption
  <2>3. CASE Lock(t)            BY <2>2, <2>3, GotoTakesNone DEF Lock
  <2>4. CASE UnlockIndicator(t) BY <2>4, GotoTakesNone DEF UnlockIndicator
  <2>5. CASE PackDatagram(t)    BY <2>5, GotoTakesNone DEF PackDatagram
  <2>6. CASE SendTo(t)          BY <2>6, GotoTakesNone DEF SendTo
  <2>7. CASE CreateList(t)      BY <2>2, <2>7, GotoTakesNone DEF CreateList
  <2>8. CASE Unlock(t)          BY <2>8, GotoTakesNone DEF Unlock
  <2>9. QED BY <1>4, <2>3, <2>4, <2>5, <2>6, <2>7, <2>8
<1>5. ASSUME SigWait PROVE Good
  BY <1>5, GotoTakesNone, ThreadsAssumption DEF SigWait
<1>6. ASSUME Expire \/ UNCHANGED vars PROVE Good
  BY <1>6 DEF Expire, vars, NumberedInv, Taken
<1>7. QED
  <2> HIDE DEF Good
  <2>1. Good
    BY <1>1, <1>2, <1>3, <1>4, <1>5, <1>6 DEF Next, AppendStep, HandlerStep, SendStep
  <2>2. QED
    BY <2>1 DEF Good

\* What is pending is a sequence of samples.
LEMMA PendingTypes ==
  ASSUME IInv
  PROVE  PendingSamples \in Seq(Samples) /\ Wire(sent) \in Seq(Samples)
<1>1. ControlInv /\ DataInv /\ dg \in [Threads -> Datagrams] /\ sent \in Seq(Datagrams)
  BY DEF IInv, DataInv, DataTypeOK
<1>2. InFlight => dg[mtx].samples \in Seq(Samples)
  BY <1>1, InFlightThread DEF Datagrams
<1>3. PendingSamples \in Seq(Samples)
  BY <1>1, <1>2, DrainTypes DEF PendingSamples
<1>4. Wire(sent) \in Seq(Samples)
  <2>1. Len(sent) \in 0..Len(sent)
    BY <1>1
  <2>2. QED
    BY <1>1, <2>1, WiresAre DEF Wire
<1>5. QED
  BY <1>3, <1>4

\* Sending moves the pending samples to the end of the wire.
LEMMA SendToStream ==
  ASSUME IInv, IInv', NEW t \in Threads, SendTo(t)
  PROVE  (Wire(sent) \o PendingSamples)' = Wire(sent) \o PendingSamples
<1>1. ControlInv /\ ControlInv' /\ DataInv /\ dg[t] \in Datagrams /\ sent \in Seq(Datagrams)
  BY DEF IInv, DataInv, DataTypeOK
<1>2. pc[t] = "sendto" /\ mtx = t /\ pc'[t] = "create" /\ mtx' = t /\ t # NoThread
  BY <1>1, ThreadsAssumption
  DEF SendTo, Goto, ControlInv, ControlTypeOK, MutexInv, Critical
<1>3. PendingSamples = dg[t].samples
  BY <1>2 DEF PendingSamples, InFlight
<1>4. PendingSamples' = <<>>
  <2>1. buffered' = ListCreate
    BY <1>1, <1>2 DEF DataInv, ListInv, SendTo, listVars
  <2>2. QED
    BY <1>2, <2>1, EmptyDrain DEF PendingSamples, InFlight, ListDrain
<1>5. Wire(sent)' = Wire(sent) \o PendingSamples
  <2>1. sent' = Append(sent, dg[t])
    BY DEF SendTo
  <2>2. Wire(Append(sent, dg[t])) = Wire(sent) \o dg[t].samples
    BY <1>1, WireAppend
  <2>3. Wire(sent)' = Wire(sent')
    BY DEF Wire, Wires
  <2>4. QED
    BY <1>3, <2>1, <2>2, <2>3
<1>6. Wire(sent)' \o <<>> = Wire(sent)'
  BY PendingTypes, <1>5, ConcatProperties, ConcatEmptySeq
<1>7. QED
  BY <1>4, <1>5, <1>6

\* Appending puts the sample at the end of the stream.
LEMMA AppendStream ==
  ASSUME IInv, IInv', NEW a \in Appenders, AppendSample(a)
  PROVE  (Wire(sent) \o PendingSamples)' = Append(Wire(sent) \o PendingSamples, sample[a])
<1>1. ControlInv /\ ControlInv' /\ DataInv /\ sample[a] \in Samples
  BY SampleTypes DEF IInv
<1>2. pc[a] = "append" /\ mtx = a /\ pc'[a] = "unlock" /\ mtx' = a
  BY <1>1 DEF AppendSample, Goto, ControlInv, ControlTypeOK, MutexInv, Critical
<1>3. PendingSamples' = Append(PendingSamples, sample[a])
  <2>1. PendingSamples = ListDrain(buffered) /\ PendingSamples' = ListDrain(buffered')
    BY <1>2 DEF PendingSamples, InFlight, ListDrain
  <2>2. QED
    BY <1>1, <2>1, AppendDrains
<1>4. Wire(sent)' = Wire(sent)
  BY DEF AppendSample, wireVars, Wire, Wires
<1>5. PICK w, q : w = Wire(sent) /\ q = PendingSamples /\ w \in Seq(Samples) /\ q \in Seq(Samples)
  BY PendingTypes
<1>6. w \o Append(q, sample[a]) = Append(w \o q, sample[a])
  <2>1. Append(q, sample[a]) = q \o <<sample[a]>> /\ <<sample[a]>> \in Seq(Samples)
    BY <1>1, <1>5, AppendIsConcat
  <2>2. w \o q \in Seq(Samples)
    BY <1>5, ConcatProperties
  <2>3. Append(w \o q, sample[a]) = (w \o q) \o <<sample[a]>>
    BY <1>1, <2>2, AppendIsConcat
  <2>4. (w \o q) \o <<sample[a]>> = w \o (q \o <<sample[a]>>)
    BY <1>5, <2>1, ConcatAssociative
  <2>5. QED
    BY <2>1, <2>3, <2>4
<1>7. QED
  BY <1>3, <1>4, <1>5, <1>6

LEMMA FifoNext ==
  ASSUME IInv, IInv', NumberedInv, PerSourceFifo, [Next]_vars
  PROVE  PerSourceFifo'
<1> DEFINE Stream == Wire(sent) \o PendingSamples
<1>1. Stream \in Seq(Samples)
  BY PendingTypes, ConcatProperties
<1>2. ControlInv
  BY DEF IInv
<1>3. \A a \in Appenders : IdsOf(a, Stream) = [i \in 1..Taken(a) |-> i]
  BY DEF PerSourceFifo
<1>4. ASSUME Stream' = Stream, \A a \in Appenders : Taken(a)' = Taken(a)
      PROVE  PerSourceFifo'
  <2>1. \A a \in Appenders : IdsOf(a, Stream') = [i \in 1..Taken(a)' |-> i]
    BY <1>3, <1>4
  <2> HIDE DEF Stream
  <2>2. \A a \in Appenders : IdsOf(a, Stream)' = [i \in 1..Taken(a)' |-> i]
    <3>1. \A a \in Appenders : IdsOf(a, Stream)' = IdsOf(a, Stream')
      BY DEF IdsOf, Ids
    <3>2. QED
      BY <2>1, <3>1
  <2>3. QED
    BY <2>2 DEF Stream, PerSourceFifo
<1>5. ASSUME NEW a \in Appenders, AppendSample(a) PROVE PerSourceFifo'
  <2>1. Stream' = Append(Stream, sample[a]) /\ sample[a] \in Samples /\ sample[a].by = a
    BY <1>2, <1>5, AppendStream, SampleTypes DEF NumberedInv
  <2>2. /\ pc[a] = "append" /\ pc'[a] = "unlock" /\ sample' = sample
        /\ \A b \in Appenders : b # a => pc'[b] = pc[b]
    BY <1>2, <1>5 DEF AppendSample, Goto, ControlInv, ControlTypeOK
  <2>3. sample[a].id \in Int /\ sample[a].id >= 1
    BY <2>1, <2>2, MaxSamplesAssumption DEF NumberedInv, Samples
  <2> HIDE DEF Stream
  <2>4. ASSUME NEW b \in Appenders PROVE IdsOf(b, Stream') = [i \in 1..Taken(b)' |-> i]
    <3>1. IdsOf(b, Stream') = IF sample[a].by = b THEN Append(IdsOf(b, Stream), sample[a].id)
                              ELSE IdsOf(b, Stream)
      BY <1>1, <2>1, IdsAppend
    <3>2. CASE b # a
      <4>1. Taken(b)' = Taken(b)
        BY <2>2, <3>2 DEF Taken
      <4>2. QED
        BY <1>3, <2>1, <3>1, <3>2, <4>1
    <3>3. CASE b = a
      <4>1. PICK m \in Nat : m = sample[a].id - 1
        BY <2>3
      <4>2. Taken(b) = m /\ Taken(b)' = m + 1 /\ sample[a].id = m + 1
        BY <2>2, <2>3, <3>3, <4>1 DEF Taken
      <4>3. Append([i \in 1..m |-> i], m + 1) = [i \in 1..(m + 1) |-> i]
        <5>1. [i \in 1..m |-> i] \in Seq(Int) /\ Len([i \in 1..m |-> i]) = m
          OBVIOUS
        <5>2. QED
          BY <5>1
      <4>4. QED
        BY <1>3, <2>1, <3>1, <3>3, <4>2, <4>3
    <3>4. QED
      BY <3>2, <3>3
  <2>5. \A b \in Appenders : IdsOf(b, Stream)' = [i \in 1..Taken(b)' |-> i]
    <3>1. \A b \in Appenders : IdsOf(b, Stream)' = IdsOf(b, Stream')
      BY DEF IdsOf, Ids
    <3>2. QED
      BY <2>4, <3>1
  <2>6. QED
    BY <2>5 DEF Stream, PerSourceFifo
<1>6. CASE \A a \in Appenders : ~AppendSample(a)
  <2>1. \A a \in Appenders : Taken(a)' = Taken(a)
    BY <1>2, <1>6, NumberedNext
  <2>2. Stream' = Stream
    <3>1. CASE UNCHANGED <<PendingSamples, PendingBytes, sent>>
      BY <3>1 DEF Wire, Wires
    <3>2. CASE \E t \in Threads : SendTo(t)
      BY <3>2, SendToStream
    <3>3. QED
      BY <1>6, <3>1, <3>2, StepKinds
  <2>3. QED
    BY <1>4, <2>1, <2>2
<1>7. QED
  BY <1>5, <1>6

\* What a source has appended is on the wire, in flight or in the buffer, once each
\* and in the order in which it was made, whatever the number of sources and samples.
THEOREM PerSourceFifoHolds == Spec => []PerSourceFifo
<1>1. Init => NumberedInv /\ PerSourceFifo
  <2> SUFFICES ASSUME Init PROVE PerSourceFifo
    BY NumberedInit
  <2>1. PendingSamples = <<>> /\ sent = <<>>
    BY EmptyDrain DEF Init, PendingSamples, InFlight
  <2>2. <<>> \o <<>> = <<>>
    BY ConcatEmptySeq
  <2>3. \A a \in Appenders : Taken(a) = 0
    BY DEF Init, Taken
  <2>4. [i \in 1..0 |-> i] = <<>>
    OBVIOUS
  <2>5. Wire(sent) \o PendingSamples = <<>>
    BY <2>1, <2>2, WireEmpty
  <2>6. QED
    BY <2>3, <2>4, <2>5, IdsEmpty DEF PerSourceFifo
<1>2. IInv /\ IInv' /\ NumberedInv /\ PerSourceFifo /\ [Next]_vars
        => (NumberedInv /\ PerSourceFifo)'
  BY NumberedNext, FifoNext DEF IInv
<1>3. QED
  BY <1>1, <1>2, Invariance, PTL DEF Spec
================================================================================
