-------------------------- MODULE SflowDatagram_proofs --------------------------
(***************************************************************************)
(* Proofs about SflowDatagram, for datagrams of any number of samples and  *)
(* hosts of any number of links: what the packers' lengths promise is what *)
(* the flat functions write, and the length words lead through it.         *)
(***************************************************************************)
EXTENDS SflowDatagram, SequenceTotals_proofs, SequenceTheorems

(***************************************************************************)
(* What the packers build.                                                 *)
(***************************************************************************)

Leaves == [fmt : DOMAIN Fields \cup {"raw", "host_adapters"}, n : Nat, pkt : Nat]
Records == {Record(leaf) : leaf \in Leaves}

BuiltSamples ==
  {s \in [type : {"flow", "counter"}, slots : Seq(Records), len : Nat] :
     s.slots # <<>> /\ s.len = DataHeader[s.type] + SumLens(s.slots)}

LEMMA FieldsTypes == \A f \in DOMAIN Fields : Fields[f] \in Nat
<1>1. /\ Aligned(28) \in Nat /\ Aligned(12) \in Nat
      /\ Aligned(16) \in Nat /\ Aligned(Aligned(20) + 20) \in Nat
  <2>1. CASE PSIZE = 4
    BY <2>1 DEF Aligned
  <2>2. CASE PSIZE = 8
    BY <2>2 DEF Aligned
  <2>3. QED
    BY <2>1, <2>2, PsizeAssumption
<1>2. QED
  BY <1>1 DEF Fields

LEMMA CropType == \A n \in Nat : Crop(n) \in Nat
BY DEF Crop

\* A record's length is noted as a natural, and is what its leaf will write.
LEMMA RecordTypes ==
  \A rec \in Records : rec.len \in Nat /\ rec.leaf \in Leaves /\ rec.len = LeafBytes(rec.leaf)
<1> SUFFICES ASSUME NEW leaf \in Leaves
             PROVE  /\ Record(leaf).len \in Nat /\ Record(leaf).leaf \in Leaves
                    /\ Record(leaf).len = LeafBytes(Record(leaf).leaf)
  BY DEF Records
<1>1. Record(leaf).leaf = leaf /\ Record(leaf).len = RecordLen(leaf)
  BY DEF Record
<1>2. RecordLen(leaf) = LeafBytes(leaf)
  BY DEF RecordLen, LeafBytes
<1>3. RecordLen(leaf) \in Nat
  <2>1. CASE leaf.fmt = "raw"
    <3>1. RecordLen(leaf) = RAW_HEADER + Crop(leaf.n) /\ leaf.n \in Nat
      BY <2>1 DEF RecordLen, Leaves
    <3>2. QED
      BY <3>1, CropType DEF RAW_HEADER
  <2>2. CASE leaf.fmt = "host_adapters"
    BY <2>2 DEF RecordLen, HasLen, Leaves
  <2>3. CASE leaf.fmt \notin {"raw", "host_adapters"}
    <3>1. leaf.fmt \in DOMAIN Fields /\ RecordLen(leaf) = Fields[leaf.fmt]
      BY <2>3 DEF RecordLen, Leaves
    <3>2. QED
      BY <3>1, FieldsTypes
  <2>4. QED
    BY <2>1, <2>2, <2>3
<1>4. QED
  BY <1>1, <1>2, <1>3

\* Appending the records one by one, and draining the list, gives them in order.
LEMMA RecordListIs ==
  ASSUME NEW leaves \in Seq(Leaves)
  PROVE  /\ RecordList(leaves).count = Len(leaves)
         /\ \A k \in 1..Len(leaves) : RecordList(leaves).nodes[k].data = Record(leaves[k])
<1> DEFINE n == Len(leaves)
           node(k) == NodeCreate(Record(leaves[k]), CHECK_DATA)
           grown(k) == [nodes |-> [m \in 1..k |-> node(m)], count |-> k,
                        size |-> IF k = 0 THEN 0 ELSE CHECK_DATA]
           f == [k \in 0..n |-> grown(k)]
<1>1. n \in Nat
  OBVIOUS
<1>2. grown(0) = ListCreate
  BY DEF ListCreate
<1>3. ASSUME NEW k \in 1..n PROVE grown(k) = ListAppend(grown(k - 1), node(k))
  <2>1. node(k).size = CHECK_DATA
    BY DEF NodeCreate
  <2> HIDE DEF node
  <2>2. Append([m \in 1..(k - 1) |-> node(m)], node(k)) = [m \in 1..k |-> node(m)]
    <3>1. k - 1 \in Nat /\ (k - 1) + 1 = k
      OBVIOUS
    <3>2. PICK T : \A m \in 1..k : node(m) \in T
      <4>1. \A m \in 1..k : node(m) \in {node(o) : o \in 1..k}
        OBVIOUS
      <4>2. QED
        BY <4>1
    <3>3. [m \in 1..(k - 1) |-> node(m)] \in Seq(T) /\ Len([m \in 1..(k - 1) |-> node(m)]) = k - 1
      BY <3>1, <3>2
    <3>4. QED
      BY <3>1, <3>3
  <2>3. k # 0
    BY <1>1
  <2>4. QED
    BY <2>1, <2>2, <2>3 DEF ListAppend
<1> HIDE DEF n, grown, node
<1>4. f = [k \in 0..n |-> IF k = 0 THEN ListCreate ELSE ListAppend(f[k - 1], node(k))]
  <2>1. ASSUME NEW k \in 0..n
        PROVE  f[k] = IF k = 0 THEN ListCreate ELSE ListAppend(f[k - 1], node(k))
    <3>1. CASE k = 0
      BY <1>2, <3>1
    <3>2. CASE k # 0
      <4>1. k \in 1..n /\ k - 1 \in 0..n
        BY <1>1, <3>2
      <4>2. f[k] = grown(k) /\ f[k - 1] = grown(k - 1)
        BY <4>1
      <4>3. QED
        BY <1>3, <3>2, <4>1, <4>2
    <3>3. QED
      BY <3>1, <3>2
  <2>2. f = [k \in 0..n |-> f[k]]
    OBVIOUS
  <2> HIDE DEF f
  <2>3. QED
    BY <2>1, <2>2
<1> HIDE DEF f
<1>5. RecordLists(leaves)
        = CHOOSE g : g = [k \in 0..n |-> IF k = 0 THEN ListCreate
                                         ELSE ListAppend(g[k - 1], node(k))]
  BY DEF RecordLists, n, node
<1>6. RecordLists(leaves)
        = [k \in 0..n |-> IF k = 0 THEN ListCreate
                          ELSE ListAppend(RecordLists(leaves)[k - 1], node(k))]
  BY <1>4, <1>5, Zenon
<1>7. /\ RecordLists(leaves)[0] = ListCreate
      /\ \A k \in 1..n : RecordLists(leaves)[k] = ListAppend(RecordLists(leaves)[k - 1], node(k))
  <2>1. 0 \in 0..n /\ \A k \in 1..n : k \in 0..n /\ k # 0
    BY <1>1
  <2>2. QED
    BY <1>6, <2>1
<1>8. f[0] = ListCreate /\ \A k \in 1..n : f[k] = ListAppend(f[k - 1], node(k))
  <2>1. 0 \in 0..n /\ \A k \in 1..n : k \in 0..n /\ k # 0
    BY <1>1
  <2>2. QED
    BY <1>4, <2>1
<1>9. Alike(RecordLists(leaves), f, n)
  <2>1. StaysAlike(RecordLists(leaves), f, n)
    BY <1>7, <1>8 DEF StaysAlike
  <2>2. RecordLists(leaves)[0] = f[0]
    BY <1>7, <1>8
  <2>3. QED
    BY <1>1, <2>1, <2>2, RecursionAgrees
<1>10. RecordList(leaves) = grown(n)
  <2>1. n \in 0..n
    BY <1>1
  <2>2. f[n] = grown(n)
    BY <2>1 DEF f
  <2>3. QED
    BY <1>9, <2>1, <2>2 DEF Alike, RecordList, n
<1>11. grown(n).count = n /\ \A k \in 1..n : grown(n).nodes[k].data = Record(leaves[k])
  BY DEF grown, node, NodeCreate
<1>12. QED
  BY <1>10, <1>11 DEF n

\* What sflow_sample_pack makes of drained records is a sample whose length is theirs.
LEMMA PackedIsBuilt ==
  ASSUME NEW type \in {"flow", "counter"}, NEW slots \in Seq(Records), slots # <<>>
  PROVE  SamplePack(type, slots) \in BuiltSamples
<1>1. \A k \in 1..Len(slots) : slots[k] \in Records
  OBVIOUS
<1>2. \A k \in DOMAIN slots : slots[k].len + RECORD_HEADER \in Nat
  BY <1>1, RecordTypes DEF RECORD_HEADER
<1>3. [k \in DOMAIN slots |-> slots[k].len + RECORD_HEADER] \in Seq(Nat)
  BY <1>2
<1>4. SumLens(slots) \in Nat
  BY <1>3, TotalsNat DEF SumLens
<1>5. DataHeader[type] + SumLens(slots) \in Nat
  BY <1>4 DEF DataHeader
<1>6. QED
  BY <1>5 DEF SamplePack, BuiltSamples

LEMMA DrainedIsBuilt ==
  ASSUME NEW leaves \in Seq(Leaves), leaves # <<>>
  PROVE  /\ SamplePack("counter", ListDrain(RecordList(leaves))) \in BuiltSamples
         /\ Len(leaves) = 1
              => SamplePack("flow", FlowDrain(RecordList(leaves))) \in BuiltSamples
<1> DEFINE slots == [k \in 1..Len(leaves) |-> Record(leaves[k])]
<1>1. slots \in Seq(Records) /\ slots # <<>>
  <2>1. Len(leaves) \in Nat /\ Len(leaves) # 0 /\ \A k \in 1..Len(leaves) : leaves[k] \in Leaves
    OBVIOUS
  <2>2. \A k \in 1..Len(leaves) : Record(leaves[k]) \in Records
    BY <2>1 DEF Records
  <2>3. slots \in Seq(Records) /\ Len(slots) = Len(leaves)
    BY <2>1, <2>2
  <2>4. QED
    BY <2>1, <2>3
<1>2. ListDrain(RecordList(leaves)) = slots
  BY RecordListIs DEF ListDrain
<1>3. Len(leaves) = 1 => FlowDrain(RecordList(leaves)) = slots
  <2>1. \A k \in 1..1 : 2 * (k - 1) < 1
    OBVIOUS
  <2>2. QED
    BY <2>1, RecordListIs DEF FlowDrain
<1> HIDE DEF slots
<1>4. QED
  BY <1>1, <1>2, <1>3, PackedIsBuilt

(***************************************************************************)
(* Where things are written, for the samples ss of a datagram.             *)
(***************************************************************************)

SlotSizes(slots) == [k \in DOMAIN slots |-> slots[k].len + RECORD_HEADER]
SampleSizes(ss) == [k \in DOMAIN ss |-> SP_HEADER + ss[k].len]

\* Where the sample s ends, and its record r.
SampleEnd(ss, s) == DG_HEADER + Totals(SampleSizes(ss))[s]
RecordEnd(ss, s, r) ==
  SampleEnd(ss, s - 1) + SP_HEADER + DataHeader[ss[s].type] + Totals(SlotSizes(ss[s].slots))[r]

InRecord == at \in {"record", "crashed"}

CollectInv ==
  at = "collect" => size = 0 /\ off = 0 /\ marks = <<>> /\ i = 1 /\ j = 1

\* The next structure is written where the lengths say that the ones before it end.
FlatInv ==
  at # "collect" =>
    /\ i \in 1..Len(samples)
    /\ size = DatagramSize
    /\ at = "sample" => off = SampleEnd(samples, i - 1)
    /\ InRecord => j \in 1..Len(samples[i].slots) /\ off = RecordEnd(samples, i, j - 1)
    /\ at = "done" => off = size

\* The datagram's type invariant.
TypeInv ==
  /\ samples \in Seq(BuiltSamples)
  /\ at \in {"collect", "sample", "record", "crashed", "done"}
  /\ captured \in Nat

PlaceInv == CollectInv /\ FlatInv

Marks == [level : {"sample", "record"}, pos : Nat, len : Nat]

EndOf(m) == m.pos + (IF m.level = "sample" THEN SP_HEADER ELSE RECORD_HEADER) + m.len

\* A record's length leads to the structure after it, or to where the next is written.
RecordLeads(ms, k, here) ==
  EndOf(ms[k]) = IF k = Len(ms) THEN here ELSE ms[k + 1].pos

OnlyRecords(ms, first, last) == \A o \in first..last : ms[o].level = "record"

\* A sample's length leads to the next sample, or to where the one being written ends.
SampleLeads(ms, k, reached) ==
  \/ OnlyRecords(ms, k + 1, Len(ms)) /\ EndOf(ms[k]) = reached
  \/ \E n \in k + 1..Len(ms) :
       /\ ms[n].level = "sample" /\ ms[n].pos = EndOf(ms[k])
       /\ OnlyRecords(ms, k + 1, n - 1)

Leads(ms, here, reached) ==
  \A k \in 1..Len(ms) :
    IF ms[k].level = "sample" THEN SampleLeads(ms, k, reached) ELSE RecordLeads(ms, k, here)

Reached == IF InRecord THEN SampleEnd(samples, i) ELSE off

MarksInv == marks \in Seq(Marks) /\ Leads(marks, off, Reached)

LEMMA SlotSizesType ==
  ASSUME NEW s \in BuiltSamples
  PROVE  /\ Len(s.slots) \in Nat \ {0}
         /\ SlotSizes(s.slots) \in Seq(Nat) /\ Len(SlotSizes(s.slots)) = Len(s.slots)
         /\ \A r \in 1..Len(s.slots) :
              /\ s.slots[r].len \in Nat /\ s.slots[r].len = LeafBytes(s.slots[r].leaf)
              /\ SlotSizes(s.slots)[r] = RECORD_HEADER + s.slots[r].len
         /\ s.len \in Nat /\ s.type \in {"flow", "counter"}
         /\ s.len = DataHeader[s.type] + Totals(SlotSizes(s.slots))[Len(s.slots)]
<1>1. /\ s.slots \in Seq(Records) /\ s.slots # <<>> /\ s.len \in Nat
      /\ s.type \in {"flow", "counter"} /\ s.len = DataHeader[s.type] + SumLens(s.slots)
  BY DEF BuiltSamples
<1>2. PICK slots \in Seq(Records) : slots = s.slots
  BY <1>1
<1>3. Len(slots) \in Nat \ {0} /\ DOMAIN slots = 1..Len(slots)
  BY <1>1, <1>2
<1>4. \A r \in 1..Len(slots) : slots[r].len \in Nat /\ slots[r].len = LeafBytes(slots[r].leaf)
  <2>1. \A r \in 1..Len(slots) : slots[r] \in Records
    OBVIOUS
  <2>2. QED
    BY <2>1, RecordTypes
<1>5. \A r \in 1..Len(slots) : slots[r].len + RECORD_HEADER \in Nat
  BY <1>4 DEF RECORD_HEADER
<1>6. SlotSizes(slots) = [r \in 1..Len(slots) |-> slots[r].len + RECORD_HEADER]
  BY <1>3 DEF SlotSizes
<1>7. SlotSizes(slots) \in Seq(Nat) /\ Len(SlotSizes(slots)) = Len(slots)
  BY <1>3, <1>5, <1>6
<1>8. \A r \in 1..Len(slots) : SlotSizes(slots)[r] = RECORD_HEADER + slots[r].len
  BY <1>4, <1>6 DEF RECORD_HEADER
<1>9. SumLens(slots) = Totals(SlotSizes(slots))[Len(slots)]
  BY <1>7 DEF SumLens, SlotSizes, Total
<1>10. QED
  BY <1>1, <1>2, <1>3, <1>4, <1>7, <1>8, <1>9

LEMMA SampleSizesType ==
  ASSUME NEW ss \in Seq(BuiltSamples)
  PROVE  /\ Len(ss) \in Nat
         /\ SampleSizes(ss) \in Seq(Nat) /\ Len(SampleSizes(ss)) = Len(ss)
         /\ \A s \in 1..Len(ss) : SampleSizes(ss)[s] = SP_HEADER + ss[s].len
<1>1. Len(ss) \in Nat /\ DOMAIN ss = 1..Len(ss) /\ \A s \in 1..Len(ss) : ss[s] \in BuiltSamples
  OBVIOUS
<1>2. \A s \in 1..Len(ss) : SP_HEADER + ss[s].len \in Nat
  BY <1>1, SlotSizesType DEF SP_HEADER
<1>3. SampleSizes(ss) = [s \in 1..Len(ss) |-> SP_HEADER + ss[s].len]
  BY <1>1 DEF SampleSizes
<1>4. QED
  BY <1>1, <1>2, <1>3

\* The samples' ends follow each other, and the last is the buffer's.
LEMMA SampleEnds ==
  ASSUME NEW ss \in Seq(BuiltSamples)
  PROVE  /\ SampleEnd(ss, 0) = DG_HEADER
         /\ \A s \in 0..Len(ss) : /\ SampleEnd(ss, s) \in Nat
                                  /\ SampleEnd(ss, s) <= SampleEnd(ss, Len(ss))
         /\ \A s \in 1..Len(ss) : SampleEnd(ss, s) = SampleEnd(ss, s - 1) + SP_HEADER + ss[s].len
<1>1. PICK w \in Seq(Nat) : w = SampleSizes(ss)
  BY SampleSizesType
<1>2. /\ Len(ss) \in Nat /\ Len(w) = Len(ss)
      /\ \A s \in 1..Len(ss) : w[s] = SP_HEADER + ss[s].len /\ ss[s].len \in Nat
  <2>1. \A s \in 1..Len(ss) : ss[s] \in BuiltSamples
    OBVIOUS
  <2>2. QED
    BY <1>1, <2>1, SampleSizesType, SlotSizesType
<1>3. PICK t : t = Totals(w)
  OBVIOUS
<1>4. /\ t[0] = 0
      /\ \A s \in 1..Len(ss) : t[s] = t[s - 1] + w[s]
      /\ \A s \in 0..Len(ss) : t[s] \in Nat /\ t[s] <= t[Len(ss)]
  <2>1. w \in Seq(Int) /\ 0 \in 0..Len(w) /\ Len(w) \in 0..Len(w)
    BY <1>2
  <2>2. /\ t \in [0..Len(w) -> Int] /\ t[0] = 0
        /\ \A s \in 1..Len(w) : t[s] = t[s - 1] + w[s]
    BY <1>3, <2>1, TotalsAre
  <2>3. \A s \in 0..Len(w) : t[s] \in Nat /\ t[s] <= t[Len(w)]
    BY <1>3, TotalsNat DEF Total
  <2>4. QED
    BY <1>2, <2>2, <2>3
<1>5. \A s : SampleEnd(ss, s) = DG_HEADER + t[s]
  BY <1>1, <1>3 DEF SampleEnd
<1>6. \A s \in 1..Len(ss) : s - 1 \in 0..Len(ss) /\ s \in 0..Len(ss)
  BY <1>2
<1>7. SampleEnd(ss, 0) = DG_HEADER
  BY <1>4, <1>5 DEF DG_HEADER
<1>8. ASSUME NEW s \in 0..Len(ss)
      PROVE  SampleEnd(ss, s) \in Nat /\ SampleEnd(ss, s) <= SampleEnd(ss, Len(ss))
  <2>1. t[s] \in Nat /\ t[s] <= t[Len(ss)] /\ t[Len(ss)] \in Nat
    BY <1>2, <1>4
  <2>2. SampleEnd(ss, s) = DG_HEADER + t[s] /\ SampleEnd(ss, Len(ss)) = DG_HEADER + t[Len(ss)]
    BY <1>5
  <2>3. QED
    BY <2>1, <2>2 DEF DG_HEADER
<1>9. ASSUME NEW s \in 1..Len(ss)
      PROVE  SampleEnd(ss, s) = SampleEnd(ss, s - 1) + SP_HEADER + ss[s].len
  <2>1. t[s] = t[s - 1] + (SP_HEADER + ss[s].len) /\ t[s - 1] \in Nat /\ ss[s].len \in Nat
    BY <1>2, <1>4, <1>6
  <2>2. SampleEnd(ss, s) = DG_HEADER + t[s] /\ SampleEnd(ss, s - 1) = DG_HEADER + t[s - 1]
    BY <1>5
  <2>3. PICK before \in Nat, len \in Nat : before = t[s - 1] /\ len = ss[s].len
    BY <2>1
  <2>4. /\ SampleEnd(ss, s) = DG_HEADER + (before + (SP_HEADER + len))
        /\ SampleEnd(ss, s - 1) + SP_HEADER + ss[s].len = DG_HEADER + before + SP_HEADER + len
    BY <2>1, <2>2, <2>3, Zenon
  <2>5. QED
    BY <2>4 DEF DG_HEADER, SP_HEADER
<1>10. QED
  BY <1>7, <1>8, <1>9

\* A record ends where its leaf has written itself, the last one where the sample does.
LEMMA RecordEnds ==
  ASSUME NEW ss \in Seq(BuiltSamples), NEW s \in 1..Len(ss)
  PROVE  /\ Len(ss[s].slots) \in Nat \ {0}
         /\ RecordEnd(ss, s, 0) = SampleEnd(ss, s - 1) + SP_HEADER + DataHeader[ss[s].type]
         /\ \A r \in 0..Len(ss[s].slots) : /\ RecordEnd(ss, s, r) \in Nat
                                           /\ RecordEnd(ss, s, r) <= SampleEnd(ss, s)
         /\ \A r \in 1..Len(ss[s].slots) :
              /\ ss[s].slots[r].len \in Nat
              /\ ss[s].slots[r].len = LeafBytes(ss[s].slots[r].leaf)
              /\ RecordEnd(ss, s, r) = RecordEnd(ss, s, r - 1) + RECORD_HEADER + ss[s].slots[r].len
         /\ RecordEnd(ss, s, Len(ss[s].slots)) = SampleEnd(ss, s)
<1>1. PICK sample \in BuiltSamples : sample = ss[s]
  OBVIOUS
<1>2. PICK n \in Nat \ {0} : n = Len(sample.slots)
  BY SlotSizesType
<1>3. PICK w \in Seq(Nat) : w = SlotSizes(sample.slots)
  BY SlotSizesType
<1>4. /\ Len(w) = n /\ sample.type \in {"flow", "counter"}
      /\ \A r \in 1..n : /\ sample.slots[r].len \in Nat
                         /\ sample.slots[r].len = LeafBytes(sample.slots[r].leaf)
                         /\ w[r] = RECORD_HEADER + sample.slots[r].len
      /\ sample.len = DataHeader[sample.type] + Totals(w)[n]
  BY <1>2, <1>3, SlotSizesType
<1>5. PICK t : t = Totals(w)
  OBVIOUS
<1>6. /\ t[0] = 0
      /\ \A r \in 1..n : t[r] = t[r - 1] + w[r]
      /\ \A r \in 0..n : t[r] \in Nat /\ t[r] <= t[n]
  <2>1. w \in Seq(Int) /\ 0 \in 0..Len(w) /\ Len(w) \in 0..Len(w)
    BY <1>4
  <2>2. /\ t \in [0..Len(w) -> Int] /\ t[0] = 0
        /\ \A r \in 1..Len(w) : t[r] = t[r - 1] + w[r]
    BY <1>5, <2>1, TotalsAre
  <2>3. \A r \in 0..Len(w) : t[r] \in Nat /\ t[r] <= t[Len(w)]
    BY <1>5, TotalsNat DEF Total
  <2>4. QED
    BY <1>4, <2>2, <2>3
<1>7. PICK base \in Nat : base = SampleEnd(ss, s - 1)
  <2>1. s - 1 \in 0..Len(ss)
    OBVIOUS
  <2>2. QED
    BY <2>1, SampleEnds
<1>8. PICK head \in Nat : head = DataHeader[sample.type]
  BY <1>4 DEF DataHeader
<1>9. \A r : RecordEnd(ss, s, r) = base + SP_HEADER + head + t[r]
  BY <1>1, <1>3, <1>5, <1>7, <1>8 DEF RecordEnd
<1>10. SampleEnd(ss, s) = base + SP_HEADER + head + t[n]
  <2>1. SampleEnd(ss, s) = base + SP_HEADER + sample.len
    BY <1>1, <1>7, SampleEnds
  <2>2. sample.len = head + t[n]
    BY <1>4, <1>5, <1>8
  <2>3. t[n] \in Nat
    <3>1. n \in 0..n
      OBVIOUS
    <3>2. QED
      BY <1>6, <3>1
  <2>4. PICK last \in Nat : last = t[n]
    BY <2>3
  <2>5. SampleEnd(ss, s) = base + SP_HEADER + (head + last)
    BY <2>1, <2>2, <2>4, Zenon
  <2>6. base + SP_HEADER + (head + last) = base + SP_HEADER + head + last
    BY DEF SP_HEADER
  <2>7. QED
    BY <2>4, <2>5, <2>6, Zenon
<1>11. RecordEnd(ss, s, 0) = SampleEnd(ss, s - 1) + SP_HEADER + DataHeader[ss[s].type]
  BY <1>1, <1>6, <1>7, <1>8, <1>9 DEF SP_HEADER
<1>12. ASSUME NEW r \in 0..n
       PROVE  RecordEnd(ss, s, r) \in Nat /\ RecordEnd(ss, s, r) <= SampleEnd(ss, s)
  <2>1. t[r] \in Nat /\ t[r] <= t[n] /\ t[n] \in Nat
    <3>1. n \in 0..n
      OBVIOUS
    <3>2. QED
      BY <1>6, <3>1
  <2>2. RecordEnd(ss, s, r) = base + SP_HEADER + head + t[r]
    BY <1>9
  <2>3. QED
    BY <1>10, <2>1, <2>2 DEF SP_HEADER
<1>13. ASSUME NEW r \in 1..n
       PROVE  RecordEnd(ss, s, r)
                = RecordEnd(ss, s, r - 1) + RECORD_HEADER + sample.slots[r].len
  <2>1. r - 1 \in 0..n
    OBVIOUS
  <2>2. t[r] = t[r - 1] + (RECORD_HEADER + sample.slots[r].len)
    BY <1>4, <1>6
  <2>3. t[r - 1] \in Nat /\ sample.slots[r].len \in Nat
    BY <1>4, <1>6, <2>1
  <2>4. /\ RecordEnd(ss, s, r) = base + SP_HEADER + head + t[r]
        /\ RecordEnd(ss, s, r - 1) = base + SP_HEADER + head + t[r - 1]
    BY <1>9
  <2>5. PICK before \in Nat, len \in Nat : before = t[r - 1] /\ len = sample.slots[r].len
    BY <2>3
  <2>6. /\ RecordEnd(ss, s, r) = base + SP_HEADER + head + (before + (RECORD_HEADER + len))
        /\ RecordEnd(ss, s, r - 1) + RECORD_HEADER + sample.slots[r].len
             = base + SP_HEADER + head + before + RECORD_HEADER + len
    BY <2>2, <2>4, <2>5, Zenon
  <2>7. QED
    BY <2>6 DEF SP_HEADER, RECORD_HEADER
<1>14. RecordEnd(ss, s, n) = SampleEnd(ss, s)
  BY <1>9, <1>10
<1>15. QED
  BY <1>1, <1>2, <1>4, <1>11, <1>12, <1>13, <1>14

LEMMA LastSampleEnds ==
  ASSUME TypeInv
  PROVE  DatagramSize = SampleEnd(samples, Len(samples)) /\ Len(samples) \in Nat
<1>1. Total(SampleSizes(samples)) = Totals(SampleSizes(samples))[Len(samples)]
  BY SampleSizesType DEF TypeInv, Total
<1>2. QED
  BY <1>1, SampleSizesType DEF TypeInv, DatagramSize, SampleEnd, SampleSizes

(***************************************************************************)
(* The steps.                                                              *)
(***************************************************************************)

\* A sample that is collected is one that a packer has built.
Packs == captured' \in Nat /\ \E sample \in BuiltSamples : Collect(sample)

LEMMA FlowPacks ==
  ASSUME TypeInv, GetFlowSample
  PROVE  Packs
<1>1. PICK len \in Captured :
        Collect(SamplePack("flow", FlowDrain(RecordList(<<RawLeaf(len, captured + 1)>>))))
  BY DEF GetFlowSample
<1>2. captured' = captured + 1 /\ captured \in Nat /\ len \in Nat
  BY CapturedAssumption DEF GetFlowSample, TypeInv
<1>3. RawLeaf(len, captured + 1) \in Leaves
  BY <1>2 DEF RawLeaf, Leaves
<1>4. PICK leaves : leaves = <<RawLeaf(len, captured + 1)>>
  OBVIOUS
<1>5. leaves \in Seq(Leaves) /\ leaves # <<>> /\ Len(leaves) = 1
  BY <1>3, <1>4
<1>6. SamplePack("flow", FlowDrain(RecordList(leaves))) \in BuiltSamples
  BY <1>5, DrainedIsBuilt
<1>7. QED
  BY <1>1, <1>2, <1>4, <1>6 DEF Packs

LEMMA LeafTypes ==
  ASSUME NEW fmt \in DOMAIN Fields \cup {"host_adapters"}, NEW n \in Nat
  PROVE  Leaf(fmt, n) \in Leaves
BY DEF Leaf, Leaves

LEMMA CounterPacks ==
  ASSUME TypeInv, NEW leaves \in Seq(Leaves), leaves # <<>>, CounterSample(leaves)
  PROVE  Packs
<1>1. SamplePack("counter", ListDrain(RecordList(leaves))) \in BuiltSamples
  BY DrainedIsBuilt
<1>2. QED
  BY <1>1 DEF CounterSample, TypeInv, Packs

LEMMA IfGenericPacks ==
  ASSUME TypeInv, GetIfGeneric
  PROVE  Packs
<1>1. Leaf("if_generic", 1) \in Leaves
  BY LeafTypes DEF Fields
<1>2. <<Leaf("if_generic", 1)>> \in Seq(Leaves) /\ <<Leaf("if_generic", 1)>> # <<>>
  BY <1>1
<1>3. QED
  BY <1>2, CounterPacks DEF GetIfGeneric

LEMMA HostPhyPacks ==
  ASSUME TypeInv, GetHostPhy
  PROVE  Packs
<1>1. PICK links \in Links :
        CounterSample(<<Leaf("host_descr", 1), Leaf("host_adapters", links),
                        Leaf("host_cpu", 1), Leaf("host_memory", 1),
                        Leaf("host_disk", 1), Leaf("host_net", 1)>>)
  BY DEF GetHostPhy
<1>2. PICK a \in Leaves, b \in Leaves, c \in Leaves, d \in Leaves, e \in Leaves, f \in Leaves :
        /\ a = Leaf("host_descr", 1) /\ b = Leaf("host_adapters", links)
        /\ c = Leaf("host_cpu", 1) /\ d = Leaf("host_memory", 1)
        /\ e = Leaf("host_disk", 1) /\ f = Leaf("host_net", 1)
  <2>1. links \in Nat
    BY LinksAssumption
  <2>2. /\ Leaf("host_descr", 1) \in Leaves /\ Leaf("host_adapters", links) \in Leaves
        /\ Leaf("host_cpu", 1) \in Leaves /\ Leaf("host_memory", 1) \in Leaves
        /\ Leaf("host_disk", 1) \in Leaves /\ Leaf("host_net", 1) \in Leaves
    BY <2>1, LeafTypes DEF Fields
  <2>3. QED
    BY <2>2
<1>3. <<a, b, c, d, e, f>> \in Seq(Leaves) /\ <<a, b, c, d, e, f>> # <<>>
  OBVIOUS
<1>4. CounterSample(<<a, b, c, d, e, f>>)
  BY <1>1, <1>2, Zenon
<1>5. QED
  BY <1>3, <1>4, CounterPacks

LEMMA HostVPacks ==
  ASSUME TypeInv, GetHostV
  PROVE  Packs
<1>1. PICK cpu \in {0, 1}, memory \in {0, 1} :
        CounterSample(<<Leaf("host_descr", 1), Leaf("host_parent", 1),
                        Leaf("virt_node", 1), Leaf("virt_cpu", cpu),
                        Leaf("virt_memory", memory), Leaf("virt_net", 1)>>)
  BY DEF GetHostV
<1>2. PICK a \in Leaves, b \in Leaves, c \in Leaves, d \in Leaves, e \in Leaves, f \in Leaves :
        /\ a = Leaf("host_descr", 1) /\ b = Leaf("host_parent", 1)
        /\ c = Leaf("virt_node", 1) /\ d = Leaf("virt_cpu", cpu)
        /\ e = Leaf("virt_memory", memory) /\ f = Leaf("virt_net", 1)
  <2>1. /\ Leaf("host_descr", 1) \in Leaves /\ Leaf("host_parent", 1) \in Leaves
        /\ Leaf("virt_node", 1) \in Leaves /\ Leaf("virt_cpu", cpu) \in Leaves
        /\ Leaf("virt_memory", memory) \in Leaves /\ Leaf("virt_net", 1) \in Leaves
    BY LeafTypes DEF Fields
  <2>2. QED
    BY <2>1
<1>3. <<a, b, c, d, e, f>> \in Seq(Leaves) /\ <<a, b, c, d, e, f>> # <<>>
  OBVIOUS
<1>4. CounterSample(<<a, b, c, d, e, f>>)
  BY <1>1, <1>2, Zenon
<1>5. QED
  BY <1>3, <1>4, CounterPacks

\* What the next-state relation is, for samples that the packers have built.
LEMMA StepKinds ==
  ASSUME TypeInv, [Next]_vars
  PROVE  \/ Packs \/ ReadNextPacket \/ FlatHeader \/ FlatSample \/ FlatRecord \/ FlatNull
         \/ UNCHANGED vars
BY FlowPacks, IfGenericPacks, HostPhyPacks, HostVPacks DEF Next

LEMMA TypeInvStep ==
  ASSUME TypeInv, [Next]_vars
  PROVE  TypeInv'
<1>1. CASE Packs
  <2>1. PICK sample \in BuiltSamples : Collect(sample)
    BY <1>1 DEF Packs
  <2>2. samples' = Append(samples, sample) /\ at' = at /\ captured' \in Nat
    BY <1>1, <2>1 DEF Packs, Collect
  <2>3. Append(samples, sample) \in Seq(BuiltSamples)
    BY DEF TypeInv
  <2>4. QED
    BY <2>2, <2>3 DEF TypeInv
<1>2. CASE ReadNextPacket
  BY <1>2 DEF ReadNextPacket, TypeInv
<1>3. CASE FlatHeader
  BY <1>3 DEF FlatHeader, TypeInv
<1>4. CASE FlatSample
  BY <1>4 DEF FlatSample, TypeInv
<1>5. CASE FlatRecord
  <2>1. AfterRecord(i, j)[1] \in {"record", "sample", "done"}
    BY DEF AfterRecord
  <2>2. QED
    BY <1>5, <2>1 DEF FlatRecord, TypeInv
<1>6. CASE FlatNull
  BY <1>6 DEF FlatNull, TypeInv
<1>7. CASE UNCHANGED vars
  BY <1>7 DEF vars, TypeInv
<1>8. QED
  BY <1>1, <1>2, <1>3, <1>4, <1>5, <1>6, <1>7, StepKinds

\* A record that is written moves the end of what is written by its length, which its
\* leaf's function keeps; the last one ends where its sample does.
LEMMA RecordWritten ==
  ASSUME TypeInv, PlaceInv, FlatRecord
  PROVE  /\ i \in 1..Len(samples) /\ j \in 1..Len(samples[i].slots)
         /\ samples[i].slots[j].len \in Nat
         /\ off = RecordEnd(samples, i, j - 1) /\ off \in Nat
         /\ off' = off + RECORD_HEADER + samples[i].slots[j].len
         /\ off' = RecordEnd(samples, i, j)
         /\ \/ at' = "record" /\ i' = i /\ j' = j + 1 /\ j + 1 \in 1..Len(samples[i].slots)
            \/ /\ at' = "sample" /\ i' = i + 1 /\ j' = 1 /\ i + 1 \in 1..Len(samples)
               /\ off' = SampleEnd(samples, i)
            \/ /\ at' = "done" /\ i' = i /\ j' = j /\ i = Len(samples)
               /\ off' = SampleEnd(samples, i)
<1>1. /\ i \in 1..Len(samples) /\ j \in 1..Len(samples[i].slots)
      /\ off = RecordEnd(samples, i, j - 1)
  BY DEF FlatRecord, PlaceInv, FlatInv, InRecord
<1>2. samples \in Seq(BuiltSamples) /\ Len(samples) \in Nat
  BY DEF TypeInv
<1>3. PICK n \in Nat : n = Len(samples[i].slots)
  BY <1>1, <1>2, RecordEnds
<1>4. /\ j \in 1..n /\ j - 1 \in 0..n
  BY <1>1, <1>3
<1>5. /\ samples[i].slots[j].len \in Nat
      /\ samples[i].slots[j].len = LeafBytes(samples[i].slots[j].leaf)
      /\ RecordEnd(samples, i, j) = RecordEnd(samples, i, j - 1) + RECORD_HEADER
                                      + samples[i].slots[j].len
      /\ RecordEnd(samples, i, j - 1) \in Nat
      /\ RecordEnd(samples, i, n) = SampleEnd(samples, i)
  BY <1>1, <1>2, <1>3, <1>4, RecordEnds
<1>6. PICK len \in Nat : len = samples[i].slots[j].len
  BY <1>5
<1>7. off' = off + (RECORD_HEADER + len)
  BY <1>5, <1>6 DEF FlatRecord, Write
<1>8. off \in Nat /\ off' = off + RECORD_HEADER + len
  <2>1. off \in Nat
    BY <1>1, <1>5
  <2>2. QED
    BY <1>7, <2>1 DEF RECORD_HEADER
<1>9. off' = RecordEnd(samples, i, j)
  BY <1>1, <1>5, <1>6, <1>8
<1>10. \/ at' = "record" /\ i' = i /\ j' = j + 1 /\ j < n
       \/ at' = "sample" /\ i' = i + 1 /\ j' = 1 /\ i < Len(samples) /\ ~(j < n)
       \/ at' = "done" /\ i' = i /\ j' = j /\ ~(i < Len(samples)) /\ ~(j < n)
  <2>1. at' = AfterRecord(i, j)[1] /\ i' = AfterRecord(i, j)[2] /\ j' = AfterRecord(i, j)[3]
    BY DEF FlatRecord
  <2>2. \/ AfterRecord(i, j) = <<"record", i, j + 1>> /\ j < n
        \/ AfterRecord(i, j) = <<"sample", i + 1, 1>> /\ i < Len(samples) /\ ~(j < n)
        \/ AfterRecord(i, j) = <<"done", i, j>> /\ ~(i < Len(samples)) /\ ~(j < n)
    BY <1>3 DEF AfterRecord
  <2>3. QED
    BY <2>1, <2>2
<1>11. (j < n => j + 1 \in 1..n) /\ (~(j < n) => j = n)
  BY <1>4
<1>12. (i < Len(samples) => i + 1 \in 1..Len(samples)) /\ (~(i < Len(samples)) => i = Len(samples))
  BY <1>1, <1>2
<1>13. QED
  BY <1>1, <1>3, <1>5, <1>6, <1>8, <1>9, <1>10, <1>11, <1>12

LEMMA SampleWritten ==
  ASSUME TypeInv, PlaceInv, FlatSample
  PROVE  /\ i \in 1..Len(samples) /\ samples[i].len \in Nat
         /\ off = SampleEnd(samples, i - 1) /\ off \in Nat
         /\ off + SP_HEADER + samples[i].len = SampleEnd(samples, i)
         /\ off' = RecordEnd(samples, i, 0) /\ off' \in Nat
         /\ 1 \in 1..Len(samples[i].slots)
<1>1. i \in 1..Len(samples) /\ off = SampleEnd(samples, i - 1)
  BY DEF FlatSample, PlaceInv, FlatInv
<1>2. samples \in Seq(BuiltSamples) /\ Len(samples) \in Nat /\ samples[i] \in BuiltSamples
  BY <1>1 DEF TypeInv
<1>3. i - 1 \in 0..Len(samples)
  BY <1>1, <1>2
<1>4. off \in Nat /\ SampleEnd(samples, i) = off + SP_HEADER + samples[i].len
  BY <1>1, <1>2, <1>3, SampleEnds
<1>5. samples[i].len \in Nat /\ samples[i].type \in {"flow", "counter"}
  BY <1>2, SlotSizesType
<1>6. PICK n \in Nat \ {0} : n = Len(samples[i].slots)
  BY <1>1, <1>2, RecordEnds
<1>7. RecordEnd(samples, i, 0) = off + SP_HEADER + DataHeader[samples[i].type]
  BY <1>1, <1>2, RecordEnds
<1>8. PICK head \in Nat : head = DataHeader[samples[i].type]
  BY <1>5 DEF DataHeader
<1>9. off' = off + (SP_HEADER + head)
  BY <1>8 DEF FlatSample, Write
<1>10. off' = RecordEnd(samples, i, 0) /\ off' \in Nat
  BY <1>4, <1>7, <1>8, <1>9 DEF SP_HEADER
<1>11. 1 \in 1..n
  OBVIOUS
<1>12. QED
  BY <1>1, <1>4, <1>5, <1>6, <1>10, <1>11

LEMMA PlaceInvStep ==
  ASSUME TypeInv, PlaceInv, [Next]_vars
  PROVE  PlaceInv'
<1> USE DEF PlaceInv
<1>1. CASE Packs
  <2>1. at = "collect" /\ at' = at /\ UNCHANGED flatVars
    BY <1>1 DEF Packs, Collect
  <2>2. QED
    BY <2>1 DEF CollectInv, FlatInv, flatVars
<1>2. CASE ReadNextPacket
  <2>1. UNCHANGED <<at, samples, flatVars>>
    BY <1>2 DEF ReadNextPacket
  <2>2. QED
    BY <2>1 DEF CollectInv, FlatInv, InRecord, DatagramSize, flatVars
<1>3. CASE FlatHeader
  <2>1. /\ at = "collect" /\ at' = "sample" /\ samples # <<>> /\ samples' = samples
        /\ size' = DatagramSize /\ off' = off + DG_HEADER /\ i' = i
    BY <1>3 DEF FlatHeader, Write
  <2>2. off = 0 /\ i = 1
    BY <2>1 DEF CollectInv
  <2>3. off' = SampleEnd(samples, 0)
    BY <2>1, <2>2, SampleEnds DEF TypeInv, DG_HEADER
  <2>4. 1 \in 1..Len(samples) /\ 1 - 1 = 0
    BY <2>1 DEF TypeInv
  <2>5. DatagramSize' = DatagramSize
    BY <2>1 DEF DatagramSize
  <2>6. QED
    BY <2>1, <2>2, <2>3, <2>4, <2>5 DEF CollectInv, FlatInv, InRecord
<1>4. CASE FlatSample
  <2>1. /\ at = "sample" /\ at' = "record" /\ j' = 1 /\ UNCHANGED <<samples, i, size>>
    BY <1>4 DEF FlatSample
  <2>2. i \in 1..Len(samples) /\ off' = RecordEnd(samples, i, 0) /\ 1 \in 1..Len(samples[i].slots)
    BY <1>4, SampleWritten
  <2>3. DatagramSize' = DatagramSize /\ size = DatagramSize /\ 1 - 1 = 0
    BY <2>1 DEF DatagramSize, FlatInv
  <2>4. QED
    BY <2>1, <2>2, <2>3 DEF CollectInv, FlatInv, InRecord
<1>5. CASE FlatRecord
  <2>1. at = "record" /\ UNCHANGED <<samples, size>>
    BY <1>5 DEF FlatRecord
  <2>2. DatagramSize' = DatagramSize /\ size = DatagramSize
    BY <2>1 DEF DatagramSize, FlatInv
  <2>3. /\ i \in 1..Len(samples) /\ j \in 1..Len(samples[i].slots)
        /\ off' = RecordEnd(samples, i, j)
    BY <1>5, RecordWritten
  <2>4. (i + 1) - 1 = i /\ (j + 1) - 1 = j
    <3>1. i \in Int /\ j \in Int
      BY <2>3
    <3>2. QED
      BY <3>1
  <2>5. CASE at' = "record" /\ i' = i /\ j' = j + 1 /\ j + 1 \in 1..Len(samples[i].slots)
    BY <2>1, <2>2, <2>3, <2>4, <2>5 DEF CollectInv, FlatInv, InRecord
  <2>6. CASE /\ at' = "sample" /\ i' = i + 1 /\ j' = 1 /\ i + 1 \in 1..Len(samples)
             /\ off' = SampleEnd(samples, i)
    BY <2>1, <2>2, <2>4, <2>6 DEF CollectInv, FlatInv, InRecord
  <2>7. CASE /\ at' = "done" /\ i' = i /\ j' = j /\ i = Len(samples)
             /\ off' = SampleEnd(samples, i)
    BY <2>1, <2>2, <2>3, <2>7, LastSampleEnds DEF CollectInv, FlatInv, InRecord
  <2>8. QED
    BY <1>5, <2>5, <2>6, <2>7, RecordWritten
<1>6. CASE FlatNull
  <2>1. at = "record" /\ at' = "crashed" /\ UNCHANGED <<samples, flatVars>>
    BY <1>6 DEF FlatNull
  <2>2. QED
    BY <2>1 DEF CollectInv, FlatInv, InRecord, DatagramSize, flatVars
<1>7. CASE UNCHANGED vars
  BY <1>7 DEF vars, flatVars, CollectInv, FlatInv, InRecord, DatagramSize
<1>8. QED
  BY <1>1, <1>2, <1>3, <1>4, <1>5, <1>6, <1>7, StepKinds

(***************************************************************************)
(* The length words.                                                       *)
(***************************************************************************)

LEMMA OneMore ==
  ASSUME NEW ms \in Seq(Marks), NEW m \in Marks
  PROVE  /\ Append(ms, m) \in Seq(Marks) /\ Len(ms) \in Nat
         /\ Len(Append(ms, m)) = Len(ms) + 1
         /\ Append(ms, m)[Len(ms) + 1] = m
         /\ \A k \in 1..Len(ms) : Append(ms, m)[k] = ms[k]
OBVIOUS

\* A sample's mark ends the sample before it.
LEMMA SampleMarkLeads ==
  ASSUME NEW ms \in Seq(Marks), NEW m \in Marks, m.level = "sample", NEW here,
         Leads(ms, m.pos, m.pos)
  PROVE  Leads(Append(ms, m), here, EndOf(m))
<1>1. PICK ns : ns = Append(ms, m)
  OBVIOUS
<1>2. PICK n \in Nat : n = Len(ms)
  OBVIOUS
<1>3. Len(ns) = n + 1 /\ ns[n + 1] = m /\ \A k \in 1..n : ns[k] = ms[k]
  BY <1>1, <1>2, OneMore
<1>4. ASSUME NEW k \in 1..n + 1, ns[k].level = "sample"
      PROVE  SampleLeads(ns, k, EndOf(m))
  <2>1. CASE k = n + 1
    <3>1. (n + 1) + 1..n + 1 = {}
      OBVIOUS
    <3>2. QED
      BY <1>3, <2>1, <3>1 DEF SampleLeads, OnlyRecords
  <2>2. CASE k # n + 1
    <3>1. k \in 1..n /\ ns[k] = ms[k] /\ ms[k].level = "sample"
      BY <1>3, <1>4, <2>2
    <3>2. SampleLeads(ms, k, m.pos)
      BY <1>2, <3>1 DEF Leads
    <3>3. CASE OnlyRecords(ms, k + 1, n) /\ EndOf(ms[k]) = m.pos
      <4>1. n + 1 \in k + 1..n + 1 /\ (n + 1) - 1 = n /\ \A o \in k + 1..n : o \in 1..n
        BY <3>1
      <4>2. OnlyRecords(ns, k + 1, n)
        BY <1>3, <3>3, <4>1 DEF OnlyRecords
      <4>3. QED
        BY <1>3, <3>1, <3>3, <4>1, <4>2 DEF SampleLeads
    <3>4. ASSUME NEW q \in k + 1..n, ms[q].level = "sample", ms[q].pos = EndOf(ms[k]),
                 OnlyRecords(ms, k + 1, q - 1)
          PROVE  SampleLeads(ns, k, EndOf(m))
      <4>1. q \in 1..n /\ q \in k + 1..n + 1 /\ \A o \in k + 1..q - 1 : o \in 1..n
        BY <3>1
      <4>2. OnlyRecords(ns, k + 1, q - 1)
        BY <1>3, <3>4, <4>1 DEF OnlyRecords
      <4>3. QED
        BY <1>3, <3>1, <3>4, <4>1, <4>2 DEF SampleLeads
    <3>5. QED
      BY <1>2, <3>2, <3>3, <3>4 DEF SampleLeads
  <2>3. QED
    BY <2>1, <2>2
<1>5. ASSUME NEW k \in 1..n + 1, ns[k].level # "sample"
      PROVE  RecordLeads(ns, k, here)
  <2>1. k \in 1..n /\ k + 1 \in 1..n + 1 /\ k # n + 1
    BY <1>3, <1>5
  <2>2. RecordLeads(ms, k, m.pos) /\ ns[k] = ms[k]
    BY <1>2, <1>3, <1>5, <2>1 DEF Leads
  <2>3. ns[k + 1].pos = IF k = n THEN m.pos ELSE ms[k + 1].pos
    BY <1>3, <2>1
  <2>4. QED
    BY <1>2, <1>3, <2>1, <2>2, <2>3 DEF RecordLeads
<1>6. QED
  BY <1>1, <1>3, <1>4, <1>5 DEF Leads

\* A record's mark ends the record before it, and leaves the samples as they are.
LEMMA RecordMarkLeads ==
  ASSUME NEW ms \in Seq(Marks), NEW m \in Marks, m.level = "record", NEW reached,
         Leads(ms, m.pos, reached)
  PROVE  Leads(Append(ms, m), EndOf(m), reached)
<1>1. PICK ns : ns = Append(ms, m)
  OBVIOUS
<1>2. PICK n \in Nat : n = Len(ms)
  OBVIOUS
<1>3. Len(ns) = n + 1 /\ ns[n + 1] = m /\ \A k \in 1..n : ns[k] = ms[k]
  BY <1>1, <1>2, OneMore
<1>4. ASSUME NEW k \in 1..n + 1, ns[k].level = "sample"
      PROVE  SampleLeads(ns, k, reached)
  <2>1. k \in 1..n
    BY <1>3, <1>4
  <2>2. ns[k] = ms[k] /\ SampleLeads(ms, k, reached)
    BY <1>2, <1>3, <1>4, <2>1 DEF Leads
  <2>3. CASE OnlyRecords(ms, k + 1, n) /\ EndOf(ms[k]) = reached
    <3>1. ASSUME NEW o \in k + 1..n + 1 PROVE ns[o].level = "record"
      <4>1. o = n + 1 \/ (o \in k + 1..n /\ o \in 1..n)
        BY <2>1
      <4>2. QED
        BY <1>3, <2>3, <4>1 DEF OnlyRecords
    <3>2. QED
      BY <1>3, <2>2, <2>3, <3>1 DEF SampleLeads, OnlyRecords
  <2>4. ASSUME NEW q \in k + 1..n, ms[q].level = "sample", ms[q].pos = EndOf(ms[k]),
               OnlyRecords(ms, k + 1, q - 1)
        PROVE  SampleLeads(ns, k, reached)
    <3>1. q \in 1..n /\ q \in k + 1..n + 1 /\ \A o \in k + 1..q - 1 : o \in 1..n
      BY <2>1
    <3>2. OnlyRecords(ns, k + 1, q - 1)
      BY <1>3, <2>4, <3>1 DEF OnlyRecords
    <3>3. QED
      BY <1>3, <2>2, <2>4, <3>1, <3>2 DEF SampleLeads
  <2>5. QED
    BY <1>2, <2>2, <2>3, <2>4 DEF SampleLeads
<1>5. ASSUME NEW k \in 1..n + 1, ns[k].level # "sample"
      PROVE  RecordLeads(ns, k, EndOf(m))
  <2>1. CASE k = n + 1
    BY <1>3, <2>1 DEF RecordLeads
  <2>2. CASE k # n + 1
    <3>1. k \in 1..n /\ k + 1 \in 1..n + 1
      BY <2>2
    <3>2. RecordLeads(ms, k, m.pos) /\ ns[k] = ms[k]
      BY <1>2, <1>3, <1>5, <3>1 DEF Leads
    <3>3. ns[k + 1].pos = IF k = n THEN m.pos ELSE ms[k + 1].pos
      BY <1>3, <3>1
    <3>4. QED
      BY <1>2, <1>3, <2>2, <3>2, <3>3 DEF RecordLeads
  <2>3. QED
    BY <2>1, <2>2
<1>6. QED
  BY <1>1, <1>3, <1>4, <1>5 DEF Leads

LEMMA MarksInvStep ==
  ASSUME TypeInv, PlaceInv, MarksInv, [Next]_vars
  PROVE  MarksInv'
<1>1. CASE Packs
  <2>1. at = "collect" /\ at' = at /\ UNCHANGED flatVars
    BY <1>1 DEF Packs, Collect
  <2>2. Reached' = Reached
    BY <2>1 DEF Reached, InRecord, flatVars
  <2>3. marks' = marks /\ off' = off
    BY <2>1 DEF flatVars
  <2>4. QED
    BY <2>2, <2>3 DEF MarksInv
<1>2. CASE ReadNextPacket
  <2>1. UNCHANGED <<at, samples, flatVars>>
    BY <1>2 DEF ReadNextPacket
  <2>2. Reached' = Reached /\ marks' = marks /\ off' = off
    BY <2>1 DEF Reached, InRecord, flatVars
  <2>3. QED
    BY <2>2 DEF MarksInv
<1>3. CASE FlatHeader
  <2>1. marks = <<>> /\ marks' = marks
    BY <1>3 DEF FlatHeader, PlaceInv, CollectInv
  <2>2. marks' \in Seq(Marks) /\ 1..Len(marks') = {}
    BY <2>1
  <2>3. QED
    BY <2>2 DEF MarksInv, Leads
<1>4. CASE FlatSample
  <2>1. PICK m : m = [level |-> "sample", pos |-> off, len |-> samples[i].len]
    OBVIOUS
  <2>2. m \in Marks /\ m.level = "sample" /\ m.pos = off
    BY <1>4, <2>1, SampleWritten DEF Marks
  <2>3. marks' = Append(marks, m) /\ at = "sample" /\ at' = "record" /\ UNCHANGED <<samples, i>>
    BY <1>4, <2>1 DEF FlatSample, Mark
  <2>4. Reached = off
    BY <2>3 DEF Reached, InRecord
  <2>5. Reached' = EndOf(m)
    <3>1. EndOf(m) = SampleEnd(samples, i)
      BY <1>4, <2>1, SampleWritten DEF EndOf
    <3>2. Reached' = SampleEnd(samples, i)
      BY <2>3 DEF Reached, InRecord
    <3>3. QED
      BY <3>1, <3>2
  <2>6. Leads(marks, m.pos, m.pos) /\ marks \in Seq(Marks)
    BY <2>2, <2>4 DEF MarksInv
  <2>7. Append(marks, m) \in Seq(Marks) /\ Leads(Append(marks, m), off', EndOf(m))
    BY <2>2, <2>6, SampleMarkLeads
  <2>8. QED
    BY <2>3, <2>5, <2>7 DEF MarksInv
<1>5. CASE FlatRecord
  <2>1. PICK m : m = [level |-> "record", pos |-> off, len |-> samples[i].slots[j].len]
    OBVIOUS
  <2>2. m \in Marks /\ m.level = "record" /\ m.pos = off
    BY <1>5, <2>1, RecordWritten DEF Marks
  <2>3. marks' = Append(marks, m) /\ at = "record" /\ samples' = samples
    BY <1>5, <2>1 DEF FlatRecord, Mark
  <2>4. off' = EndOf(m)
    <3>1. EndOf(m) = off + RECORD_HEADER + samples[i].slots[j].len
      BY <2>1 DEF EndOf
    <3>2. QED
      BY <1>5, <3>1, RecordWritten
  <2>5. Reached' = Reached
    <3>1. Reached = SampleEnd(samples, i)
      BY <2>3 DEF Reached, InRecord
    <3>2. \/ at' = "record" /\ i' = i
          \/ at' \in {"sample", "done"} /\ off' = SampleEnd(samples, i)
      BY <1>5, RecordWritten
    <3>3. QED
      BY <2>3, <3>1, <3>2 DEF Reached, InRecord
  <2>6. Leads(marks, m.pos, Reached) /\ marks \in Seq(Marks)
    BY <2>2 DEF MarksInv
  <2>7. Append(marks, m) \in Seq(Marks) /\ Leads(Append(marks, m), EndOf(m), Reached)
    BY <2>2, <2>6, RecordMarkLeads
  <2>8. QED
    BY <2>3, <2>4, <2>5, <2>7 DEF MarksInv
<1>6. CASE FlatNull
  <2>1. at = "record" /\ at' = "crashed" /\ UNCHANGED <<samples, flatVars>>
    BY <1>6 DEF FlatNull
  <2>2. Reached' = Reached /\ marks' = marks /\ off' = off
    BY <2>1 DEF Reached, InRecord, flatVars
  <2>3. QED
    BY <2>2 DEF MarksInv
<1>7. CASE UNCHANGED vars
  <2>1. Reached' = Reached /\ marks' = marks /\ off' = off
    BY <1>7 DEF Reached, InRecord, vars, flatVars
  <2>2. QED
    BY <2>1 DEF MarksInv
<1>8. QED
  BY <1>1, <1>2, <1>3, <1>4, <1>5, <1>6, <1>7, StepKinds

(***************************************************************************)
(* The theorems.                                                           *)
(***************************************************************************)

Inv == TypeInv /\ PlaceInv /\ MarksInv

\* The invariant that the theorems below follow from: what packing has built, where
\* the next structure of sflow_datagram_flat is written, and where the length words
\* that it has written lead (sflow_protocol_branches.c:385-430).
THEOREM FlatInvariant == Spec => []Inv
<1>1. Init => Inv
  <2> SUFFICES ASSUME Init PROVE Inv
    OBVIOUS
  <2>1. /\ at = "collect" /\ samples = <<>> /\ marks = <<>> /\ captured = 0
        /\ i = 1 /\ j = 1 /\ size = 0 /\ off = 0
    BY DEF Init
  <2>2. TypeInv
    BY <2>1 DEF TypeInv
  <2>3. PlaceInv
    BY <2>1 DEF PlaceInv, CollectInv, FlatInv, InRecord
  <2>4. marks \in Seq(Marks) /\ 1..Len(marks) = {}
    BY <2>1
  <2>5. MarksInv
    BY <2>4 DEF MarksInv, Leads
  <2>6. QED
    BY <2>2, <2>3, <2>5 DEF Inv
<1>2. Inv /\ [Next]_vars => Inv'
  BY TypeInvStep, PlaceInvStep, MarksInvStep DEF Inv
<1>3. QED
  BY <1>1, <1>2, PTL DEF Spec

\* No structure writes behind the end of the buffer that sflow_datagram_flat has sized
\* by adding up the noted lengths (sflow_protocol_branches.c:399-404).
THEOREM WritesInBufferHolds == Spec => []WritesInBuffer
<1>1. Inv => WritesInBuffer
  <2> SUFFICES ASSUME TypeInv, PlaceInv, size > 0 PROVE off <= size
    BY DEF Inv, WritesInBuffer
  <2>1. at # "collect"
    BY DEF PlaceInv, CollectInv
  <2>2. /\ i \in 1..Len(samples) /\ samples \in Seq(BuiltSamples)
        /\ size = SampleEnd(samples, Len(samples)) /\ Len(samples) \in Nat
    BY <2>1, LastSampleEnds DEF PlaceInv, FlatInv, TypeInv
  <2>3. size \in Nat /\ SampleEnd(samples, i) \in Nat /\ SampleEnd(samples, i) <= size
    <3>1. i \in 0..Len(samples) /\ Len(samples) \in 0..Len(samples)
      BY <2>2
    <3>2. QED
      BY <2>2, <3>1, SampleEnds
  <2>4. CASE at = "sample"
    <3>1. off = SampleEnd(samples, i - 1) /\ i - 1 \in 0..Len(samples)
      BY <2>2, <2>4 DEF PlaceInv, FlatInv
    <3>2. QED
      BY <2>2, <3>1, SampleEnds
  <2>5. CASE InRecord
    <3>1. j \in 1..Len(samples[i].slots) /\ off = RecordEnd(samples, i, j - 1)
      BY <2>1, <2>5 DEF PlaceInv, FlatInv
    <3>2. j - 1 \in 0..Len(samples[i].slots)
      BY <2>2, <3>1, RecordEnds
    <3>3. off \in Nat /\ off <= SampleEnd(samples, i)
      BY <2>2, <3>1, <3>2, RecordEnds
    <3>4. QED
      BY <2>3, <3>3
  <2>6. CASE at = "done"
    BY <2>1, <2>3, <2>6 DEF PlaceInv, FlatInv
  <2>7. QED
    BY <2>1, <2>4, <2>5, <2>6 DEF TypeInv, InRecord
<1>2. QED
  BY <1>1, FlatInvariant, PTL

\* The buffer that goes to sendto is filled: what the packers' lengths promise, the
\* flat functions write (sflow_protocol_branches.c:419-430).
THEOREM BufferFilledHolds == Spec => []BufferFilled
<1>1. Inv => BufferFilled
  BY DEF Inv, PlaceInv, FlatInv, BufferFilled
<1>2. QED
  BY <1>1, FlatInvariant, PTL

\* A collector that follows the length words of the finished datagram comes from sample
\* to sample, inside one from record to record, and to the end of the buffer.
THEOREM LengthsLeadHolds == Spec => []LengthsLead
<1>1. Inv => LengthsLead
  <2> SUFFICES ASSUME TypeInv, PlaceInv, MarksInv, at = "done",
                      NEW k \in DOMAIN marks,
                      NEW next, next = {n \in DOMAIN marks :
                        n > k /\ (marks[k].level = "sample" => marks[n].level = "sample")}
               PROVE  IF next = {} THEN EndOf(marks[k]) = size
                      ELSE \E n \in next : /\ marks[n].pos = EndOf(marks[k])
                                          /\ \A o \in next : n <= o
    BY DEF Inv, LengthsLead, EndOf
  <2>1. off = size /\ Reached = size
    BY DEF PlaceInv, FlatInv, Reached, InRecord
  <2>2. PICK last \in Nat : last = Len(marks) /\ DOMAIN marks = 1..last
    BY DEF MarksInv
  <2>3. k \in 1..last /\ \A n \in next : n \in k + 1..last
    BY <2>2
  <2>4. CASE marks[k].level = "sample"
    <3>1. SampleLeads(marks, k, size)
      BY <2>1, <2>2, <2>3, <2>4 DEF MarksInv, Leads
    <3>2. \A n \in next : marks[n].level = "sample"
      BY <2>4
    <3>3. CASE OnlyRecords(marks, k + 1, last) /\ EndOf(marks[k]) = size
      <4>1. next = {}
        BY <2>3, <3>2, <3>3 DEF OnlyRecords
      <4>2. QED
        BY <3>3, <4>1
    <3>4. ASSUME NEW n \in k + 1..last, marks[n].level = "sample",
                 marks[n].pos = EndOf(marks[k]), OnlyRecords(marks, k + 1, n - 1)
          PROVE  n \in next /\ \A o \in next : n <= o
      <4>1. n \in next
        BY <2>2, <2>3, <3>4
      <4>2. ASSUME NEW o \in next, ~(n <= o) PROVE FALSE
        <5>1. o \in k + 1..n - 1
          BY <2>3, <4>2
        <5>2. QED
          BY <3>2, <3>4, <4>2, <5>1 DEF OnlyRecords
      <4>3. QED
        BY <4>1, <4>2
    <3>5. QED
      BY <2>2, <3>1, <3>3, <3>4 DEF SampleLeads
  <2>5. CASE marks[k].level # "sample"
    <3>1. EndOf(marks[k]) = IF k = last THEN size ELSE marks[k + 1].pos
      BY <2>1, <2>2, <2>3, <2>5 DEF MarksInv, Leads, RecordLeads
    <3>2. next = k + 1..last
      BY <2>2, <2>3, <2>5
    <3>3. CASE k = last
      BY <3>1, <3>2, <3>3
    <3>4. CASE k # last
      <4>1. k + 1 \in next /\ \A o \in next : k + 1 <= o
        BY <2>3, <3>2, <3>4
      <4>2. QED
        BY <3>1, <3>4, <4>1
    <3>5. QED
      BY <3>3, <3>4
  <2>6. QED
    BY <2>4, <2>5
<1>2. QED
  BY <1>1, FlatInvariant, PTL
================================================================================
