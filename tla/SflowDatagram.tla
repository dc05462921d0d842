----------------------------- MODULE SflowDatagram ------------------------------
(***************************************************************************)
(* How samples become bytes: the get_sample functions build nested records *)
(* and note their lengths, sflow_datagram_flat sums the lengths to size a  *)
(* buffer, and every structure then writes itself into it and returns how  *)
(* far it got (src/sflow/sflow_protocol_branches.c and the leaves).  The   *)
(* lengths noted and the bytes written come from different code.           *)
(*                                                                         *)
(* What is written is reduced to its place and to the length words in it.  *)
(* Of a packet's bytes only whose they are is kept: the master thread has  *)
(* one buffer for all packets, and records point into it.                  *)
(***************************************************************************)
EXTENDS Integers, Sequences, SequenceTotals, SflowDataList

CONSTANTS
  Captured,   \* lengths of captured packets
  Links,      \* numbers of data links
  MaxSamples, \* bound: samples in a datagram
  PSIZE,      \* SFLOW_PSIZE, sizeof (void *)
  NULL

ASSUME CapturedAssumption == Captured \subseteq Nat
ASSUME LinksAssumption == Links \subseteq Nat
ASSUME MaxSamplesAssumption == MaxSamples \in Nat
ASSUME PsizeAssumption == PSIZE \in {4, 8}

\* A structure that is not packed has its hypers and its function pointer at multiples of
\* PSIZE.
Aligned(n) == n + ((PSIZE - (n % PSIZE)) % PSIZE)

\* sizeof less SFLOW_PSIZE of the leaves of fixed size.
Fields == [if_generic |-> 88, host_descr |-> 120, host_parent |-> 8, host_cpu |-> 68,
           host_memory |-> 72, host_disk |-> 52, host_net |-> 40,
           virt_node |-> Aligned(28), virt_cpu |-> Aligned(12),
           virt_memory |-> Aligned(16), virt_net |-> Aligned(Aligned(20) + 20)]

DG_HEADER == 28      \* with an IPv4 address
SP_HEADER == 8       \* format and length words of a sample,
RECORD_HEADER == 8   \* and of a record
DataHeader == [flow |-> 32, counter |-> 12]
RAW_HEADER == 16

\* sflow_fr_raw_pkt_pack: at most 128 bytes of a packet, in words.
Crop(len) == LET crop == IF len > 128 THEN 128 ELSE len IN crop - (crop % 4)

\* sflow_gather_adapter: has_count, and per link two words and a padded address.
HasLen(links) == 4 + links * 16

VARIABLES
  at,       \* what sflow_datagram_flat is about to write, or "collect"
  samples,  \* the samples of the datagram: type, len, slots with their records
  i, j,     \* the sample and the record at hand
  size,     \* the buffer's size
  off,      \* where the next structure is written
  marks,    \* the length words in the buffer: level, place, value
  captured, \* the packet in the master's buffer: packets are numbered as they are read
  headers   \* the packet headers written: of which packet, for the sample of which

flatVars == <<i, j, size, off, marks, headers>>
vars == <<at, samples, captured, flatVars>>

Init ==
  /\ at = "collect" /\ samples = <<>>
  /\ i = 1 /\ j = 1
  /\ size = 0 /\ off = 0
  /\ marks = <<>>
  /\ captured = 0 /\ headers = <<>>

(***************************************************************************)
(* Packing.                                                                *)
(***************************************************************************)

Leaf(fmt, n) == [fmt |-> fmt, n |-> n, pkt |-> 0]

\* A raw record keeps the address of the buffer, whose content is packet pkt now.
RawLeaf(len, pkt) == [fmt |-> "raw", n |-> len, pkt |-> pkt]

\* sflow_flow_record_pack and sflow_counter_record_pack: the length of a record.
\* A leaf that could not be packed is a null pointer of a known format.
RecordLen(leaf) ==
  IF leaf.fmt = "raw" THEN RAW_HEADER + Crop(leaf.n)
  ELSE IF leaf.fmt = "host_adapters" THEN HasLen(leaf.n)
  ELSE Fields[leaf.fmt]

Record(leaf) == [leaf |-> leaf, len |-> RecordLen(leaf)]

\* Mutant of SumLens: the records' own headers are forgotten.
SumLensBare(slots) == Total([k \in DOMAIN slots |-> slots[k].len])

SumLens(slots) == Total([k \in DOMAIN slots |-> slots[k].len + RECORD_HEADER])

\* The list as it grows, one record for each leaf.
RecordLists(leaves) ==
  LET list[k \in 0..Len(leaves)] ==
        IF k = 0 THEN ListCreate
        ELSE ListAppend(list[k - 1], NodeCreate(Record(leaves[k]), CHECK_DATA))
  IN  list
RecordList(leaves) == RecordLists(leaves)[Len(leaves)]

\* sflow_flow_sample_pack's loop, unlike that of the other packers, tests the count
\* that its reads decrease: half of the slots of a longer list stay null.
FlowDrain(list) ==
  [k \in 1..list.count |->
     IF 2 * (k - 1) < list.count THEN list.nodes[k].data ELSE NULL]

\* sflow_sample_pack, with the list its caller has drained into slots.
SamplePack(type, slots) ==
  [type |-> type, slots |-> slots, len |-> DataHeader[type] + SumLens(slots)]

Collect(sample) ==
  /\ at = "collect" /\ Len(samples) < MaxSamples
  /\ samples' = Append(samples, sample)
  /\ UNCHANGED <<at, flatVars>>

\* The master has read a packet whose sample is not appended yet: it does not fit any
\* longer, or waits for the buffer's mutex while another thread flattens and sends.
ReadAhead == captured > Len(SelectSeq(samples, LAMBDA sample : sample.type = "flow"))

\* The master reads a packet into its buffer, packs a sample of it and appends it.
GetFlowSample ==
  /\ ~ReadAhead
  /\ captured' = captured + 1
  /\ \E len \in Captured :
       Collect(SamplePack("flow", FlowDrain(RecordList(<<RawLeaf(len, captured + 1)>>))))

\* It reads the packet whose sample will be in the next datagram.
ReadNextPacket ==
  /\ at \in {"collect", "sample", "record"} /\ ~ReadAhead
  /\ captured' = captured + 1
  /\ UNCHANGED <<at, samples, flatVars>>

CounterSample(leaves) ==
  /\ Collect(SamplePack("counter", ListDrain(RecordList(leaves))))
  /\ UNCHANGED captured

GetIfGeneric == CounterSample(<<Leaf("if_generic", 1)>>)

GetHostPhy ==
  \E links \in Links :
    CounterSample(<<Leaf("host_descr", 1), Leaf("host_adapters", links),
                    Leaf("host_cpu", 1), Leaf("host_memory", 1),
                    Leaf("host_disk", 1), Leaf("host_net", 1)>>)

\* n = 0: the zone has gone when its processors or its memory are asked for, and the
\* leaf is NULL.
GetHostV ==
  \E cpu \in {0, 1}, memory \in {0, 1} :
    CounterSample(<<Leaf("host_descr", 1), Leaf("host_parent", 1),
                    Leaf("virt_node", 1), Leaf("virt_cpu", cpu),
                    Leaf("virt_memory", memory), Leaf("virt_net", 1)>>)

(***************************************************************************)
(* Flattening.                                                             *)
(***************************************************************************)

\* The first loop of sflow_datagram_flat.
DatagramSize == DG_HEADER + Total([k \in DOMAIN samples |-> SP_HEADER + samples[k].len])

\* A structure writes n bytes where the one before it has ended.
Write(n) == off' = off + n

Mark(level, len) == marks' = Append(marks, [level |-> level, pos |-> off, len |-> len])

FlatHeader ==
  /\ at = "collect" /\ samples # <<>>
  /\ size' = DatagramSize
  /\ Write(DG_HEADER)
  /\ at' = "sample"
  /\ UNCHANGED <<samples, captured, i, j, marks, headers>>

\* sflow_sample_flat and, of a flow or counter sample, the header.
FlatSample ==
  /\ at = "sample"
  /\ Write(SP_HEADER + DataHeader[samples[i].type])
  /\ Mark("sample", samples[i].len)
  /\ at' = "record" /\ j' = 1
  /\ UNCHANGED <<samples, captured, i, size, headers>>

\* Mutants of LeafBytes: the packet as it was captured; the adapters of a structure
\* without has_count.
LeafBytesWhole(leaf) ==
  IF leaf.fmt = "raw" THEN RAW_HEADER + leaf.n
  ELSE IF leaf.fmt = "host_adapters" THEN HasLen(leaf.n)
  ELSE Fields[leaf.fmt]
LeafBytesUncounted(leaf) ==
  IF leaf.fmt = "raw" THEN RAW_HEADER + Crop(leaf.n)
  ELSE IF leaf.fmt = "host_adapters" THEN HasLen(leaf.n) - 4
  ELSE Fields[leaf.fmt]

\* What the leaves' flat functions write, and return.  That of the adapters reads its
\* length from the structure it has just freed: here it finds it.
LeafBytes(leaf) ==
  IF leaf.fmt = "raw" THEN RAW_HEADER + Crop(leaf.n)
  ELSE IF leaf.fmt = "host_adapters" THEN HasLen(leaf.n)
  ELSE Fields[leaf.fmt]

AfterRecord(s, r) ==
  IF r < Len(samples[s].slots) THEN <<"record", s, r + 1>>
  ELSE IF s < Len(samples) THEN <<"sample", s + 1, 1>>
  ELSE <<"done", s, r>>

IsNull(rec) == rec.leaf.n = 0 /\ rec.leaf.fmt \in {"virt_cpu", "virt_memory"}

\* sflow_fr_raw_pkt_flat copies what is in the master's buffer by now.
CopyHeader(leaf) ==
  headers' = IF leaf.fmt = "raw" THEN Append(headers, [of |-> captured, for |-> leaf.pkt])
             ELSE headers

\* sflow_flow_record_flat or sflow_counter_record_flat, with the leaf's.
FlatRecord ==
  LET rec == samples[i].slots[j]
      after == AfterRecord(i, j)
  IN  /\ at = "record" /\ ~IsNull(rec)
      /\ Write(RECORD_HEADER + LeafBytes(rec.leaf))
      /\ Mark("record", rec.len)
      /\ CopyHeader(rec.leaf)
      /\ at' = after[1] /\ i' = after[2] /\ j' = after[3]
      /\ UNCHANGED <<samples, captured, size>>

\* The flat function of a null leaf is called: the process dies.
FlatNull ==
  /\ at = "record" /\ IsNull(samples[i].slots[j])
  /\ at' = "crashed"
  /\ UNCHANGED <<samples, captured, flatVars>>

Next ==
  \/ GetFlowSample \/ ReadNextPacket \/ GetIfGeneric \/ GetHostPhy \/ GetHostV
  \/ FlatHeader \/ FlatSample \/ FlatRecord \/ FlatNull

Spec == Init /\ [][Next]_vars

(***************************************************************************)
(* Properties.                                                             *)
(***************************************************************************)

\* No structure writes behind the end of the buffer that the lengths made room for
\* (sflow_protocol_branches.c:399-404, 419-427).
WritesInBuffer == size > 0 => off <= size

\* The buffer that goes to sendto is filled to its end, without a gap: what the
\* lengths promise is written.
BufferFilled == at = "done" => off = size

\* A collector that reads a length word and skips as many bytes lands on the next
\* sample, or the end, and inside a sample on the next record, or the sample's end.
LengthsLead ==
  at = "done" =>
    \A k \in DOMAIN marks :
      LET m == marks[k]
          next == {n \in DOMAIN marks :
                     n > k /\ (m.level = "sample" => marks[n].level = "sample")}
          end == m.pos + (IF m.level = "sample" THEN SP_HEADER ELSE RECORD_HEADER) + m.len
      IN  IF next = {} THEN end = size
          ELSE \E n \in next : marks[n].pos = end /\ \A o \in next : n <= o

\* "This thread will request the get_sample function of the such src to pack it to be
\* a sample" (sflow_driver.c:113-114): the header in a flow sample is that of the
\* packet the sample was packed of, whose length the sample gives.
SampleHasItsHeader ==
  \A k \in DOMAIN headers : headers[k].of = headers[k].for
================================================================================
