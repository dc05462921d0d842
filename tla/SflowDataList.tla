----------------------------- MODULE SflowDataList -----------------------------
(***************************************************************************)
(* The counted list of src/sflow/sflow_data_list.c: a FIFO of (data, size) *)
(* nodes that carries its length and the sum of its nodes' sizes.  A node  *)
(* whose size is CHECK_DATA poisons the sum ("size is recorded in data").  *)
(***************************************************************************)
EXTENDS Integers, Sequences

CHECK_DATA == -1

NodeCreate(data, size) == [data |-> data, size |-> size]

ListCreate == [nodes |-> <<>>, count |-> 0, size |-> 0]

\* Mutants of ListAppend: the size assigned instead of added; list_insert_head.
ListAppendSetsSize(list, node) ==
  [nodes |-> Append(list.nodes, node), count |-> list.count + 1, size |-> node.size]
ListInsertHead(list, node) ==
  [nodes |-> <<node>> \o list.nodes, count |-> list.count + 1,
   size |-> list.size + node.size]

ListAppend(list, node) ==
  [nodes |-> Append(list.nodes, node),
   count |-> list.count + 1,
   size  |-> IF node.size = CHECK_DATA THEN CHECK_DATA ELSE list.size + node.size]

\* One sflow_data_list_read: the head node, and the list without it.
ListHead(list) == Head(list.nodes)
ListTail(list) ==
  [nodes |-> Tail(list.nodes),
   count |-> list.count - 1,
   size  |-> IF list.size = CHECK_DATA THEN CHECK_DATA
             ELSE list.size - ListHead(list).size]

\* Mutant of ListDrain: the nodes themselves, not the data they point to.
ListDrainNodes(list) == list.nodes

\* The loop every packer runs over a list before freeing it: "count" reads,
\* keeping the data pointers in order.
ListDrain(list) == [i \in 1..list.count |-> list.nodes[i].data]
================================================================================
