# TLA+ for sflowd

`sflowd` (`src/sflow/`) is an sFlow agent for Solaris. It samples packets from data links and
statistics from data links, the host and its zones, packs the samples into sFlow datagrams and
sends them to a collector over UDP. `sfadm` (`src/sfadm/`) adds, removes and lists sample sources
by door calls to the daemon.

This directory holds the specifications of its parts, the TLC configurations that check them, and
proofs for TLAPS. The specifications are written from the C code: an action is one call or one
statement that touches shared state, and its comment names the function.

    tlc -config SflowSender.cfg SflowSender             # a run (PROJECT.json lists them)
    tlapm SflowSender_proofs.tla                        # a proof

## 1. Inventory

Threads of the daemon: the *signal thread* (`sighandler`), the *master thread*
(`sflow_interrupt_sources_master_thread`), one *polling thread* for each polling source
(`sflow_polling_source_instance_container_thread`), and the *door threads* that the door library
starts to serve `sflowd_door_handler`. All of them share memory. When the daemon starts there is a
parent process besides, which waits on a pipe for the child's answer and gives the service manager
an exit status.

| Component | State | Operations | Talks to |
|---|---|---|---|
| Sample buffer and sender (`sflow_sender.c`, `sighandler`) | the buffered list and its mutex, the alarm indicator (a mutex used as a flag), the process's alarm, `datagram_count` | `sflow_append_sample_to_send`, `send_samples` | called by the master, the polling threads and the signal thread; calls packing and `sendto` |
| Counted list (`sflow_data_list.c`) | nodes, their number, the sum of their sizes | create, append, read, free | used by the sender and every packer |
| Datagram packing (`sflow_protocol_branches.c`) | nested structures with their lengths; a buffer | `*_pack`, `*_flat` | sources pack records and samples, the sender the datagram |
| Leaves (`sflow_protocol_leaf_*.c`) | one record | `get_sample_*`, `*_pack`, `*_flat` | kernel statistics; packing |
| Zone cache (`sflow_protocol_leaf_hostv.c`) | the snapshot, the handles into it, a time stamp, `sflow_zlock` | `sflow_update_zone_stat`, `sflow_get_zone_stat` | polling threads of virtual host sources |
| Source registry (`sflow_source.c`) | the list of sources, `to_watch`, `maxfd`, the descriptor array, two mutexes | add, remove, show | called by door threads; starts and cancels polling threads; read by the master |
| Expanding array (`expanding_array.c`) | pointers, capacity | set, get | the registry's map from descriptors to sources |
| Master and polling threads (`sflow_driver.c`) | `to_read`; cancel state | select and scan; sleep and sample | registry, leaves, sender |
| Door server (`sflow_door.c`) | none | `sflowd_door_handler` | `sfadm`; registry |
| Start-up (`sflow_driver.c`, `sflow_door.c`, `svc-sflowd`, `sflow.xml`) | a pipe between parent and child with its four ends, what is attached to the door file, the blocked signals | `sflowd_daemonize`, `sflowd_init*`, `sflow_open_door`, `sighandler` | service manager; creates the signal and master threads |
| Configuration file (`sflow_config.c`) | none | read key=value lines | nobody calls it |
| `sfadm`, example collector | none | one door call; decode datagrams | door server; the network |

What is hard here, and what makes each part correct:

- **Sender.** Two locks with different disciplines (one is unlocked by threads that did not lock
  it), one timer for everybody, a signal that may already be pending when the timer is cancelled,
  a list that is freed and replaced in the middle of a send. Correct: samples are neither lost,
  duplicated nor reordered; datagrams fit; numbers follow the wire; what is buffered is sent;
  calls return.
- **Registry, master, polling threads.** The array and `to_watch` are guarded by a mutex that the
  master holds most of the time, the list by a mutex that only insertion takes, polling threads by
  nothing but their cancel state. Correct: a watched descriptor always leads to the live source
  that owns it; sockets do not leak; removals are complete; threads are not killed inside the
  sender, and end when they are cancelled.
- **Zone cache.** A handle is good as long as its snapshot; refreshes fail in three places.
  Correct: one snapshot is allocated, the list leads to it, handles in use are live.
- **Datagram.** Lengths are noted in one place and bytes written in another, and a packet's bytes
  are copied long after it was read. Correct: the buffer is filled exactly, the length words lead
  through it, a sample carries the header of its own packet.
- **Start-up.** Two processes that share a pipe, either of which may die anywhere; signals that
  kill at first and are blocked later; a door file that outlives the daemon. Correct: every start
  is answered, a good answer is true, and a failed start leaves nothing running that could have
  known of it.

`PROJECT.json` lists the components with their status and every hazard at its line.

## 2. Modules

| Module | Models | Used by |
|---|---|---|
| `SflowDataList` | the counted list, as operators | `SflowSender`, `SflowDatagram` |
| `SequenceTotals` | running totals of lengths, as the loops keep them | `SflowSender`, `SflowDatagram`, `SequenceTotals_proofs` |
| `SflowSender` | sender, signal thread, timer | `SflowSender_proofs` |
| `SampleBatching` | what the sender promises: a batcher without threads | instantiated by `SflowSender` |
| `ExpandingArray` | the array's growth, taken apart into memory operations | `ExpandingArray_proofs` |
| `PointerMap` | what the array promises: a total map | instantiated by `ExpandingArray` |
| `SflowSources` | registry, door threads, master, polling threads | `MCSflowSources`, `SflowSources_proofs`, `SflowDaemon` |
| `SourceRegistry` | what the registry promises: sources added, sampled and removed, without threads | instantiated by `SflowSources` |
| `SflowDaemon` | the processes around the registry: service manager, parent, child, signals, door file | `MCSflowDaemon`, `SflowDaemon_proofs` |
| `SflowZoneCache` | the zone cache and the threads that use it | `MCSflowZoneCache`, `SflowZoneCache_proofs` |
| `SflowDatagram` | lengths and places of everything in a datagram, and whose packet is copied | `SflowDatagram_proofs` |
| `*_proofs` | theorems about the module they are named after | |

`SflowDaemon` extends `SflowSources` and runs its threads, each from when the start-up has created
it, in one process after another. Otherwise components meet at three seams. A sample that
`SflowSources` takes in `ReadFd` or `PollSample` is what an appender of `SflowSender` brings along
in `TryIndicator`: the appenders are the master and the polling threads. `SflowSources` uses the
descriptor array through the map that `ExpandingArray` is shown to implement. And the size of a
datagram in `SflowSender` is the first loop of `sflow_datagram_flat`, whose lengths
`SflowDatagram` shows to be what is written.

Definitions named "mutant" in the modules are plausible mistakes in the definition they stand
before; no specification uses them. Each property of a passing run fails with one.

### SflowSender

One step is one call on shared state. `mtx` is `sflow_buffered_samples_mtx`; `indicator` is
`sflow_alarm_indicator`, of which only "locked or not" matters because whoever sends unlocks it;
`timer` and `sigalrm` are the process's alarm and its pending signal, which does not queue.
`listFreed` is true between `sflow_datagram_pack`, which frees the list, and
`sflow_data_list_create`. A sample is its producer, its number and its packed length. A send may
fail in the network; the code only logs that, so `SendTo` has one outcome.

The overflow test adds in-memory sizes (`len` and two pointers for each sample, a header of 40
bytes), while the wire has 8 bytes for each sample and 28 of header. `flatBytes` is what the
buffered samples flatten to, so that the two can be compared (`DatagramFits`).

`SampleBatching` is the contract: a sample is accepted into the pending batch only if the batch is
empty or still fits, and a batch leaves whole, numbered in order. The mapping takes the packed but
unsent datagram as still pending: between `pack` and `sendto` the list is empty and the samples
are in `dg[mtx]`. The contract lets a batch leave at any time, and an empty one too: that a
SIGALRM which `alarm(0)` came too late for sends early, or sends nothing, is shown to do no harm
to it, not to be impossible.

### ExpandingArray

`expanding_array_set` with its doubling loop, `realloc` whose new part holds anything (`Junk`),
`memset` and store. `Contents` is what a caller sees; during a call it is what was there before.

### SflowSources

Objects are allocated once each and are live or freed; a freed object keeps its fields, and
`Fault` may end the process wherever the code looks at freed memory or at a null source: both
outcomes are explored. `NextNodes` is `list_next`: of a node that another door thread has freed,
it is any node or the end. `MasterStart` is the `FD_ZERO` with which the master thread begins,
without the mutex. `RequestRemoval` reads the request through the pointer that
`sflowd_door_handler` has not set, so it may be any. `SpawnPollThread` may fail unnoticed, because
errors are positive and the tests are for negative ones. Cancellation is deferred: `PollCancelled`
acts at cancellation points (logging, `sleep`, and inside the sender) if the state enables it.

An add of `all` zones (`RequestAdd` with `zones` in `1..MaxZones`) lists them once and makes one
source after another from it (`NextZone`), passing over those that have halted since.

`SourceRegistry` is the contract with its callers, and with whoever reads the samples. A source is
sampled from before it is registered (`BeginSampling`, `Register`) until its removal has ended
that (`EndSampling`), and only then leaves the others in their order (`Remove`); a removal takes
what its request wants, in any order, and answers when nothing of it is left (`Answer`). The
mapping takes as sampled a source whose thread has not been cancelled, or to which a watched
descriptor leads. A polling thread that has woken from its sleep when it is cancelled finishes the
sample it is at (`NoPollAfterCancel`): to the contract that sample was begun when the thread woke.
`BeginSelecting` is the master's `FD_ZERO` again: the contract has to say that what was watched
before is not sampled any longer, because the code does that. There is no contract to implement
with two door threads, which can register, remove and free what the other has at hand.

### SflowDaemon

The service manager starts `sflowd` (`StartDaemon`), whose parent process closes its writing end
and reads the answer (`ParentCloses`, `ParentReads`), sees the end of the pipe and kills the child
(`ParentReadsEnd`, `ParentKills`), and exits with a status (`ParentExit`), unless it is killed
itself, which may happen at any of these steps (`ParentDies`). `main` is the child's main thread,
one value for each step of `sflowd_daemonize`, `sflowd_init` and `sflow_open_door`; a step that
calls the system has a branch in which it is refused, with the code's test of the error: for
`pthread_create` of the master it is for a negative value and never true, for `fattach` it is the
`errno`. `readers` and `writers` say who has which end of the pipe open; whether a write or a read
ends depends on whether those processes live. Signals kill at once before `MaskSignals` and are
pending after it until the signal thread takes them, which closes the pipe and exits. `doorFile`
outlives the process: what a daemon leaves attached, the next one finds. `disturbed` is a ghost
variable: this start has met a refused call or a signal. A dead process's memory is reset, so that
all daemons after it begin alike.

One bound of this module is a choice, named at its action: there is one daemon at a time (`Clear`
and `StartDaemon` wait for the old one to be gone). A daemon can outlive its failed start: if the
parent is killed when the child's "ok" is in the pipe, or read but not passed on, the service goes
to maintenance and neither process has code that could tell. `FailedStartLeavesNone` makes that
its one exception (`Answered`); without it TLC ends a trace there.

### SflowZoneCache

Snapshots are numbered in the order they are read; `alive` are the ones not freed. The handles of
`zoneList` name their snapshot, so a stale one can be told. The search keeps the code's prefix
comparison. `OpenFails` and `ReadFails` are the two ways a refresh fails: the second after the old
snapshot has been freed.

### SflowDatagram

The `get_sample_*` functions build samples of records; the state machine then writes them in the
order of the flat functions and keeps `off`, the place reached, and the length words with their
places. Structures that are not packed have padding before their function pointer (`Aligned`),
which is written too. Packets are cropped to 128 bytes and whole words.
`sflow_cr_host_adapters_flat` returns a length that it reads from the structure it has just freed;
the model takes it to be unchanged. A zone that halts while its source is being sampled leaves a
null leaf whose flat function is called: that path ends in `crashed`, and the properties are about
datagrams that are completed.

The master has one buffer for all packets (`captured` numbers them) and a raw record keeps its
address. The master may be one packet ahead of the samples in the list (`ReadAhead`): that one
waits for the mutex, or does not fit any longer. `headers` notes which packet each record is given
when it is flattened.

## 3. Runs

| Run | Checks | Bounds |
|---|---|---|
| `sender` | `TypeOK`, `ListAccessSafe`, `IndicatorBacked`, `DatagramFits`, `SequenceIsWireOrder`, `BytesAccounted`, `PerSourceFifo`, `BatchingRefined`, `AlarmDelivers`, `AppendReturns` | two appenders, two samples each, two lengths, under fairness |
| `sender_stranded` | `NoStrandedSamples`: violated | two appenders, one sample each |
| `array` | `TypeOK`, `GetDefined`, `MapRefined` | capacity 2, indices up to 8 |
| `sources_safety` | `TypeOK`, `WatchedFdsHaveSources`, `MasterReadsLiveSources`, `WalksAreSafe`, `SocketsMatchList`, `RemovalIsComplete`, `NoDeathInSender`, `NoPollAfterCancel`, `RegistryRefined` | one door thread, three sources, three descriptors, two zones |
| `sources_liveness` | `FreedAfterCancel`, `CancelledThreadsEnd`, `DoorServedByQuietMaster` | two door threads, two sources, one descriptor, under fairness |
| `daemon` | `LifeTypeOK`, `OnlineIsServing`, `FailureHasCause`, `StartIsAnswered`, `FailedStartLeavesNone` | two door threads, one source, one descriptor, under fairness |
| `fd_zero`, `two_doors` | `AllFlowSourcesWatched`, `WatchedFdsHaveSources`: violated | one or two sources |
| `zone_cache` | `TypeOK`, `OneSnapshot`, `ListIsSnapshot`, `LookupReturns` | two threads, three zones, three snapshots |
| `zone_use` | `UsedZoneIsLive`: violated | the same |
| `datagram` | `WritesInBuffer`, `BufferFilled`, `LengthsLead` | up to three samples of every kind |
| `capture` | `SampleHasItsHeader`: violated | two packets |

Why the bounds are enough:

- *Sender.* The lengths are chosen on the overflow test's boundary: two samples of 664 bytes meet
  it to the byte, 664 and 680 exceed it, and two of 680 would flatten to 1404 bytes. Two samples
  each let every thread be both the one that overflows and the one that starts the alarm. A sample
  larger than any datagram is not in the run: the theorems are for every length.
- *Array.* From a capacity of 2, index 2 doubles once, 4 twice, 8 three times in a call.
- *Sources.* Three descriptors give `maxfd` a middle value to fall back to, three sources give
  removals neighbours in the list, and the descriptor of a closed socket is reused; two zones of
  `all` have one source made after another. Names are one, except that `all` matches everything;
  types differ. With two door threads two sources and one descriptor are enough for every race of
  removals that `two_doors` finds, and for `select` to fail on a closed descriptor.
- *Daemon.* One source suffices for a process to die while it serves; the number of daemons after
  each other is not bounded, since each begins with fresh memory and what the last left of the
  door file.
- *Zones.* Up to three snapshots of one to three zones: the list grows, and is longer than a later
  snapshot; one zone's name is a prefix of another's. A shorter list keeps stale handles behind
  its end, which a search may reach: `Fault` ends the process there, and `ListIsSnapshot` does not
  speak of them.
- *Datagram.* Packets below, at and above the crop and of no whole number of words; hosts with no,
  one and three links; zones that halt.

`CHECK_DEADLOCK FALSE` is set where the model really may stop: when all samples or all source
objects are used up (bounds), when the daemon is idle, when it has died (`up = FALSE`, `crashed`),
when the service waits for an administrator or when the datagram is done. That nothing is blocked
for ever is stated by `AppendReturns`, `LookupReturns`, `DoorServedByQuietMaster` and
`StartIsAnswered` instead.

### Fairness

- *Sender:* weak fairness for what a thread does once it has a sample, for the signal thread and
  for the timer. Threads are scheduled and a running alarm expires; nothing makes a source produce
  samples. No strong fairness for the mutex: samples are finite, so it cannot be taken from a
  waiter for ever.
- *Sources:* weak fairness for the steps of started calls, the master and the polling threads. A
  mutex that is released and retaken at once may never be won, so there is strong fairness for
  taking it only *while the master sleeps* in `usleep`. Accordingly `DoorServedByQuietMaster`
  promises door calls the mutex only if the master, whenever it selects again and again, also
  sleeps again and again. With traffic that is always ready the code promises nothing.
- *Daemon:* the two processes and their threads run, and the service manager runs its methods and
  restarts what has died. Nobody has to send a signal, make a door call or clear the maintenance
  state, and no call has to fail.
- *Zones:* the mutex is held for a few library calls and asked for between polls that are seconds
  apart, so a waiter gets it: strong fairness for the two lock steps.

### What the violations show

Each of these is behaviour of the code; `PROJECT.json` quotes the lines under "findings".

- `NoStrandedSamples`: the indicator is tried before the mutex is taken. A thread that finds it
  locked may append after that alarm has been served; its sample then waits, with no alarm, for
  the next sample of any source. `AlarmDelivers` is what does hold: with an alarm running, what is
  buffered is sent.
- `AllFlowSourcesWatched`: the master's first act may clear a descriptor that a door call has just
  added.
- `WatchedFdsHaveSources` with two door threads: the list is changed without its mutex, so one
  source can be stopped twice and a reused descriptor closed. With one door call at a time it
  holds.
- `UsedZoneIsLive`: a zone handle is used after `sflow_zlock` is released.
- `SampleHasItsHeader`: the raw record points into the master's only packet buffer, which later
  packets overwrite before the datagram is flattened.

`FailedStartLeavesNone` has an exception that is behaviour of the code as well, though no document
promises otherwise: the daemon of a parent that was killed with the good answer in hand stays
(`ParentDies`).

A removal also frees a polling source without waiting for its thread, which may be between its
sleep and its next sample. The models keep that (`PollOnFreed`, `Fault`). What does hold bounds
it: only a cancelled thread can meet its source freed (`FreedAfterCancel`), it takes at most the
sample it has begun (`NoPollAfterCancel`), and it ends (`CancelledThreadsEnd`).

Seen in one step, and kept in the models without a run of their own: a polling source whose thread
could not be started is registered all the same (`SpawnPollThread`), and a daemon whose master
thread could not be started reports success (`InitThreads`); a removal works from an uninitialised
request (`RequestRemoval`); names in requests and zone names match by prefix (`Matches`, `Hits`);
the adapters' length is read after `free` (`LeafBytes`).

## 4. Proofs

TLAPS checks the eight proof modules without further assumptions than the `ASSUME`s of the modules
they extend, which TLC evaluates for the constants of its runs, and `OneDoor` where it is named.

**`SflowSender_proofs`**, for every number of threads and samples, all lengths, every MTU and
pointers of at least 4 bytes: `TypeCorrect`, `ListSafety`, `IndicatorNeverStuck`, `MtuRespected`,
`WireOrder`, `BytesAccountedHolds`, `PerSourceFifoHolds` and `Refinement` (the threads implement
`SampleBatching`). The assumptions are that the signal thread is not an appender, that lengths and
the MTU are naturals, and `PSIZE >= 4`: the last is needed, because a buffered sample must count
for at least the 8 bytes its header has on the wire.

The inductive invariant `IInv` is `ControlInv /\ DataInv`. `ControlInv` has the types of the
control state, `MutexInv` (a thread inside the critical section owns the mutex, so only one is)
and `IndicatorBacked`, inductive together. `DataInv` needs them and adds the types of the data,
`ListInv` (the list is freed only between packing and creation, and empty there), `SizeInv` (the
wire size is bounded by the in-memory sum, and two samples in the list leave room for the header),
`CountInv` and `SentInv`. None of the listed properties is inductive alone: `DatagramFits` speaks
of what was sent, and what decides it is the list before packing; `SequenceIsWireOrder` needs that
a packed datagram's number is the number of those sent. The refinement maps `AppendSample` to
`Accept`, `SendTo` to `Flush` and the rest to stutters.

Two invariants on top of `IInv` speak of every sample rather than of sizes and numbers. `BytesInv`
adds to `BytesAccounted` that a packed datagram has the size of its samples on the wire, which is
what it is sent with; one lemma says what an append adds to a sum (`FlatSizeAppend`).
`PerSourceFifo` is inductive with `NumberedInv`, that a thread in the sender carries a sample of
its own with a number. Its proof is about the stream of samples sent, packed and buffered, in this
order: sending leaves it alone (`SendToStream`: what is packed is next after what is sent, since
only the owner of the mutex has a packed datagram), and appending puts a sample at its end
(`AppendStream`).

**`SequenceTotals_proofs`** is what the two modules about lengths rest on: a running total exists,
is unique, grows by the next number (`TotalsAre`, `TotalAppend`) and, over naturals, does not fall
(`TotalsRise`). The library's induction theorems cannot be instantiated here, so induction over
the naturals is derived once, from their well-foundedness, for a *set* of naturals
(`NatSetInduction`); `Recursion` and `RecursionAgrees` draw from it that a recursive function is
defined and that two of one recursion agree. That is how properties over recursive definitions
come into reach of TLAPS at all.

**`SflowDatagram_proofs`**, for datagrams of any number of samples, packets of any length, hosts
of any number of links and both pointer sizes: `WritesInBufferHolds`, `BufferFilledHolds` and
`LengthsLeadHolds`, from one invariant (`FlatInvariant`). `TypeInv` says that samples are what the
packers build: their length is the total of their records', and a record's is what its leaf writes
(`RecordTypes`, where the two pieces of code meet). `PlaceInv` puts `off` where these lengths say
that everything before it ends (`SampleEnd`, `RecordEnd`): bytes written so far plus lengths to
come are always the size of the buffer, which none of the properties says while the loop runs.
`MarksInv` says of each length word where it leads: a record's to the next word or to `off`, a
sample's to the next sample's or to where the one being written will end, which is behind `off`.

**`ExpandingArray_proofs`**, for every initial capacity, set of indices and of pointers:
`TypeCorrect`, `GetIsDefined` and `Refinement` (`PointerMap`). The invariant says which cells are
known at each point of a call: below the old capacity always, below the new one after the
`memset`.

**`SflowSources_proofs`**, for every number of sources, descriptors, names and zones. For any
number of door threads: `TypeCorrect`, `NoDeathInSenderHolds`, `NoPollAfterCancelHolds`,
`FreedAfterCancelHolds`. With the assumption `OneDoor`, that there is one door thread:
`WalksAreSafeHolds`, `RemovalIsCompleteHolds`, `WatchedFdsHaveSourcesHolds`,
`MasterReadsLiveSourcesHolds`, `SocketsMatchListHolds`. The assumption is needed: `two_doors` is a
counterexample without it. It describes a daemon whose administrators make one call at a time; the
code has nothing that makes them.

- *Types.* `TypeInv` joins the types with what they rest on: listed sources and those at hand have
  been made (`ListInv`, `DoorInv`), flow sources have a descriptor (`ObjectInv`), threads belong
  to made sources and know their cancel state (`PollInv`). `MaxInv` says that `maxfd` bounds the
  array.
- *Walks* (`WalkInv`): no source is in the list twice, listed sources are live unless a removal
  has just freed the one at its hand, and the node a walk stands on is linked. `RemovalInv` adds
  that nothing before that node matches the request.
- *Sockets* (`SocketInv`): open descriptors are those of live flow sources less the one just
  closed, and no two share one.
- *Watching* (`WatchInv`, `ScanInv`): a watched descriptor has its array entry, and what the
  master still has to read is watched, because door threads need the mutex that it holds.
- *Threads* (`AddInv`, `CancelInv`): a source being added is at one hand and in no list, so its
  thread is created before anyone can free it; and a removal cancels a thread before it frees the
  source, even when two removals work on one source.

`RegistryInv` is the conjunction of all but the last and `RemovalInv`; none of the properties is
inductive without it.

**`SourceRegistry_proofs`**, for the same constants and `OneDoor`: `RegistryIsRefined`, that
`SflowSources` implements `SourceRegistry`. All the invariants above are needed at once
(`MappedInv`), and one more: `TargetInv` says that the source at a removal's hand is one its
request wants, and that a polling source about to be unlinked is not polled any longer, since its
thread was cancelled or never existed. There is a lemma for each step that shows (`WatchFdMaps`,
`InsertMaps`, `StopSourceMaps`, `UnwatchFdMaps`, `UnlinkMaps`, ...). `WatchFd` and `UnwatchFd` map
to the begin and the end of one source's sampling because no two sources own one descriptor
(`WatchedSource`, from `SocketInv`); the end of a walk maps to an answer because of `AllPassed`,
which `RemovalIsComplete` rests on as well.

**`SflowDaemon_proofs`**, for the same constants: `LifeTypeCorrect`, `OnlineIsServingHolds` and
`FailureHasCauseHolds`, through every restart. The invariant is `LifeTypes /\ StartInv`:
`StartInv` says at which of the child's steps its door is attached, its signal thread exists and
its answer is written, which it is before the service is online or the parent has read it, and
that without a disturbance `main` has not turned to failure. The registry's steps preserve it
since they leave the daemon's own variables alone, and the types of `SflowSources` hold again in
each new process because its memory is `Init`'s.

**`SflowZoneCache_proofs`**, for every number of threads, finite set of zones and bound on
snapshots: `TypeCorrect`, `OneSnapshotHolds`, `ListIsSnapshotHolds`. `LockInv` says that a thread
at a step inside the critical section owns `sflow_zlock`. `AliveInv` and `LeadInv` say what is
allocated and where the list leads at each step of a refresh: no snapshot is allocated between
`zs_usage_free` and `zs_usage_read`, and the list leads to the snapshot, first its zones and
behind them handles of older ones, except between reading and listing.

Every invariant of a passing run is proved, and so are its refinements and its action properties.
Model-checked only are the liveness properties (`AlarmDelivers`, `AppendReturns`,
`CancelledThreadsEnd`, `DoorServedByQuietMaster`, `StartIsAnswered`, `FailedStartLeavesNone`,
`LookupReturns`): fairness and `ENABLED` are outside the prover's reach.

## 5. Not modelled

- *Contents*: field values of records, byte order, addresses, the statistics themselves; the
  models have no data for them. That includes the uptime, whose look-up two threads can race in
  (`sflow_util.c`): what goes wrong there is one value.
- *Parsing* of names, types and attributes in `sflow_source.c` and `sfadm.c`: reduced to a choice.
  Intervals and the results of door calls are left out: nothing else in the daemon depends on
  them.
- `sfadm` itself: one door call per process, of which the daemon sees the request that
  `SflowSources` chooses.
- *The daemon's surroundings*: `sflowd -f`, two daemons at once.
- `sflow_config.c` is called by nobody; the collector is an example; the flow statistics leaf that
  `sflow_source.c` includes is not in the repository.

## 6. Plan

Done, in this order: the sender with its contract and proofs; the array; the registry with its
threads and proofs; the zone cache and its proofs; the datagram and the packet buffer; the
daemon's life and its proofs; the totals, and the proofs about bytes and order in the sender and
about the datagram; the abstract registry and the proof that the threads implement it.

What could follow:

1. Sources and sender in one module: a polling thread cancelled inside the sender, the master
   blocked on the buffer's mutex while it holds the registry's.
2. Intervals and the results of door calls, once something depends on them.
