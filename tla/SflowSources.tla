------------------------------ MODULE SflowSources ------------------------------
(***************************************************************************)
(* The registry of sample sources (src/sflow/sflow_source.c) and the       *)
(* threads that share it (src/sflow/sflow_driver.c):                       *)
(*   - door threads, which add, remove and show sources (sflow_door.c);    *)
(*   - the master thread, which selects on the interrupt sources' fds;     *)
(*   - one polling thread per polling source, cancelled on removal.        *)
(* sflow_inter_src_mod_mtx guards to_watch, maxfd and the fd array.  The   *)
(* list of all sources has a mutex too, which only the insertion takes.    *)
(*                                                                         *)
(* Using a freed object either faults (Fault) or finds its old fields.     *)
(***************************************************************************)
EXTENDS Integers, Sequences

CONSTANTS
  DoorThreads,  \* threads that serve door calls; Solaris starts them on demand
  Srcs,         \* source objects, 1..n: each is allocated once (bound)
  FDs,          \* descriptors snoop sockets can get
  Names,        \* source names
  PrefixOf,     \* pairs <<p, n>>: p is a prefix of n
  Requests,     \* the requests for removal clients make (bound)
  MaxZones,     \* zones a request for "all" of them finds after the first (bound)
  All,          \* "all", as a name or a type in a request
  NULL,         \* null pointers
  Master        \* the master thread, as owner of the mutex

Types == {"flow", "poll"}

ASSUME SrcsAssumption == Srcs \subseteq Nat
ASSUME FDsAssumption == FDs \subseteq Nat
ASSUME RequestsAssumption ==
  Requests \subseteq [name : Names \cup {All}, type : Types \cup {All}]
ASSUME NamesAssumption ==
  Names # {} /\ PrefixOf \subseteq Names \X Names /\ All \notin Names
ASSUME MaxZonesAssumption == MaxZones \in Nat
ASSUME NullAssumption == NULL \notin Srcs \cup FDs \cup {Master}

VARIABLES
  obj,       \* the source objects: life, ss_type, ss_name, ss_fd
  list,      \* sflow_all_sources: the objects of its nodes, in order
  toWatch,   \* to_watch
  maxfd,     \* maxfd
  fdSources, \* sflow_fd_sources, through its map
  openFds,   \* descriptors the process has open as snoop sockets
  inter,     \* sflow_inter_src_mod_mtx: its owner
  door,      \* door threads: step, object at hand, last node passed, request, zones left
  master,    \* the master thread: step, and to_read
  poll,      \* polling threads: step, cancel pending, cancel state
  up         \* the process is running

regVars == <<toWatch, maxfd, fdSources, inter>>
vars == <<obj, list, regVars, openFds, door, master, poll, up>>

NoRequest == [name |-> All, type |-> All]

Lowest(S) == CHOOSE i \in S : \A j \in S : i <= j
Highest(S) == CHOOSE i \in S : \A j \in S : j <= i
Linked == {list[i] : i \in DOMAIN list}

Objects == [life : {"none", "live", "freed"}, type : Types, name : Names,
            fd : FDs \cup {NULL}]
Unborn == [life |-> "none", type |-> "flow", name |-> CHOOSE n \in Names : TRUE,
           fd |-> NULL]
DoorSteps == {"idle", "make", "spawn", "lock_add", "insert", "walk_rm", "stop", "lock_rm",
              "close", "free", "unlink", "walk_show"}
Doors == [at : DoorSteps, src : Srcs \cup {NULL}, pre : Srcs \cup {NULL},
          used : Requests \cup {NoRequest}, zones : Nat]
Masters == [at : {"start", "loop", "lock", "select", "scan", "usleep"},
            toRead : SUBSET FDs]
PollSteps == {"none", "start", "enable", "sleep", "disable", "sample", "dead"}
Polls == [at : PollSteps, cancel : BOOLEAN, enabled : BOOLEAN]

Init ==
  /\ obj = [s \in Srcs |-> Unborn]
  /\ list = <<>>
  /\ toWatch = {} /\ maxfd = -1
  /\ fdSources = [fd \in FDs |-> NULL]
  /\ openFds = {}
  /\ inter = NULL
  /\ door = [d \in DoorThreads |-> [at |-> "idle", src |-> NULL, pre |-> NULL,
              used |-> NoRequest, zones |-> 0]]
  /\ master = [at |-> "start", toRead |-> {}]
  /\ poll = [s \in Srcs |-> [at |-> "none", cancel |-> FALSE, enabled |-> TRUE]]
  /\ up = TRUE

\* Thread d serves a door call and is at a step of it, in a running process.
At(d, step) == up /\ door[d].at = step

(***************************************************************************)
(* Adding a source.                                                        *)
(***************************************************************************)

Fresh == Lowest({s \in Srcs : obj[s].life = "none"})

\* sflow_make_add_one_source_type: the object is filled in; a flow source opens its
\* snoop socket.  Failures before that leave the registry alone.
MakeSource(d, type, zones) ==
  /\ \E s \in Srcs : obj[s].life = "none"
  /\ \E name \in Names :
       \E fd \in IF type = "flow" THEN FDs \ openFds ELSE {NULL} :
         /\ obj' = [obj EXCEPT ![Fresh] = [life |-> "live", type |-> type,
                                           name |-> name, fd |-> fd]]
         /\ openFds' = openFds \cup ({fd} \ {NULL})
         /\ door' = [door EXCEPT ![d] =
              [@ EXCEPT !.at = IF type = "flow" THEN "lock_add" ELSE "spawn",
                        !.src = Fresh, !.zones = zones]]
  /\ UNCHANGED <<list, regVars, master, poll, up>>

\* sflow_add_source: a type and a name, which may be "all" for zones: they are listed
\* once, and a source is made for each in turn.
RequestAdd(d) ==
  /\ At(d, "idle")
  /\ \/ \E type \in Types : MakeSource(d, type, 0)
     \/ \E zones \in 1..MaxZones : MakeSource(d, "poll", zones)

\* The next zone of "all".  One that has halted since is passed over: its failure is
\* the call's result only if it is the last.
NextZone(d) ==
  /\ At(d, "make")
  /\ \/ MakeSource(d, "poll", door[d].zones - 1)
     \/ /\ door' = [door EXCEPT ![d] =
               [@ EXCEPT !.at = IF door[d].zones = 1 THEN "idle" ELSE "make",
                         !.zones = door[d].zones - 1]]
        /\ UNCHANGED <<obj, list, regVars, openFds, master, poll, up>>

\* Mutants of WatchFd: select's first argument kept in maxfd; no unlock.
WatchFdCount(d) ==
  LET s == door[d].src
      fd == obj[s].fd
  IN  /\ At(d, "lock_add") /\ inter = NULL
      /\ toWatch' = toWatch \cup {fd}
      /\ maxfd' = IF fd > maxfd THEN fd + 1 ELSE maxfd
      /\ fdSources' = [fdSources EXCEPT ![fd] = s]
      /\ door' = [door EXCEPT ![d].at = "insert"]
      /\ UNCHANGED <<obj, list, inter, openFds, master, poll, up>>
WatchFdKeepsLock(d) ==
  LET s == door[d].src
      fd == obj[s].fd
  IN  /\ At(d, "lock_add") /\ inter = NULL
      /\ toWatch' = toWatch \cup {fd}
      /\ maxfd' = IF fd > maxfd THEN fd ELSE maxfd
      /\ fdSources' = [fdSources EXCEPT ![fd] = s]
      /\ inter' = d
      /\ door' = [door EXCEPT ![d].at = "insert"]
      /\ UNCHANGED <<obj, list, openFds, master, poll, up>>

\* sflow_add_source_type, interrupt sources: one critical section.
WatchFd(d) ==
  LET s == door[d].src
      fd == obj[s].fd
  IN  /\ At(d, "lock_add")
      /\ inter = NULL
      /\ toWatch' = toWatch \cup {fd}
      /\ maxfd' = IF fd > maxfd THEN fd ELSE maxfd
      /\ fdSources' = [fdSources EXCEPT ![fd] = s]
      /\ door' = [door EXCEPT ![d].at = "insert"]
      /\ UNCHANGED <<obj, list, inter, openFds, master, poll, up>>

\* ... and polling sources: pthread_create may fail, with a positive error that
\* the caller's test for a negative one lets pass.
SpawnPollThread(d) ==
  /\ At(d, "spawn")
  /\ \/ poll' = [poll EXCEPT ![door[d].src] =
                   [at |-> "start", cancel |-> FALSE, enabled |-> TRUE]]
     \/ UNCHANGED poll
  /\ door' = [door EXCEPT ![d].at = "insert"]
  /\ UNCHANGED <<obj, list, regVars, openFds, master, up>>

\* list_insert_tail under sflow_all_src_mod_mtx, which nobody holds any longer.
InsertSource(d) ==
  /\ At(d, "insert")
  /\ list' = Append(list, door[d].src)
  /\ door' = [door EXCEPT ![d] =
       [@ EXCEPT !.at = IF door[d].zones = 0 THEN "idle" ELSE "make", !.src = NULL]]
  /\ UNCHANGED <<obj, regVars, openFds, master, poll, up>>

(***************************************************************************)
(* Walking the list: no mutex is taken.                                    *)
(***************************************************************************)

Position(s) == CHOOSE i \in DOMAIN list : list[i] = s

\* list_head or list_next of the last node passed.  The successor of a node that
\* another thread has freed is whatever that memory leads to.
NextNodes(pre) ==
  IF pre = NULL
  THEN IF list = <<>> THEN {NULL} ELSE {Head(list)}
  ELSE IF pre \notin Linked THEN Linked \cup {NULL}
  ELSE {IF Position(pre) = Len(list) THEN NULL ELSE list[Position(pre) + 1]}

Matches(req, s) ==
  /\ req.name = All \/ <<req.name, obj[s].name>> \in PrefixOf
  /\ req.type = All \/ req.type = obj[s].type

\* The handler passes sflow_remove_source a pointer it has not set: the request it
\* reads is any, or the read faults.
RequestRemoval(d) ==
  /\ At(d, "idle")
  /\ \/ /\ \E used \in Requests :
             door' = [door EXCEPT ![d] = [@ EXCEPT !.at = "walk_rm", !.used = used]]
        /\ UNCHANGED up
     \/ up' = FALSE /\ UNCHANGED door
  /\ UNCHANGED <<obj, list, regVars, openFds, master, poll>>

\* Mutant of RemovalStep: the loop steps onto the node it is about to remove.
RemovalStepOnto(d) ==
  /\ At(d, "walk_rm")
  /\ \E s \in NextNodes(door[d].pre) :
       door' = [door EXCEPT ![d] =
         IF s = NULL THEN [@ EXCEPT !.at = "idle", !.pre = NULL]
         ELSE IF Matches(@.used, s) THEN [@ EXCEPT !.at = "stop", !.src = s, !.pre = s]
         ELSE [@ EXCEPT !.pre = s]]
  /\ UNCHANGED <<obj, list, regVars, openFds, master, poll, up>>

\* One turn of sflow_remove_source's loop, up to the call of sflow_stop_source.
RemovalStep(d) ==
  /\ At(d, "walk_rm")
  /\ \E s \in NextNodes(door[d].pre) :
       door' = [door EXCEPT ![d] =
         IF s = NULL THEN [@ EXCEPT !.at = "idle", !.pre = NULL, !.used = NoRequest]
         ELSE IF Matches(@.used, s) THEN [@ EXCEPT !.at = "stop", !.src = s]
         ELSE [@ EXCEPT !.pre = s]]
  /\ UNCHANGED <<obj, list, regVars, openFds, master, poll, up>>

\* Mutant of StopSource: the cancellation is left to the thread that finds no source.
StopSourceNoCancel(d) ==
  /\ At(d, "stop")
  /\ door' = [door EXCEPT ![d].at = IF obj[door[d].src].type = "flow" THEN "lock_rm" ELSE "free"]
  /\ UNCHANGED <<obj, list, regVars, openFds, master, poll, up>>

\* sflow_stop_source: pthread_cancel for a polling source.  Without a thread it
\* fails, and the function returns without freeing the source.
StopSource(d) ==
  LET s == door[d].src
  IN  /\ At(d, "stop")
      /\ \/ /\ obj[s].type = "flow"
            /\ door' = [door EXCEPT ![d].at = "lock_rm"]
            /\ UNCHANGED poll
         \/ /\ obj[s].type = "poll" /\ poll[s].at \in {"none", "dead"}
            /\ door' = [door EXCEPT ![d].at = "unlink"]
            /\ UNCHANGED poll
         \/ /\ obj[s].type = "poll" /\ poll[s].at \notin {"none", "dead"}
            /\ poll' = [poll EXCEPT ![s].cancel = TRUE]
            /\ door' = [door EXCEPT ![d].at = "free"]
      /\ UNCHANGED <<obj, list, regVars, openFds, master, up>>

\* Mutants of UnwatchFd: no FD_CLR; no mutex.
UnwatchFdNoClear(d) ==
  LET fd == obj[door[d].src].fd
      left == {f \in FDs \ {fd} : fdSources[f] # NULL}
  IN  /\ At(d, "lock_rm") /\ inter = NULL
      /\ fdSources' = [fdSources EXCEPT ![fd] = NULL]
      /\ maxfd' = IF maxfd = fd /\ left # {} THEN Highest(left) ELSE maxfd
      /\ door' = [door EXCEPT ![d].at = "close"]
      /\ UNCHANGED <<obj, list, toWatch, inter, openFds, master, poll, up>>
UnwatchFdNoLock(d) ==
  LET fd == obj[door[d].src].fd
      left == {f \in FDs \ {fd} : fdSources[f] # NULL}
  IN  /\ At(d, "lock_rm")
      /\ toWatch' = toWatch \ {fd}
      /\ fdSources' = [fdSources EXCEPT ![fd] = NULL]
      /\ maxfd' = IF maxfd = fd /\ left # {} THEN Highest(left) ELSE maxfd
      /\ door' = [door EXCEPT ![d].at = "close"]
      /\ UNCHANGED <<obj, list, inter, openFds, master, poll, up>>

\* The critical section of sflow_stop_source.  maxfd moves to the highest entry
\* left, and stays where it is when there is none.
UnwatchFd(d) ==
  LET fd == obj[door[d].src].fd
      left == {f \in FDs \ {fd} : fdSources[f] # NULL}
  IN  /\ At(d, "lock_rm")
      /\ inter = NULL
      /\ toWatch' = toWatch \ {fd}
      /\ fdSources' = [fdSources EXCEPT ![fd] = NULL]
      /\ maxfd' = IF maxfd = fd /\ left # {} THEN Highest(left) ELSE maxfd
      /\ door' = [door EXCEPT ![d].at = "close"]
      /\ UNCHANGED <<obj, list, inter, openFds, master, poll, up>>

\* Mutant of CloseFd: the socket stays open.
CloseFdForgotten(d) ==
  /\ At(d, "close")
  /\ door' = [door EXCEPT ![d].at = "free"]
  /\ UNCHANGED <<obj, list, regVars, openFds, master, poll, up>>

CloseFd(d) ==
  /\ At(d, "close")
  /\ openFds' = openFds \ {obj[door[d].src].fd}
  /\ door' = [door EXCEPT ![d].at = "free"]
  /\ UNCHANGED <<obj, list, regVars, master, poll, up>>

FreeSource(d) ==
  /\ At(d, "free")
  /\ obj' = [obj EXCEPT ![door[d].src].life = "freed"]
  /\ door' = [door EXCEPT ![d].at = "unlink"]
  /\ UNCHANGED <<list, regVars, openFds, master, poll, up>>

\* Removing a node that is not linked any more leaves the list, in memory that still
\* holds its old content, as it is.
ListRemove(s) ==
  IF s \notin Linked THEN list
  ELSE [k \in 1..(Len(list) - 1) |-> IF k < Position(s) THEN list[k] ELSE list[k + 1]]

\* Mutant of UnlinkNode: the loop goes on behind the node after the removed one.
UnlinkNodeSkips(d) ==
  LET next == CHOOSE s \in NextNodes(door[d].src) : TRUE
  IN  /\ At(d, "unlink")
      /\ list' = ListRemove(door[d].src)
      /\ door' = [door EXCEPT ![d] = [@ EXCEPT !.at = "walk_rm", !.src = NULL,
                   !.pre = IF next = NULL THEN @ ELSE next]]
      /\ UNCHANGED <<obj, regVars, openFds, master, poll, up>>

\* list_remove and free of the node; the loop goes on from the node before it.
UnlinkNode(d) ==
  /\ At(d, "unlink")
  /\ list' = ListRemove(door[d].src)
  /\ door' = [door EXCEPT ![d] = [@ EXCEPT !.at = "walk_rm", !.src = NULL]]
  /\ UNCHANGED <<obj, regVars, openFds, master, poll, up>>

\* sflow_show_src, one node at a time.
RequestShow(d) ==
  /\ At(d, "idle")
  /\ list # <<>>
  /\ door' = [door EXCEPT ![d] = [@ EXCEPT !.at = "walk_show", !.pre = NULL]]
  /\ UNCHANGED <<obj, list, regVars, openFds, master, poll, up>>

ShowStep(d) ==
  /\ At(d, "walk_show")
  /\ \E s \in NextNodes(door[d].pre) :
       door' = [door EXCEPT ![d] =
         IF s = NULL THEN [@ EXCEPT !.at = "idle", !.pre = NULL] ELSE [@ EXCEPT !.pre = s]]
  /\ UNCHANGED <<obj, list, regVars, openFds, master, poll, up>>

(***************************************************************************)
(* The master thread.                                                      *)
(***************************************************************************)

MasterAt(step) == up /\ master.at = step

MasterGoto(from, to) ==
  /\ MasterAt(from)
  /\ master' = [master EXCEPT !.at = to]
  /\ UNCHANGED <<obj, list, openFds, door, poll, up>>

\* The thread's first act, without the mutex: FD_ZERO(&to_watch).
MasterStart ==
  /\ MasterGoto("start", "loop")
  /\ toWatch' = {}
  /\ UNCHANGED <<maxfd, fdSources, inter>>

\* maxfd is read before the mutex is taken; -1 means sleep and look again.
MasterLoop ==
  /\ maxfd >= 0
  /\ MasterGoto("loop", "lock")
  /\ UNCHANGED regVars

MasterLock ==
  /\ MasterGoto("lock", "select")
  /\ inter = NULL
  /\ inter' = Master
  /\ UNCHANGED <<toWatch, maxfd, fdSources>>

Watched == {fd \in toWatch : fd <= maxfd}

\* select fails on a descriptor that is not open: the loop starts over at once.
SelectFails ==
  /\ ~(Watched \subseteq openFds)
  /\ MasterGoto("select", "loop")
  /\ inter' = NULL
  /\ UNCHANGED <<toWatch, maxfd, fdSources>>

\* Nothing to read: the mutex is released for the length of usleep(1000).
SelectTimesOut ==
  /\ Watched \subseteq openFds
  /\ MasterGoto("select", "usleep")
  /\ inter' = NULL
  /\ UNCHANGED <<toWatch, maxfd, fdSources>>

MasterWakes ==
  /\ MasterGoto("usleep", "loop")
  /\ UNCHANGED regVars

SelectReady ==
  /\ Watched \subseteq openFds
  /\ \E ready \in SUBSET Watched \ {{}} :
       master' = [at |-> "scan", toRead |-> ready]
  /\ MasterAt("select")
  /\ UNCHANGED <<obj, list, regVars, openFds, door, poll, up>>

\* One ready descriptor: read it, find its source, pack and append the sample.
ReadFd ==
  /\ MasterAt("scan") /\ master.toRead # {}
  /\ fdSources[Lowest(master.toRead)] # NULL
  /\ master' = [master EXCEPT !.toRead = @ \ {Lowest(@)}]
  /\ UNCHANGED <<obj, list, regVars, openFds, door, poll, up>>

ScanDone ==
  /\ master.toRead = {}
  /\ MasterGoto("scan", "loop")
  /\ inter' = NULL
  /\ UNCHANGED <<toWatch, maxfd, fdSources>>

(***************************************************************************)
(* A polling thread (sflow_polling_source_instance_container_thread).      *)
(***************************************************************************)

PollGoto(s, from, to) ==
  /\ up /\ poll[s].at = from
  /\ poll' = [poll EXCEPT ![s] = to]
  /\ UNCHANGED <<obj, list, regVars, openFds, door, master, up>>

\* Disables cancellation, and asserts that its source is a polling source.  A new
\* thread starts with cancellation enabled and logs before it gets here.
PollStart(s) ==
  PollGoto(s, "start", [poll[s] EXCEPT !.at = "enable", !.enabled = FALSE])

\* Mutant of PollEnable: cancellation stays disabled.
PollEnableNot(s) ==
  PollGoto(s, "enable", [poll[s] EXCEPT !.at = "sleep"])

\* Enables cancellation, and reads the interval to sleep from the source.
PollEnable(s) ==
  PollGoto(s, "enable", [poll[s] EXCEPT !.at = "sleep", !.enabled = TRUE])

PollWakes(s) ==
  /\ ~(poll[s].cancel /\ poll[s].enabled)
  /\ PollGoto(s, "sleep", [poll[s] EXCEPT !.at = "disable"])

\* Mutant of PollDisable: cancellation stays enabled.
PollDisableNot(s) ==
  PollGoto(s, "disable", [poll[s] EXCEPT !.at = "sample"])

PollDisable(s) ==
  PollGoto(s, "disable", [poll[s] EXCEPT !.at = "sample", !.enabled = FALSE])

\* Packs a sample and appends it to the buffer: the sender's mutex is taken and
\* released, with cancellation points (logging, sendto) in between.
PollSample(s) ==
  /\ ~(poll[s].cancel /\ poll[s].enabled)
  /\ PollGoto(s, "sample", [poll[s] EXCEPT !.at = "enable"])

\* A pending cancellation acts at a cancellation point, if it is enabled there.
PollCancelled(s) ==
  /\ poll[s].cancel /\ poll[s].enabled
  /\ \E at \in {"start", "sleep", "sample"} : PollGoto(s, at, [poll[s] EXCEPT !.at = "dead"])

(***************************************************************************)
(* Uses of freed memory, and of the null pointer.                          *)
(***************************************************************************)

Unusable(s) == IF s = NULL THEN TRUE ELSE obj[s].life = "freed"

DoorOnFreed(d) ==
  \/ door[d].at \in {"stop", "lock_rm", "close", "free"} /\ Unusable(door[d].src)
  \/ door[d].at = "unlink" /\ door[d].src \notin Linked
  \/ /\ door[d].at \in {"walk_rm", "walk_show"}
     /\ \/ door[d].pre \notin Linked \cup {NULL}
        \/ \E s \in NextNodes(door[d].pre) \ {NULL} : Unusable(s)
MasterOnFreed ==
  master.at = "scan" /\ master.toRead # {} /\ Unusable(fdSources[Lowest(master.toRead)])
PollOnFreed(s) == poll[s].at \in {"start", "enable", "sample"} /\ Unusable(s)

UsesFreed ==
  MasterOnFreed \/ (\E d \in DoorThreads : DoorOnFreed(d)) \/ (\E s \in Srcs : PollOnFreed(s))

\* The process dies of it: a fault, or a failed assertion.
Fault ==
  /\ up /\ UsesFreed
  /\ up' = FALSE
  /\ UNCHANGED <<obj, list, regVars, openFds, door, master, poll>>

DoorContinue(d) ==
  \/ NextZone(d) \/ WatchFd(d) \/ SpawnPollThread(d) \/ InsertSource(d)
  \/ RemovalStep(d) \/ StopSource(d) \/ UnwatchFd(d) \/ CloseFd(d)
  \/ FreeSource(d) \/ UnlinkNode(d) \/ ShowStep(d)

DoorStep(d) ==
  RequestAdd(d) \/ RequestRemoval(d) \/ RequestShow(d) \/ DoorContinue(d)

MasterStep ==
  \/ MasterStart \/ MasterLoop \/ MasterLock \/ SelectFails \/ SelectTimesOut
  \/ SelectReady \/ ReadFd \/ ScanDone \/ MasterWakes

PollStep(s) ==
  \/ PollStart(s) \/ PollEnable(s) \/ PollWakes(s) \/ PollDisable(s)
  \/ PollSample(s) \/ PollCancelled(s)

Next ==
  \/ \E d \in DoorThreads : DoorStep(d)
  \/ MasterStep
  \/ \E s \in Srcs : PollStep(s)
  \/ Fault

Spec == Init /\ [][Next]_vars

\* Runnable threads run, but a mutex is not granted to a waiter that another thread
\* keeps overtaking.  While the master sleeps nobody overtakes a door thread: a
\* millisecond is long enough for a runnable thread to take a free mutex.
TakeWhileMasterSleeps(d) ==
  master.at = "usleep" /\ (WatchFd(d) \/ UnwatchFd(d))

Fairness ==
  /\ \A d \in DoorThreads :
       /\ WF_vars(DoorContinue(d))
       /\ SF_vars(TakeWhileMasterSleeps(d))
  /\ WF_vars(MasterStep)
  /\ \A s \in Srcs : WF_vars(PollStep(s))

FairSpec == Spec /\ Fairness

(***************************************************************************)
(* Properties.                                                             *)
(***************************************************************************)

TypeOK ==
  /\ obj \in [Srcs -> Objects]
  /\ list \in Seq(Srcs)
  /\ toWatch \subseteq FDs /\ maxfd \in FDs \cup {-1}
  /\ fdSources \in [FDs -> Srcs \cup {NULL}]
  /\ openFds \subseteq FDs
  /\ inter \in {NULL, Master}
  /\ door \in [DoorThreads -> Doors]
  /\ master \in Masters
  /\ poll \in [Srcs -> Polls]
  /\ up \in BOOLEAN

IsFlowSourceOf(s, fd) ==
  s # NULL /\ obj[s].life = "live" /\ obj[s].type = "flow" /\ obj[s].fd = fd

\* A watched descriptor is open, within select's range and that of the array, and
\* leads to the live source that owns it, at every moment the master may look.
WatchedFdsHaveSources ==
  \A fd \in toWatch :
    fd \in openFds /\ fd <= maxfd /\ IsFlowSourceOf(fdSources[fd], fd)

\* The master never packs a sample for a removed source or of a polling one
\* ("should be a inter src", sflow_driver.c:161-163), however long its scan takes
\* after select.
MasterReadsLiveSources ==
  master.at = "scan" =>
    \A fd \in master.toRead : fd <= maxfd /\ IsFlowSourceOf(fdSources[fd], fd)

\* A walk of the list stands on a node that is still linked, and every node it can
\* reach next holds a source that is not freed (sflow_source.c:543-551, 619-627).
WalksAreSafe ==
  \A d \in DoorThreads :
    door[d].at \in {"walk_rm", "walk_show"} =>
      /\ door[d].pre # NULL => door[d].pre \in Linked
      /\ \A s \in NextNodes(door[d].pre) : s # NULL => obj[s].life = "live"

\* Between calls the open sockets are those of the listed flow sources: no removal
\* leaks a socket, and none closes one that is in use.
SocketsMatchList ==
  (\A d \in DoorThreads : door[d].at = "idle") =>
    openFds = {obj[s].fd : s \in {t \in Linked : obj[t].type = "flow"}}

\* When a removal returns, no listed source matches the request it worked from,
\* although the loop unlinks nodes under its own feet (sflow_source.c:543-565).
RemovalIsComplete ==
  [][\A d \in DoorThreads :
       (door[d].at = "walk_rm" /\ door'[d].at = "idle") =>
          \A s \in Linked' : ~Matches(door[d].used, s)]_vars

\* A polling thread dies in its sleep, never inside the sender, where it may own
\* the buffer's mutex (sflow_driver.c:217-224).
NoDeathInSender ==
  [][\A s \in Srcs : poll[s].at = "sample" => poll'[s].at # "dead"]_vars

\* A cancelled polling thread finishes the sample at hand and starts no other.
NoPollAfterCancel ==
  [][\A s \in Srcs : (poll[s].cancel /\ poll[s].at \in {"enable", "sleep"}) =>
       poll'[s].at \in {"enable", "sleep", "dead"}]_vars

\* A removed polling source's thread ends.
CancelledThreadsEnd ==
  \A s \in Srcs : poll[s].cancel ~> (poll[s].at = "dead" \/ ~up)

WaitsForInter(d) == door[d].at \in {"lock_add", "lock_rm"}

\* No add or remove waits for ever unless, from some point on, every select finds data
\* or fails: the master's usleep lets others grab the lock (sflow_driver.c:145-148).
DoorServedByQuietMaster ==
  ([]<>(master.at = "select") => []<>(master.at = "usleep")) =>
    \A d \in DoorThreads : WaitsForInter(d) ~> (~WaitsForInter(d) \/ ~up)

\* Only a polling thread that is told to end can meet its source freed, whichever
\* door threads removed it (sflow_source.c:487-493, sflow_driver.c:213-224).
FreedAfterCancel ==
  \A s \in Srcs : PollOnFreed(s) => poll[s].cancel

\* "this single thread keeps checking all the interrupt sources file descriptors"
\* (sflow_driver.c:111): a listed flow source is watched, outside of calls.
AllFlowSourcesWatched ==
  (\A d \in DoorThreads : door[d].at = "idle") =>
    \A s \in Linked : obj[s].type = "flow" => obj[s].fd \in toWatch

\* What a removal's request wants removed, and the calls that remove it.
Wanted(req) ==
  {k \in Names \X Types : /\ req.name = All \/ <<req.name, k[1]>> \in PrefixOf
                          /\ req.type = All \/ req.type = k[2]}
InRemoval == {"walk_rm", "stop", "lock_rm", "close", "free", "unlink"}
Removals ==
  {[by |-> d, wanted |-> Wanted(door[d].used)] :
     d \in {e \in DoorThreads : door[e].at \in InRemoval}}

\* The sources at the hand of a door thread that adds them, and those that are gone.
BeingAdded ==
  {door[d].src : d \in {e \in DoorThreads : door[e].at \in {"lock_add", "spawn", "insert"}}}
Removed == {s \in Srcs : obj[s].life # "none"} \ (Linked \cup BeingAdded)

\* The sources of which a thread will go on to take samples.
IsPolled(s) == poll[s].at \notin {"none", "dead"} /\ ~poll[s].cancel
Sampled == {s \in Srcs : IsPolled(s)} \cup {fdSources[fd] : fd \in toWatch}

Kind == [s \in Srcs |-> IF obj[s].life = "none" THEN <<>> ELSE <<obj[s].name, obj[s].type>>]

Registry ==
  INSTANCE SourceRegistry WITH
    Sources <- Srcs, Callers <- DoorThreads,
    Kinds <- Names \X Types, Polled <- Names \X {"poll"},
    kind <- Kind, registered <- list, removed <- Removed, sampled <- Sampled,
    removals <- Removals, selecting <- (master.at # "start")

\* The objects, threads and descriptors implement a registry in which a source is
\* registered once, only what a request wants is removed, and no sample is begun of a
\* source once it is out of the list (sflow_source.c:128-186, 440-567).
RegistryRefined == Registry!RegistrySpec
================================================================================
