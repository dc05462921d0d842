--------------------------- MODULE SflowSources_proofs ---------------------------
(***************************************************************************)
(* Proofs about SflowSources, for any number of sources, descriptors and   *)
(* names: type correctness and the polling threads' properties for any     *)
(* number of door threads, the registry's invariants for door calls that   *)
(* are served one at a time.                                               *)
(***************************************************************************)
EXTENDS SflowSources, TLAPS, WellFoundedInduction

(***************************************************************************)
(* The lowest and the highest of a set of naturals, and the list.          *)
(***************************************************************************)

\* Lowest is the least element of its argument.
LEMMA LowestIs ==
  ASSUME NEW S, S \subseteq Nat, S # {}
  PROVE  Lowest(S) \in S /\ \A i \in S : Lowest(S) <= i
<1> DEFINE Less == {ss \in Nat \X Nat : ss[1] < ss[2]}
<1>1. IsWellFoundedOn(Less, Nat)
  BY NatLessThanWellFounded, Zenon DEF OpToRel
<1> HIDE DEF Less
<1>2. PICK i \in S : \A j \in S : ~(<<j, i>> \in Less)
  BY <1>1, WFMin
<1>3. \A j \in S : i <= j
  <2> TAKE j \in S
  <2>1. <<j, i>> \in Nat \X Nat OBVIOUS
  <2>2. ~(j < i) BY <1>2, <2>1 DEF Less
  <2> QED BY <2>2
<1> QED BY <1>3 DEF Lowest

\* Highest is the greatest element of its argument, if there is a bound on it.
LEMMA HighestIs ==
  ASSUME NEW S, S \subseteq Nat, S # {}, NEW b \in Nat, \A i \in S : i <= b
  PROVE  Highest(S) \in S /\ \A i \in S : i <= Highest(S)
<1> DEFINE Dists == {b - i : i \in S}
<1>1. Lowest(Dists) \in Dists /\ \A k \in Dists : Lowest(Dists) <= k
  <2>1. \A i \in S : b - i \in Nat OBVIOUS
  <2>2. Dists \subseteq Nat /\ Dists # {} BY <2>1
  <2> QED BY <2>2, LowestIs
<1>2. PICK i \in S : Lowest(Dists) = b - i
  BY <1>1
<1>3. \A j \in S : j <= i
  <2> TAKE j \in S
  <2>1. b - i <= b - j BY <1>1, <1>2
  <2> QED BY <2>1
<1> QED BY <1>3 DEF Highest

\* A linked node has a position, and the nodes are those at some position.
LEMMA PositionIs ==
  ASSUME list \in Seq(Srcs), NEW s \in Linked
  PROVE  Position(s) \in 1..Len(list) /\ list[Position(s)] = s
BY DEF Position, Linked

\* ListRemove takes one node out of a list without repetitions.
LEMMA ListRemoveIs ==
  ASSUME list \in Seq(Srcs), \A i, j \in 1..Len(list) : list[i] = list[j] => i = j,
         NEW s \in Linked, list' = ListRemove(s)
  PROVE  /\ list' \in Seq(Srcs) /\ Len(list') = Len(list) - 1
         /\ \A i, j \in 1..Len(list') : list'[i] = list'[j] => i = j
         /\ Linked' = Linked \ {s}
         /\ \A k \in 1..(Len(list) - 1) :
              list'[k] = IF k < Position(s) THEN list[k] ELSE list[k + 1]
<1>1. Position(s) \in 1..Len(list) /\ list[Position(s)] = s
  BY PositionIs
<1> DEFINE n == Len(list) - 1
           p == Position(s)
<1>2. list' = [k \in 1..n |-> IF k < p THEN list[k] ELSE list[k + 1]]
  BY DEF ListRemove
<1>3. n \in Nat /\ \A k \in 1..n : (IF k < p THEN list[k] ELSE list[k + 1]) \in Srcs
  BY <1>1
<1>4. list' \in Seq(Srcs) /\ Len(list') = n
  BY <1>2, <1>3
<1>5. \A i, j \in 1..n : list'[i] = list'[j] => i = j
  BY <1>1, <1>2
<1>6. Linked' = Linked \ {s}
  <2>1. ASSUME NEW t \in Linked \ {s} PROVE t \in Linked'
    <3>1. PICK i \in 1..Len(list) : list[i] = t BY DEF Linked
    <3>2. i # p BY <1>1, <3>1
    <3>3. CASE i < p
      <4>1. i \in 1..n /\ list'[i] = t BY <1>1, <1>2, <3>1, <3>3
      <4> QED BY <4>1, <1>4 DEF Linked
    <3>4. CASE p < i
      <4>1. i - 1 \in 1..n /\ list'[i - 1] = t BY <1>1, <1>2, <3>1, <3>4
      <4> QED BY <4>1, <1>4 DEF Linked
    <3> QED BY <1>1, <3>2, <3>3, <3>4
  <2>2. ASSUME NEW t \in Linked' PROVE t \in Linked \ {s}
    <3>1. PICK k \in 1..n : list'[k] = t BY <1>4 DEF Linked
    <3>2. CASE k < p
      BY <1>1, <1>2, <3>1, <3>2 DEF Linked
    <3>3. CASE ~(k < p)
      <4>1. t = list[k + 1] /\ k + 1 \in 1..Len(list) /\ k + 1 # p BY <1>1, <1>2, <3>1, <3>3
      <4> QED BY <1>1, <4>1 DEF Linked
    <3> QED BY <3>2, <3>3
  <2> QED BY <2>1, <2>2
<1> QED BY <1>2, <1>4, <1>5, <1>6

(***************************************************************************)
(* Types, for any number of door threads.                                  *)
(***************************************************************************)

Made(s) == s \in Srcs /\ obj[s].life # "none"

\* The steps at which a door thread has a source at hand.
OnSource == {"spawn", "lock_add", "insert", "stop", "lock_rm", "close", "free", "unlink"}

ObjectInv == \A s \in Srcs : Made(s) /\ obj[s].type = "flow" => obj[s].fd \in FDs

ListInv == \A s \in Linked : Made(s)

DoorInv ==
  \A d \in DoorThreads :
    /\ door[d].at \in OnSource => Made(door[d].src)
    /\ door[d].at \in {"lock_add", "lock_rm"} => obj[door[d].src].type = "flow"
    /\ door[d].at = "make" => door[d].zones > 0

\* Cancellation is disabled while a polling thread samples, enabled while it sleeps.
ThreadInv ==
  \A s \in Srcs :
    /\ poll[s].at # "none" => Made(s)
    /\ poll[s].at = "sample" => ~poll[s].enabled
    /\ poll[s].at = "sleep" => poll[s].enabled

\* A source is given its polling thread once.
SpawnInv ==
  \A d \in DoorThreads :
    door[d].at = "spawn" =>
      /\ poll[door[d].src].at = "none"
      /\ \A e \in DoorThreads : e # d /\ door[e].at = "spawn" => door[e].src # door[d].src

PollInv == ThreadInv /\ SpawnInv

TypeInv == TypeOK /\ ObjectInv /\ ListInv /\ DoorInv /\ PollInv

USE SrcsAssumption, FDsAssumption, RequestsAssumption, NamesAssumption, NullAssumption,
    MaxZonesAssumption

\* The objects that are not made yet are at no thread's hand.
LEMMA FreshIsUnmade ==
  ASSUME TypeOK, \E s \in Srcs : obj[s].life = "none"
  PROVE  Fresh \in Srcs /\ obj[Fresh].life = "none"
<1> DEFINE S == {s \in Srcs : obj[s].life = "none"}
<1>1. S \subseteq Nat /\ S # {} OBVIOUS
<1>2. Lowest(S) \in S BY <1>1, LowestIs
<1> QED BY <1>2 DEF Fresh

\* A node's successor is linked.
LEMMA NextIsLinked ==
  ASSUME list \in Seq(Srcs), NEW pre \in Srcs \cup {NULL}, NEW s \in NextNodes(pre), s # NULL
  PROVE  s \in Linked
<1>1. CASE pre = NULL
  BY <1>1 DEF NextNodes, Linked
<1>2. CASE pre # NULL /\ pre \notin Linked
  BY <1>2 DEF NextNodes
<1>3. CASE pre # NULL /\ pre \in Linked
  <2>1. Position(pre) \in 1..Len(list) BY <1>3, PositionIs
  <2> QED BY <1>3, <2>1 DEF NextNodes, Linked
<1> QED BY <1>1, <1>2, <1>3

\* Unlinking a node keeps the list a sequence of nodes that were linked.
LEMMA ListRemoveType ==
  ASSUME list \in Seq(Srcs), NEW s \in Srcs, list' = ListRemove(s)
  PROVE  list' \in Seq(Srcs) /\ Linked' \subseteq Linked
<1>1. CASE s \notin Linked
  BY <1>1 DEF ListRemove, Linked
<1>2. CASE s \in Linked
  <2>1. Position(s) \in 1..Len(list) BY <1>2, PositionIs
  <2> DEFINE n == Len(list) - 1
  <2>2. list' = [k \in 1..n |-> IF k < Position(s) THEN list[k] ELSE list[k + 1]]
    BY <1>2 DEF ListRemove
  <2>3. n \in Nat /\ \A k \in 1..n : list'[k] \in Linked
    BY <2>1, <2>2 DEF Linked
  <2> QED BY <2>2, <2>3 DEF Linked
<1> QED BY <1>1, <1>2

THEOREM TypeInit == Init => TypeInv
<1> SUFFICES ASSUME Init PROVE TypeInv OBVIOUS
<1>1. Unborn \in Objects BY DEF Unborn, Objects, Types
<1>2. Linked = {} BY DEF Init, Linked
<1>3. TypeOK
  BY <1>1 DEF Init, TypeOK, Doors, DoorSteps, Masters, Polls, PollSteps
<1> QED BY <1>2, <1>3 DEF Init, TypeInv, ObjectInv, ListInv, DoorInv, PollInv, ThreadInv,
          SpawnInv, Made, Unborn,
          OnSource

(***************************************************************************)
(* What each step does to its own thread.                                  *)
(***************************************************************************)

\* A door thread that has moved to step at, with all else of it as it was.
Moved(d, at) ==
  /\ door' \in [DoorThreads -> Doors]
  /\ \A e \in DoorThreads \ {d} : door'[e] = door[e]
  /\ door'[d].at = at
  /\ door'[d].src = door[d].src /\ door'[d].pre = door[d].pre
  /\ door'[d].used = door[d].used /\ door'[d].zones = door[d].zones

\* Changing the step of a thread does that.
LEMMA DoorMoves ==
  ASSUME door \in [DoorThreads -> Doors], NEW d \in DoorThreads, NEW at \in DoorSteps,
         door' = [door EXCEPT ![d].at = at]
  PROVE  Moved(d, at)
<1>1. door[d] \in Doors OBVIOUS
<1>2. [door[d] EXCEPT !.at = at] \in Doors BY <1>1 DEF Doors
<1>3. door' \in [DoorThreads -> Doors] BY <1>2
<1>4. door'[d] = [door[d] EXCEPT !.at = at] /\ \A e \in DoorThreads \ {d} : door'[e] = door[e]
  OBVIOUS
<1> QED BY <1>1, <1>3, <1>4 DEF Moved, Doors

\* So does giving it a whole new state.
LEMMA DoorBecomes ==
  ASSUME door \in [DoorThreads -> Doors], NEW d \in DoorThreads, NEW r \in Doors,
         door' = [door EXCEPT ![d] = r]
  PROVE  /\ door' \in [DoorThreads -> Doors]
         /\ door'[d] = r /\ \A e \in DoorThreads \ {d} : door'[e] = door[e]
OBVIOUS

\* A polling thread that has become r, and no other has changed.
PollBecomes(s, r) ==
  /\ poll' \in [Srcs -> Polls]
  /\ poll'[s] = r /\ \A t \in Srcs \ {s} : poll'[t] = poll[t]

LEMMA PollMoves ==
  ASSUME poll \in [Srcs -> Polls], NEW s \in Srcs, NEW r \in Polls,
         poll' = [poll EXCEPT ![s] = r]
  PROVE  PollBecomes(s, r)
BY DEF PollBecomes

\* The polling threads' invariant rests while none of them moves and no door thread
\* comes to create one.
LEMMA PollKept ==
  ASSUME PollInv, \A s \in Srcs : Made(s) => Made(s)',
         \A s \in Srcs : poll'[s].at = poll[s].at /\ poll'[s].enabled = poll[s].enabled,
         \A d \in DoorThreads :
           door'[d].at = "spawn" =>
             door[d].at = "spawn" /\ door'[d].src = door[d].src /\ Made(door[d].src)
  PROVE  PollInv'
<1>1. ThreadInv' BY DEF PollInv, ThreadInv
<1>2. SpawnInv'
  <2> SUFFICES ASSUME NEW d \in DoorThreads, door'[d].at = "spawn"
               PROVE  /\ poll'[door'[d].src].at = "none"
                      /\ \A e \in DoorThreads :
                           e # d /\ door'[e].at = "spawn" => door'[e].src # door'[d].src
    BY DEF SpawnInv
  <2>1. /\ door[d].at = "spawn" /\ door'[d].src = door[d].src /\ door[d].src \in Srcs
        /\ \A e \in DoorThreads : door'[e].at = "spawn" =>
             door[e].at = "spawn" /\ door'[e].src = door[e].src
    BY DEF Made
  <2>2. /\ poll[door[d].src].at = "none"
        /\ \A e \in DoorThreads : e # d /\ door[e].at = "spawn" => door[e].src # door[d].src
    BY <2>1 DEF PollInv, SpawnInv
  <2> QED BY <2>1, <2>2
<1> QED BY <1>1, <1>2 DEF PollInv

LEMMA PollUntouched ==
  ASSUME PollInv, poll' = poll, \A s \in Srcs : Made(s) => Made(s)',
         \A d \in DoorThreads :
           door'[d].at = "spawn" => door[d].at = "spawn" /\ door'[d].src = door[d].src
  PROVE  PollInv'
<1>1. ThreadInv' BY DEF PollInv, ThreadInv
<1>2. SpawnInv' BY DEF PollInv, SpawnInv
<1> QED BY <1>1, <1>2 DEF PollInv

\* The nodes of the list are sources.
LEMMA LinkedAreSrcs ==
  ASSUME list \in Seq(Srcs)
  PROVE  Linked \subseteq Srcs
BY DEF Linked

USE DEF At

LEMMA WatchFdTypes ==
  ASSUME TypeInv, NEW d \in DoorThreads, WatchFd(d)
  PROVE  TypeInv'
<1>1. Moved(d, "insert")
  BY DoorMoves DEF WatchFd, TypeInv, TypeOK, DoorSteps
<1>2. door[d].src \in Srcs /\ obj[door[d].src].fd \in FDs
  BY DEF TypeInv, DoorInv, ObjectInv, Made, OnSource, WatchFd
<1>3. TypeOK'
  <2>1. toWatch' \subseteq FDs /\ maxfd' \in FDs \cup {-1}
    BY <1>2 DEF TypeInv, TypeOK, WatchFd
  <2>2. fdSources' \in [FDs -> Srcs \cup {NULL}]
    BY <1>2 DEF TypeInv, TypeOK, WatchFd
  <2> QED BY <1>1, <2>1, <2>2 DEF TypeInv, TypeOK, WatchFd, Moved
<1>4. ObjectInv' /\ ListInv'
  BY DEF TypeInv, ObjectInv, ListInv, Made, Linked, WatchFd
<1>5. DoorInv'
  BY <1>1 DEF TypeInv, DoorInv, Made, OnSource, WatchFd, Moved
<1>6. PollInv'
  BY <1>1, PollUntouched DEF TypeInv, Made, WatchFd, Moved
<1> QED BY <1>3, <1>4, <1>5, <1>6 DEF TypeInv

LEMMA SpawnPollThreadTypes ==
  ASSUME TypeInv, NEW d \in DoorThreads, SpawnPollThread(d)
  PROVE  TypeInv'
<1> DEFINE born == [at |-> "start", cancel |-> FALSE, enabled |-> TRUE]
<1>1. Moved(d, "insert")
  BY DoorMoves DEF SpawnPollThread, TypeInv, TypeOK, DoorSteps
<1>2. Made(door[d].src) /\ poll[door[d].src].at = "none"
  BY DEF TypeInv, DoorInv, PollInv, SpawnInv, OnSource, SpawnPollThread
<1>3. born \in Polls BY DEF Polls, PollSteps
<1>4. PollBecomes(door[d].src, born) \/ poll' = poll
  BY <1>2, <1>3, PollMoves DEF SpawnPollThread, TypeInv, TypeOK, Made
<1>5. TypeOK'
  BY <1>1, <1>4 DEF TypeInv, TypeOK, SpawnPollThread, Moved, PollBecomes, regVars
<1>6. ObjectInv' /\ ListInv'
  BY DEF TypeInv, ObjectInv, ListInv, Made, Linked, SpawnPollThread
<1>7. DoorInv'
  BY <1>1 DEF TypeInv, DoorInv, Made, OnSource, SpawnPollThread, Moved
<1>8. ThreadInv'
  BY <1>2, <1>4 DEF TypeInv, PollInv, ThreadInv, PollBecomes, Made, SpawnPollThread
<1>9. SpawnInv'
  <2> SUFFICES ASSUME NEW e \in DoorThreads, door'[e].at = "spawn"
               PROVE  /\ poll'[door'[e].src].at = "none"
                      /\ \A f \in DoorThreads :
                           f # e /\ door'[f].at = "spawn" => door'[f].src # door'[e].src
    BY DEF SpawnInv
  <2>1. \A f \in DoorThreads : door'[f].at = "spawn" => f # d /\ door'[f] = door[f]
    BY <1>1 DEF Moved
  <2>2. /\ door[e].src \in Srcs /\ door[e].src # door[d].src /\ poll[door[e].src].at = "none"
        /\ \A f \in DoorThreads : f # e /\ door[f].at = "spawn" => door[f].src # door[e].src
    BY <2>1 DEF TypeInv, PollInv, SpawnInv, DoorInv, OnSource, Made, SpawnPollThread
  <2>3. poll'[door[e].src] = poll[door[e].src]
    BY <1>4, <2>2 DEF PollBecomes
  <2> QED BY <2>1, <2>2, <2>3
<1> QED BY <1>5, <1>6, <1>7, <1>8, <1>9 DEF TypeInv, PollInv

LEMMA InsertSourceTypes ==
  ASSUME TypeInv, NEW d \in DoorThreads, InsertSource(d)
  PROVE  TypeInv'
<1> DEFINE s == door[d].src
           r == [door[d] EXCEPT !.at = IF door[d].zones = 0 THEN "idle" ELSE "make", !.src = NULL]
<1>1. door[d] \in Doors BY DEF TypeInv, TypeOK
<1>2. r \in Doors BY <1>1 DEF Doors, DoorSteps
<1>3. /\ door' \in [DoorThreads -> Doors]
      /\ door'[d] = r /\ \A e \in DoorThreads \ {d} : door'[e] = door[e]
  BY <1>2, DoorBecomes DEF InsertSource, TypeInv, TypeOK
<1>4. door'[d].at \in {"idle", "make"} /\ door'[d].zones = door[d].zones
      /\ (door'[d].at = "make" => door'[d].zones > 0)
  BY <1>1, <1>3 DEF Doors
<1>5. Made(s) BY DEF TypeInv, DoorInv, OnSource, InsertSource
<1>6. list' \in Seq(Srcs) /\ Linked' = Linked \cup {s}
  <2>1. list \in Seq(Srcs) /\ s \in Srcs /\ list' = Append(list, s)
    BY <1>5 DEF TypeInv, TypeOK, InsertSource, Made
  <2> QED BY <2>1 DEF Linked
<1>7. TypeOK'
  BY <1>3, <1>6 DEF TypeInv, TypeOK, InsertSource, regVars
<1>8. ObjectInv' /\ ListInv'
  BY <1>5, <1>6 DEF TypeInv, ObjectInv, ListInv, Made, InsertSource
<1>9. DoorInv'
  BY <1>3, <1>4 DEF TypeInv, DoorInv, Made, OnSource, InsertSource
<1>10. PollInv'
  BY <1>3, <1>4, PollUntouched DEF TypeInv, Made, InsertSource
<1> QED BY <1>7, <1>8, <1>9, <1>10 DEF TypeInv

LEMMA RequestRemovalTypes ==
  ASSUME TypeInv, NEW d \in DoorThreads, RequestRemoval(d)
  PROVE  TypeInv'
<1>1. CASE door' = door
  <2>1. TypeOK' BY <1>1 DEF TypeInv, TypeOK, RequestRemoval, regVars
  <2>2. ObjectInv' /\ ListInv'
    BY DEF TypeInv, ObjectInv, ListInv, Made, Linked, RequestRemoval
  <2>3. DoorInv' BY <1>1 DEF TypeInv, DoorInv, Made, RequestRemoval
  <2>4. PollInv' BY <1>1, PollUntouched DEF TypeInv, Made, RequestRemoval
  <2> QED BY <2>1, <2>2, <2>3, <2>4 DEF TypeInv
<1>2. CASE up' = up
  <2>1. door[d] \in Doors BY DEF TypeInv, TypeOK
  <2>2. PICK used \in Requests :
          door' = [door EXCEPT ![d] = [door[d] EXCEPT !.at = "walk_rm", !.used = used]]
    BY <1>2 DEF RequestRemoval
  <2> DEFINE r == [door[d] EXCEPT !.at = "walk_rm", !.used = used]
  <2>3. r \in Doors BY <2>1 DEF Doors, DoorSteps
  <2>4. /\ door' \in [DoorThreads -> Doors]
        /\ door'[d] = r /\ \A e \in DoorThreads \ {d} : door'[e] = door[e]
    BY <2>2, <2>3, DoorBecomes DEF TypeInv, TypeOK
  <2>5. door'[d].at = "walk_rm" BY <2>1, <2>4 DEF Doors
  <2>6. TypeOK' BY <1>2, <2>4 DEF TypeInv, TypeOK, RequestRemoval, regVars
  <2>7. ObjectInv' /\ ListInv'
    BY DEF TypeInv, ObjectInv, ListInv, Made, Linked, RequestRemoval
  <2>8. DoorInv' BY <2>4, <2>5 DEF TypeInv, DoorInv, Made, OnSource, RequestRemoval
  <2>9. PollInv' BY <2>4, <2>5, PollUntouched DEF TypeInv, Made, RequestRemoval
  <2> QED BY <2>6, <2>7, <2>8, <2>9 DEF TypeInv
<1> QED BY <1>1, <1>2 DEF RequestRemoval

\* One turn of a walk moves its thread to another step of the walk, to its end, or to
\* the stopping of a linked source.
LEMMA WalkStep ==
  ASSUME TypeInv, NEW d \in DoorThreads, RemovalStep(d) \/ ShowStep(d)
  PROVE  /\ door' \in [DoorThreads -> Doors]
         /\ \A e \in DoorThreads \ {d} : door'[e] = door[e]
         /\ \/ door'[d].at \in {"idle", "walk_rm", "walk_show"}
            \/ (door'[d].at = "stop" /\ door'[d].src \in Linked)
         /\ UNCHANGED <<obj, list, toWatch, maxfd, fdSources, inter, openFds, master, poll, up>>
<1>0. /\ UNCHANGED <<obj, list, toWatch, maxfd, fdSources, inter, openFds, master, poll, up>>
      /\ door[d].at \in {"walk_rm", "walk_show"}
  BY DEF RemovalStep, ShowStep, regVars
<1>1. door[d] \in Doors BY DEF TypeInv, TypeOK
<1>2. PICK s \in NextNodes(door[d].pre) :
        \/ s = NULL /\ door' = [door EXCEPT ![d] =
             [door[d] EXCEPT !.at = "idle", !.pre = NULL, !.used = NoRequest]]
        \/ s = NULL /\ door' = [door EXCEPT ![d] = [door[d] EXCEPT !.at = "idle", !.pre = NULL]]
        \/ s # NULL /\ door' = [door EXCEPT ![d] = [door[d] EXCEPT !.at = "stop", !.src = s]]
        \/ s # NULL /\ door' = [door EXCEPT ![d] = [door[d] EXCEPT !.pre = s]]
  BY DEF RemovalStep, ShowStep
<1>3. s # NULL => s \in Linked /\ s \in Srcs
  <2>1. door[d].pre \in Srcs \cup {NULL} BY <1>1 DEF Doors
  <2>2. list \in Seq(Srcs) BY DEF TypeInv, TypeOK
  <2> QED BY <2>1, <2>2, NextIsLinked, LinkedAreSrcs
<1>4. door \in [DoorThreads -> Doors] BY DEF TypeInv, TypeOK
<1>5. CASE s = NULL /\ door' = [door EXCEPT ![d] =
             [door[d] EXCEPT !.at = "idle", !.pre = NULL, !.used = NoRequest]]
  <2>1. [door[d] EXCEPT !.at = "idle", !.pre = NULL, !.used = NoRequest] \in Doors
    BY <1>1 DEF Doors, DoorSteps
  <2>2. /\ door' \in [DoorThreads -> Doors]
        /\ door'[d] = [door[d] EXCEPT !.at = "idle", !.pre = NULL, !.used = NoRequest]
        /\ \A e \in DoorThreads \ {d} : door'[e] = door[e]
    BY <1>4, <1>5, <2>1, DoorBecomes
  <2>3. door'[d].at = "idle" BY <1>1, <2>2 DEF Doors
  <2> QED BY <1>0, <2>2, <2>3
<1>6. CASE s = NULL /\ door' = [door EXCEPT ![d] = [door[d] EXCEPT !.at = "idle", !.pre = NULL]]
  <2>1. [door[d] EXCEPT !.at = "idle", !.pre = NULL] \in Doors
    BY <1>1 DEF Doors, DoorSteps
  <2>2. /\ door' \in [DoorThreads -> Doors]
        /\ door'[d] = [door[d] EXCEPT !.at = "idle", !.pre = NULL]
        /\ \A e \in DoorThreads \ {d} : door'[e] = door[e]
    BY <1>4, <1>6, <2>1, DoorBecomes
  <2>3. door'[d].at = "idle" BY <1>1, <2>2 DEF Doors
  <2> QED BY <1>0, <2>2, <2>3
<1>7. CASE s # NULL /\ door' = [door EXCEPT ![d] = [door[d] EXCEPT !.at = "stop", !.src = s]]
  <2>1. [door[d] EXCEPT !.at = "stop", !.src = s] \in Doors
    BY <1>1, <1>3, <1>7 DEF Doors, DoorSteps
  <2>2. /\ door' \in [DoorThreads -> Doors]
        /\ door'[d] = [door[d] EXCEPT !.at = "stop", !.src = s]
        /\ \A e \in DoorThreads \ {d} : door'[e] = door[e]
    BY <1>4, <1>7, <2>1, DoorBecomes
  <2>3. door'[d].at = "stop" /\ door'[d].src = s BY <1>1, <2>2 DEF Doors
  <2> QED BY <1>0, <1>3, <1>7, <2>2, <2>3
<1>8. CASE s # NULL /\ door' = [door EXCEPT ![d] = [door[d] EXCEPT !.pre = s]]
  <2>1. [door[d] EXCEPT !.pre = s] \in Doors
    BY <1>1, <1>3, <1>8 DEF Doors
  <2>2. /\ door' \in [DoorThreads -> Doors]
        /\ door'[d] = [door[d] EXCEPT !.pre = s]
        /\ \A e \in DoorThreads \ {d} : door'[e] = door[e]
    BY <1>4, <1>8, <2>1, DoorBecomes
  <2>3. door'[d].at = door[d].at BY <1>1, <2>2 DEF Doors
  <2> QED BY <1>0, <2>2, <2>3
<1> QED BY <1>2, <1>5, <1>6, <1>7, <1>8

LEMMA WalkTypes ==
  ASSUME TypeInv, NEW d \in DoorThreads, RemovalStep(d) \/ ShowStep(d)
  PROVE  TypeInv'
<1>1. TypeOK' BY WalkStep DEF TypeInv, TypeOK
<1>2. ObjectInv' /\ ListInv' BY WalkStep DEF TypeInv, ObjectInv, ListInv, Made, Linked
<1>3. DoorInv' BY WalkStep DEF TypeInv, DoorInv, ListInv, Made, OnSource
<1>4. PollInv' BY WalkStep, PollUntouched DEF TypeInv, Made
<1> QED BY <1>1, <1>2, <1>3, <1>4 DEF TypeInv

LEMMA StopSourceTypes ==
  ASSUME TypeInv, NEW d \in DoorThreads, StopSource(d)
  PROVE  TypeInv'
<1>1. /\ door[d].src \in Srcs /\ Made(door[d].src) /\ poll[door[d].src] \in Polls
      /\ UNCHANGED <<obj, list, toWatch, maxfd, fdSources, inter, openFds, master, up>>
  BY DEF TypeInv, TypeOK, DoorInv, OnSource, Made, StopSource, regVars
<1>2. CASE /\ obj[door[d].src].type = "flow" /\ poll' = poll
           /\ door' = [door EXCEPT ![d].at = "lock_rm"]
  <2>1. Moved(d, "lock_rm") BY <1>2, DoorMoves DEF TypeInv, TypeOK, DoorSteps
  <2>2. TypeOK' BY <1>1, <1>2, <2>1 DEF TypeInv, TypeOK, Moved
  <2>3. ObjectInv' /\ ListInv' BY <1>1 DEF TypeInv, ObjectInv, ListInv, Made, Linked
  <2>4. DoorInv' BY <1>1, <1>2, <2>1 DEF TypeInv, DoorInv, Made, OnSource, Moved
  <2>5. PollInv' BY <1>1, <1>2, <2>1, PollUntouched DEF TypeInv, Made, Moved
  <2> QED BY <2>2, <2>3, <2>4, <2>5 DEF TypeInv
<1>3. CASE door' = [door EXCEPT ![d].at = "unlink"] /\ poll' = poll
  <2>1. Moved(d, "unlink") BY <1>3, DoorMoves DEF TypeInv, TypeOK, DoorSteps
  <2>2. TypeOK' BY <1>1, <1>3, <2>1 DEF TypeInv, TypeOK, Moved
  <2>3. ObjectInv' /\ ListInv' BY <1>1 DEF TypeInv, ObjectInv, ListInv, Made, Linked
  <2>4. DoorInv' BY <1>1, <2>1 DEF TypeInv, DoorInv, Made, OnSource, Moved
  <2>5. PollInv' BY <1>1, <1>3, <2>1, PollUntouched DEF TypeInv, Made, Moved
  <2> QED BY <2>2, <2>3, <2>4, <2>5 DEF TypeInv
<1>4. CASE /\ poll[door[d].src].at \notin {"none", "dead"}
           /\ poll' = [poll EXCEPT ![door[d].src].cancel = TRUE]
           /\ door' = [door EXCEPT ![d].at = "free"]
  <2>1. Moved(d, "free") BY <1>4, DoorMoves DEF TypeInv, TypeOK, DoorSteps
  <2>2. [poll[door[d].src] EXCEPT !.cancel = TRUE] \in Polls BY <1>1 DEF Polls
  <2>3. PollBecomes(door[d].src, [poll[door[d].src] EXCEPT !.cancel = TRUE])
    BY <1>1, <1>4, <2>2, PollMoves DEF TypeInv, TypeOK
  <2>4. TypeOK' BY <1>1, <2>1, <2>3 DEF TypeInv, TypeOK, Moved, PollBecomes
  <2>5. ObjectInv' /\ ListInv' BY <1>1 DEF TypeInv, ObjectInv, ListInv, Made, Linked
  <2>6. DoorInv' BY <1>1, <2>1 DEF TypeInv, DoorInv, Made, OnSource, Moved
  <2>7. /\ poll'[door[d].src].at = poll[door[d].src].at
        /\ poll'[door[d].src].enabled = poll[door[d].src].enabled
        /\ \A t \in Srcs \ {door[d].src} : poll'[t] = poll[t]
    BY <1>1, <2>3 DEF PollBecomes, Polls
  <2>8. \A e \in DoorThreads : door'[e].at = "spawn" =>
          door[e].at = "spawn" /\ door'[e].src = door[e].src /\ Made(door[e].src)
    BY <2>1 DEF TypeInv, DoorInv, OnSource, Moved
  <2>9. PollInv' BY <1>1, <2>7, <2>8, PollKept DEF TypeInv, Made
  <2> QED BY <2>4, <2>5, <2>6, <2>9 DEF TypeInv
<1> QED BY <1>2, <1>3, <1>4 DEF StopSource

LEMMA CloseFdTypes ==
  ASSUME TypeInv, NEW d \in DoorThreads, CloseFd(d)
  PROVE  TypeInv'
<1>1. Moved(d, "free")
  BY DoorMoves DEF CloseFd, TypeInv, TypeOK, DoorSteps
<1>2. TypeOK' BY <1>1 DEF TypeInv, TypeOK, CloseFd, regVars, Moved
<1>3. ObjectInv' /\ ListInv' BY DEF TypeInv, ObjectInv, ListInv, Made, Linked, CloseFd
<1>4. DoorInv' BY <1>1 DEF TypeInv, DoorInv, Made, OnSource, CloseFd, Moved
<1>5. PollInv' BY <1>1, PollUntouched DEF TypeInv, Made, CloseFd, Moved
<1> QED BY <1>2, <1>3, <1>4, <1>5 DEF TypeInv

LEMMA FreeSourceTypes ==
  ASSUME TypeInv, NEW d \in DoorThreads, FreeSource(d)
  PROVE  TypeInv'
<1>1. Moved(d, "unlink")
  BY DoorMoves DEF FreeSource, TypeInv, TypeOK, DoorSteps
<1>2. /\ door[d].src \in Srcs /\ Made(door[d].src) /\ obj[door[d].src] \in Objects
      /\ obj' = [obj EXCEPT ![door[d].src].life = "freed"]
      /\ UNCHANGED <<list, toWatch, maxfd, fdSources, inter, openFds, master, poll, up>>
  BY DEF TypeInv, TypeOK, DoorInv, OnSource, Made, FreeSource, regVars
<1>3. [obj[door[d].src] EXCEPT !.life = "freed"] \in Objects BY <1>2 DEF Objects
<1>4. /\ obj' \in [Srcs -> Objects]
      /\ \A t \in Srcs : Made(t) => Made(t)'
      /\ \A t \in Srcs : obj'[t].type = obj[t].type /\ obj'[t].fd = obj[t].fd
  BY <1>2, <1>3 DEF TypeInv, TypeOK, Made, Objects
<1>5. TypeOK' BY <1>1, <1>2, <1>4 DEF TypeInv, TypeOK, Moved
<1>6. ObjectInv'
  BY <1>2, <1>4 DEF TypeInv, ObjectInv, Made
<1>7. ListInv'
  BY <1>2, <1>4 DEF TypeInv, ListInv, Linked, Made
<1>8. DoorInv'
  <2> SUFFICES ASSUME NEW e \in DoorThreads
      PROVE /\ door'[e].at \in OnSource => door'[e].src \in Srcs /\ obj'[door'[e].src].life # "none"
            /\ door'[e].at \in {"lock_add", "lock_rm"} => obj'[door'[e].src].type = "flow"
            /\ door'[e].at = "make" => door'[e].zones > 0
    BY DEF DoorInv, Made
  <2>1. CASE e = d BY <1>1, <1>2, <1>4, <2>1 DEF Moved, Made
  <2>2. CASE e # d
    <3>1. door'[e] = door[e] BY <1>1, <2>2 DEF Moved
    <3>2. door[e].at \in {"lock_add", "lock_rm"} => door[e].at \in OnSource BY DEF OnSource
    <3>3. /\ door[e].at \in OnSource => Made(door[e].src)
          /\ door[e].at \in {"lock_add", "lock_rm"} => obj[door[e].src].type = "flow"
          /\ door[e].at = "make" => door[e].zones > 0
      BY DEF TypeInv, DoorInv
    <3> QED BY <1>4, <3>1, <3>2, <3>3 DEF Made
  <2> QED BY <2>1, <2>2
<1>9. PollInv' BY <1>1, <1>2, <1>4, PollUntouched DEF TypeInv, Moved
<1> QED BY <1>5, <1>6, <1>7, <1>8, <1>9 DEF TypeInv

LEMMA UnlinkNodeTypes ==
  ASSUME TypeInv, NEW d \in DoorThreads, UnlinkNode(d)
  PROVE  TypeInv'
<1> DEFINE r == [door[d] EXCEPT !.at = "walk_rm", !.src = NULL]
<1>1. door[d] \in Doors BY DEF TypeInv, TypeOK
<1>2. r \in Doors BY <1>1 DEF Doors, DoorSteps
<1>3. /\ door' \in [DoorThreads -> Doors]
      /\ door'[d] = r /\ \A e \in DoorThreads \ {d} : door'[e] = door[e]
  BY <1>2, DoorBecomes DEF UnlinkNode, TypeInv, TypeOK
<1>4. door'[d].at = "walk_rm" BY <1>1, <1>3 DEF Doors
<1>5. list' \in Seq(Srcs) /\ Linked' \subseteq Linked
  BY ListRemoveType DEF UnlinkNode, TypeInv, TypeOK, DoorInv, OnSource, Made
<1>6. UNCHANGED <<obj, toWatch, maxfd, fdSources, inter, openFds, master, poll, up>>
  BY DEF UnlinkNode, regVars
<1>7. TypeOK' BY <1>3, <1>5, <1>6 DEF TypeInv, TypeOK
<1>8. ObjectInv' /\ ListInv' BY <1>5, <1>6 DEF TypeInv, ObjectInv, ListInv, Made
<1>9. DoorInv' BY <1>3, <1>4, <1>6 DEF TypeInv, DoorInv, Made, OnSource
<1>10. PollInv' BY <1>3, <1>4, <1>6, PollUntouched DEF TypeInv, Made
<1> QED BY <1>7, <1>8, <1>9, <1>10 DEF TypeInv

LEMMA RequestShowTypes ==
  ASSUME TypeInv, NEW d \in DoorThreads, RequestShow(d)
  PROVE  TypeInv'
<1> DEFINE r == [door[d] EXCEPT !.at = "walk_show", !.pre = NULL]
<1>1. door[d] \in Doors BY DEF TypeInv, TypeOK
<1>2. r \in Doors BY <1>1 DEF Doors, DoorSteps
<1>3. /\ door' \in [DoorThreads -> Doors]
      /\ door'[d] = r /\ \A e \in DoorThreads \ {d} : door'[e] = door[e]
  BY <1>2, DoorBecomes DEF RequestShow, TypeInv, TypeOK
<1>4. door'[d].at = "walk_show" BY <1>1, <1>3 DEF Doors
<1>5. UNCHANGED <<obj, list, toWatch, maxfd, fdSources, inter, openFds, master, poll, up>>
  BY DEF RequestShow, regVars
<1>6. TypeOK' BY <1>3, <1>5 DEF TypeInv, TypeOK
<1>7. ObjectInv' /\ ListInv' BY <1>5 DEF TypeInv, ObjectInv, ListInv, Made, Linked
<1>8. DoorInv' BY <1>3, <1>4, <1>5 DEF TypeInv, DoorInv, Made, OnSource
<1>9. PollInv' BY <1>3, <1>4, <1>5, PollUntouched DEF TypeInv, Made
<1> QED BY <1>6, <1>7, <1>8, <1>9 DEF TypeInv

LEMMA MakeSourceTypes ==
  ASSUME TypeInv, NEW d \in DoorThreads, door[d].at \in {"idle", "make"},
         NEW type \in Types, NEW zones \in Nat, MakeSource(d, type, zones)
  PROVE  TypeInv'
<1>1. door[d] \in Doors BY DEF TypeInv, TypeOK
<1>2. PICK n \in Srcs : n = Fresh /\ obj[n].life = "none"
  BY FreshIsUnmade DEF TypeInv, MakeSource
<1> DEFINE at == IF type = "flow" THEN "lock_add" ELSE "spawn"
           r == [door[d] EXCEPT !.at = at, !.src = n, !.zones = zones]
<1>3. PICK name \in Names, fd \in IF type = "flow" THEN FDs \ openFds ELSE {NULL} :
        /\ obj' = [obj EXCEPT ![n] = [life |-> "live", type |-> type,
                                          name |-> name, fd |-> fd]]
        /\ openFds' = openFds \cup ({fd} \ {NULL})
        /\ door' = [door EXCEPT ![d] = r]
  BY <1>2 DEF MakeSource
<1>4. UNCHANGED <<list, toWatch, maxfd, fdSources, inter, master, poll, up>>
  BY DEF MakeSource, regVars
<1>5. r \in Doors BY <1>1, <1>2 DEF Doors, DoorSteps
<1>6. /\ door' \in [DoorThreads -> Doors]
      /\ door'[d] = r /\ \A e \in DoorThreads \ {d} : door'[e] = door[e]
  BY <1>3, <1>5, DoorBecomes DEF TypeInv, TypeOK
<1>7. door'[d].at = at /\ door'[d].src = n BY <1>1, <1>6 DEF Doors
<1>8. [life |-> "live", type |-> type, name |-> name, fd |-> fd] \in Objects
  BY <1>3 DEF Objects
<1>9. /\ obj' \in [Srcs -> Objects]
      /\ obj'[n].life = "live" /\ obj'[n].type = type /\ obj'[n].fd = fd
      /\ \A t \in Srcs \ {n} : obj'[t] = obj[t]
  BY <1>2, <1>3, <1>8 DEF TypeInv, TypeOK
<1>10. \A t : Made(t) => t # n /\ Made(t)' BY <1>2, <1>9 DEF Made
<1>11. TypeOK'
  BY <1>3, <1>4, <1>6, <1>9 DEF TypeInv, TypeOK
<1>12. ObjectInv' BY <1>3, <1>9 DEF TypeInv, ObjectInv, Made
<1>13. ListInv' BY <1>4, <1>10 DEF TypeInv, ListInv, Linked
<1>14. DoorInv'
  <2> SUFFICES ASSUME NEW e \in DoorThreads
      PROVE /\ door'[e].at \in OnSource => door'[e].src \in Srcs /\ obj'[door'[e].src].life # "none"
            /\ door'[e].at \in {"lock_add", "lock_rm"} => obj'[door'[e].src].type = "flow"
            /\ door'[e].at = "make" => door'[e].zones > 0
    BY DEF DoorInv, Made
  <2>1. CASE e = d BY <1>2, <1>7, <1>9, <2>1
  <2>2. CASE e # d
    <3>1. door'[e] = door[e] BY <1>6, <2>2
    <3>2. door[e].at \in OnSource => Made(door[e].src) /\ door[e].src # n
      BY <1>10 DEF TypeInv, DoorInv
    <3>3. door[e].at \in {"lock_add", "lock_rm"} => door[e].at \in OnSource BY DEF OnSource
    <3>4. /\ door[e].at \in {"lock_add", "lock_rm"} => obj[door[e].src].type = "flow"
          /\ door[e].at = "make" => door[e].zones > 0
      BY DEF TypeInv, DoorInv
    <3> QED BY <1>9, <3>1, <3>2, <3>3, <3>4 DEF Made
  <2> QED BY <2>1, <2>2
<1>15. ThreadInv' BY <1>4, <1>10 DEF TypeInv, PollInv, ThreadInv
<1>16. SpawnInv'
  <2>1. poll[n].at = "none" BY <1>2 DEF TypeInv, PollInv, ThreadInv, Made
  <2>2. \A e \in DoorThreads \ {d} : door'[e] = door[e] /\ (door[e].at = "spawn" => door[e].src # n)
    BY <1>6, <1>10 DEF TypeInv, DoorInv, OnSource
  <2> SUFFICES ASSUME NEW e \in DoorThreads, door'[e].at = "spawn"
               PROVE  /\ poll'[door'[e].src].at = "none"
                      /\ \A f \in DoorThreads :
                           f # e /\ door'[f].at = "spawn" => door'[f].src # door'[e].src
    BY DEF SpawnInv
  <2>3. CASE e = d BY <1>4, <1>7, <2>1, <2>2, <2>3
  <2>4. CASE e # d
    <3>1. poll[door[e].src].at = "none" BY <2>2, <2>4 DEF TypeInv, PollInv, SpawnInv
    <3>2. \A f \in DoorThreads \ {d} : f # e /\ door'[f].at = "spawn" => door'[f].src # door'[e].src
      BY <2>2, <2>4 DEF TypeInv, PollInv, SpawnInv
    <3> QED BY <1>4, <1>7, <2>2, <2>4, <3>1, <3>2
  <2> QED BY <2>3, <2>4
<1> QED BY <1>11, <1>12, <1>13, <1>14, <1>15, <1>16 DEF TypeInv, PollInv

LEMMA RequestAddTypes ==
  ASSUME TypeInv, NEW d \in DoorThreads, RequestAdd(d)
  PROVE  TypeInv'
<1>1. \E type \in Types, zones \in Nat : MakeSource(d, type, zones)
  BY DEF RequestAdd, Types
<1> QED BY <1>1, MakeSourceTypes DEF RequestAdd

LEMMA NextZoneTypes ==
  ASSUME TypeInv, NEW d \in DoorThreads, NextZone(d)
  PROVE  TypeInv'
<1>1. door[d] \in Doors /\ door[d].zones \in Nat \ {0}
  BY DEF TypeInv, TypeOK, DoorInv, Doors, NextZone
<1>2. CASE MakeSource(d, "poll", door[d].zones - 1)
  <2>1. door[d].at \in {"idle", "make"} /\ "poll" \in Types /\ door[d].zones - 1 \in Nat
    BY <1>1 DEF NextZone, Types
  <2> QED BY <1>2, <2>1, MakeSourceTypes
<1> DEFINE at == IF door[d].zones = 1 THEN "idle" ELSE "make"
           r == [door[d] EXCEPT !.at = at, !.zones = door[d].zones - 1]
<1>3. CASE /\ door' = [door EXCEPT ![d] = r]
           /\ UNCHANGED <<obj, list, regVars, openFds, master, poll, up>>
  <2>0. at \in {"idle", "make"} /\ door[d].zones - 1 \in Nat BY <1>1
  <2>1. r \in Doors BY <1>1, <2>0 DEF Doors, DoorSteps
  <2>2. /\ door' \in [DoorThreads -> Doors]
        /\ door'[d] = r /\ \A e \in DoorThreads \ {d} : door'[e] = door[e]
    BY <1>3, <2>1, DoorBecomes DEF TypeInv, TypeOK
  <2>3. /\ door'[d].at \in {"idle", "make"}
        /\ door'[d].at = "make" => door'[d].zones > 0
    BY <1>1, <2>2 DEF Doors
  <2>4. UNCHANGED <<obj, list, toWatch, maxfd, fdSources, inter, openFds, master, poll, up>>
    BY <1>3 DEF regVars
  <2>5. TypeOK' BY <2>2, <2>4 DEF TypeInv, TypeOK
  <2>6. ObjectInv' /\ ListInv' BY <2>4 DEF TypeInv, ObjectInv, ListInv, Made, Linked
  <2>7. DoorInv' BY <2>2, <2>3, <2>4 DEF TypeInv, DoorInv, Made, OnSource
  <2>8. PollInv' BY <2>2, <2>3, <2>4, PollUntouched DEF TypeInv, Made
  <2> QED BY <2>5, <2>6, <2>7, <2>8 DEF TypeInv
<1> QED BY <1>2, <1>3 DEF NextZone

\* Nothing is in the descriptors' array above maxfd.
MaxInv == \A fd \in FDs : fdSources[fd] # NULL => fd <= maxfd

\* The highest descriptor left in the array, the new maxfd.
LEMMA UnwatchFdMax ==
  ASSUME TypeInv, MaxInv, NEW d \in DoorThreads, UnwatchFd(d)
  PROVE  MaxInv' /\ maxfd' \in FDs \cup {-1} /\ obj[door[d].src].fd \in FDs
<1>1. PICK fd \in FDs : fd = obj[door[d].src].fd
  BY DEF TypeInv, DoorInv, ObjectInv, Made, OnSource, UnwatchFd
<1> DEFINE left == {f \in FDs \ {fd} : fdSources[f] # NULL}
<1>2. /\ fdSources' = [fdSources EXCEPT ![fd] = NULL]
      /\ maxfd' = IF maxfd = fd /\ left # {} THEN Highest(left) ELSE maxfd
  BY <1>1 DEF UnwatchFd
<1>3. maxfd \in FDs \cup {-1} /\ fdSources \in [FDs -> Srcs \cup {NULL}]
  BY DEF TypeInv, TypeOK
<1>4. \A f \in FDs \ {fd} : fdSources'[f] = fdSources[f]
  BY <1>1, <1>2, <1>3
<1>5. fdSources'[fd] = NULL
  BY <1>1, <1>2, <1>3
<1>6. CASE maxfd = fd /\ left # {}
  <2>1. left \subseteq Nat /\ maxfd \in Nat /\ \A i \in left : i <= maxfd
    BY <1>1, <1>6 DEF MaxInv
  <2>2. Highest(left) \in left /\ \A i \in left : i <= Highest(left)
    BY <1>6, <2>1, HighestIs
  <2> QED BY <1>1, <1>2, <1>4, <1>5, <1>6, <2>2 DEF MaxInv
<1>7. CASE ~(maxfd = fd /\ left # {})
  BY <1>1, <1>2, <1>3, <1>4, <1>5, <1>7 DEF MaxInv
<1> QED BY <1>6, <1>7

LEMMA UnwatchFdTypes ==
  ASSUME TypeInv, MaxInv, NEW d \in DoorThreads, UnwatchFd(d)
  PROVE  TypeInv'
<1>1. Moved(d, "close")
  BY DoorMoves DEF UnwatchFd, TypeInv, TypeOK, DoorSteps
<1>2. maxfd' \in FDs \cup {-1} /\ obj[door[d].src].fd \in FDs BY UnwatchFdMax
<1>3. toWatch' \subseteq FDs /\ fdSources' \in [FDs -> Srcs \cup {NULL}]
  BY <1>2 DEF TypeInv, TypeOK, UnwatchFd
<1>4. /\ UNCHANGED <<obj, list, inter, openFds, master, poll, up>>
      /\ door[d].at = "lock_rm"
  BY DEF UnwatchFd
<1>5. TypeOK' BY <1>1, <1>2, <1>3, <1>4 DEF TypeInv, TypeOK, Moved
<1>6. ObjectInv' /\ ListInv' BY <1>4 DEF TypeInv, ObjectInv, ListInv, Made, Linked
<1>7. DoorInv' BY <1>1, <1>4 DEF TypeInv, DoorInv, Made, OnSource, Moved
<1>8. PollInv' BY <1>1, <1>4, PollUntouched DEF TypeInv, Made, Moved
<1> QED BY <1>5, <1>6, <1>7, <1>8 DEF TypeInv

\* What is no type invariant rests while objects, list and threads do.
LEMMA Resting ==
  ASSUME TypeInv, UNCHANGED <<obj, list, door, poll>>
  PROVE  ObjectInv' /\ ListInv' /\ DoorInv' /\ PollInv'
<1>1. ObjectInv' BY DEF TypeInv, ObjectInv, Made
<1>2. ListInv' BY DEF TypeInv, ListInv, Made, Linked
<1>3. DoorInv'
  <2>1. \A d \in DoorThreads : door'[d] = door[d] OBVIOUS
  <2>2. \A s : obj'[s] = obj[s] OBVIOUS
  <2> QED BY <2>1, <2>2 DEF TypeInv, DoorInv, Made
<1>4. PollInv' BY PollUntouched DEF TypeInv, Made
<1> QED BY <1>1, <1>2, <1>3, <1>4

\* The master's steps leave the objects, the list and the other threads alone.
LEMMA MasterTypes ==
  ASSUME TypeInv, MasterStep
  PROVE  TypeInv' /\ UNCHANGED <<obj, list, maxfd, fdSources, openFds, door, poll, up>>
<1> USE DEF MasterAt, MasterGoto
<1>1. master \in Masters /\ toWatch \subseteq FDs /\ inter \in {NULL, Master}
  BY DEF TypeInv, TypeOK
<1>2. /\ master' \in Masters /\ toWatch' \subseteq FDs /\ inter' \in {NULL, Master}
      /\ UNCHANGED <<obj, list, maxfd, fdSources, openFds, door, poll, up>>
  <2>1. CASE MasterStart BY <1>1, <2>1 DEF MasterStart, Masters
  <2>2. CASE MasterLoop BY <1>1, <2>2 DEF MasterLoop, Masters, regVars
  <2>3. CASE MasterLock BY <1>1, <2>3 DEF MasterLock, Masters
  <2>4. CASE SelectFails BY <1>1, <2>4 DEF SelectFails, Masters
  <2>5. CASE SelectTimesOut BY <1>1, <2>5 DEF SelectTimesOut, Masters
  <2>6. CASE SelectReady BY <1>1, <2>6 DEF SelectReady, Masters, regVars, Watched
  <2>7. CASE ReadFd BY <1>1, <2>7 DEF ReadFd, Masters, regVars
  <2>8. CASE ScanDone BY <1>1, <2>8 DEF ScanDone, Masters
  <2>9. CASE MasterWakes BY <1>1, <2>9 DEF MasterWakes, Masters, regVars
  <2> QED BY <2>1, <2>2, <2>3, <2>4, <2>5, <2>6, <2>7, <2>8, <2>9 DEF MasterStep
<1>3. TypeOK' BY <1>2 DEF TypeInv, TypeOK
<1> QED BY <1>2, <1>3, Resting DEF TypeInv

\* A polling thread's step: from a step it has taken to the next one.
LEMMA PollStepIs ==
  ASSUME TypeInv, NEW s \in Srcs, PollStep(s)
  PROVE  /\ poll' \in [Srcs -> Polls] /\ poll[s].at # "none"
         /\ \A t \in Srcs \ {s} : poll'[t] = poll[t]
         /\ poll'[s].at \in {"enable", "sleep", "disable", "sample", "dead"}
         /\ poll'[s].at = "sample" => ~poll'[s].enabled
         /\ poll'[s].at = "sleep" => poll'[s].enabled
         /\ poll'[s].at = "disable" => ~(poll[s].cancel /\ poll[s].enabled) /\ poll[s].at = "sleep"
         /\ poll'[s].at = "sample" => poll[s].at = "disable"
         /\ poll'[s].at = "dead" => poll[s].enabled
         /\ UNCHANGED <<obj, list, toWatch, maxfd, fdSources, inter, openFds, door, master, up>>
<1>1. poll \in [Srcs -> Polls] /\ poll[s] \in Polls BY DEF TypeInv, TypeOK
<1>2. UNCHANGED <<obj, list, toWatch, maxfd, fdSources, inter, openFds, door, master, up>>
  BY DEF PollStep, PollStart, PollEnable, PollWakes, PollDisable, PollSample, PollCancelled,
         PollGoto, regVars
<1>3. CASE PollStart(s)
  <2>1. PollBecomes(s, [poll[s] EXCEPT !.at = "enable", !.enabled = FALSE])
    BY <1>1, <1>3, PollMoves DEF PollStart, PollGoto, Polls, PollSteps
  <2> QED BY <1>1, <1>2, <1>3, <2>1 DEF PollBecomes, PollStart, PollGoto, Polls
<1>4. CASE PollEnable(s)
  <2>1. PollBecomes(s, [poll[s] EXCEPT !.at = "sleep", !.enabled = TRUE])
    BY <1>1, <1>4, PollMoves DEF PollEnable, PollGoto, Polls, PollSteps
  <2> QED BY <1>1, <1>2, <1>4, <2>1 DEF PollBecomes, PollEnable, PollGoto, Polls
<1>5. CASE PollWakes(s)
  <2>1. PollBecomes(s, [poll[s] EXCEPT !.at = "disable"])
    BY <1>1, <1>5, PollMoves DEF PollWakes, PollGoto, Polls, PollSteps
  <2> QED BY <1>1, <1>2, <1>5, <2>1 DEF PollBecomes, PollWakes, PollGoto, Polls
<1>6. CASE PollDisable(s)
  <2>1. PollBecomes(s, [poll[s] EXCEPT !.at = "sample", !.enabled = FALSE])
    BY <1>1, <1>6, PollMoves DEF PollDisable, PollGoto, Polls, PollSteps
  <2> QED BY <1>1, <1>2, <1>6, <2>1 DEF PollBecomes, PollDisable, PollGoto, Polls
<1>7. CASE PollSample(s)
  <2>1. PollBecomes(s, [poll[s] EXCEPT !.at = "enable"])
    BY <1>1, <1>7, PollMoves DEF PollSample, PollGoto, Polls, PollSteps
  <2> QED BY <1>1, <1>2, <1>7, <2>1 DEF PollBecomes, PollSample, PollGoto, Polls
<1>8. CASE PollCancelled(s)
  <2>1. PollBecomes(s, [poll[s] EXCEPT !.at = "dead"])
    BY <1>1, <1>8, PollMoves DEF PollCancelled, PollGoto, Polls, PollSteps
  <2> QED BY <1>1, <1>2, <1>8, <2>1 DEF PollBecomes, PollCancelled, PollGoto, Polls
<1> QED BY <1>3, <1>4, <1>5, <1>6, <1>7, <1>8 DEF PollStep

LEMMA PollTypes ==
  ASSUME TypeInv, NEW s \in Srcs, PollStep(s)
  PROVE  TypeInv'
<1>1. TypeOK' BY PollStepIs DEF TypeInv, TypeOK
<1>2. ObjectInv' /\ ListInv'
  <2>1. obj' = obj /\ list' = list BY PollStepIs
  <2> QED BY <2>1 DEF TypeInv, ObjectInv, ListInv, Made, Linked
<1>3. DoorInv' BY PollStepIs DEF TypeInv, DoorInv, Made
<1>4. ThreadInv' BY PollStepIs DEF TypeInv, PollInv, ThreadInv, Made
<1>5. SpawnInv'
  <2>1. \A d \in DoorThreads : door[d].at = "spawn" => door[d].src \in Srcs /\ door[d].src # s
    BY PollStepIs DEF TypeInv, PollInv, SpawnInv, DoorInv, OnSource, Made
  <2>2. door' = door /\ \A t \in Srcs \ {s} : poll'[t] = poll[t] BY PollStepIs
  <2> QED BY <2>1, <2>2 DEF TypeInv, PollInv, SpawnInv
<1> QED BY <1>1, <1>2, <1>3, <1>4, <1>5 DEF TypeInv, PollInv

LEMMA FaultTypes ==
  ASSUME TypeInv, Fault
  PROVE  TypeInv'
<1>1. up' \in BOOLEAN
      /\ UNCHANGED <<obj, list, toWatch, maxfd, fdSources, inter, openFds, door, master, poll>>
  BY DEF Fault, regVars
<1>2. TypeOK' BY <1>1 DEF TypeInv, TypeOK
<1> QED BY <1>1, <1>2, Resting DEF TypeInv

\* Only the two critical sections change the array and maxfd.
LEMMA MaxNext ==
  ASSUME TypeInv, MaxInv, [Next]_vars
  PROVE  MaxInv'
<1>1. CASE \E d \in DoorThreads : WatchFd(d)
  <2>1. PICK d \in DoorThreads : WatchFd(d) BY <1>1
  <2>2. PICK fd \in FDs : fd = obj[door[d].src].fd
    BY <2>1 DEF TypeInv, DoorInv, ObjectInv, Made, OnSource, WatchFd
  <2>3. /\ maxfd \in FDs \cup {-1} /\ fdSources \in [FDs -> Srcs \cup {NULL}]
        /\ maxfd' = IF fd > maxfd THEN fd ELSE maxfd
        /\ fdSources' = [fdSources EXCEPT ![fd] = door[d].src]
    BY <2>1, <2>2 DEF TypeInv, TypeOK, WatchFd
  <2>4. maxfd' >= maxfd /\ maxfd' >= fd /\ maxfd' \in Int /\ maxfd \in Int
    <3>1. fd \in Nat /\ maxfd \in Int
      <4>1. maxfd \in FDs \cup {-1} BY <2>3
      <4> QED BY <4>1
    <3>2. maxfd' = IF fd > maxfd THEN fd ELSE maxfd BY <2>3
    <3> QED BY <3>1, <3>2
  <2>5. ASSUME NEW f \in FDs, fdSources'[f] # NULL PROVE f <= maxfd'
    <3>1. CASE f = fd BY <2>4, <3>1
    <3>2. CASE f # fd
      <4>1. fdSources[f] # NULL BY <2>3, <2>5, <3>2
      <4>2. f <= maxfd BY <4>1 DEF MaxInv
      <4> QED BY <2>4, <4>2
    <3> QED BY <3>1, <3>2
  <2> QED BY <2>5 DEF MaxInv
<1>2. CASE \E d \in DoorThreads : UnwatchFd(d)
  BY <1>2, UnwatchFdMax
<1>3. CASE MasterStep
  BY <1>3, MasterTypes DEF MaxInv
<1>4. CASE \E s \in Srcs : PollStep(s)
  BY <1>4, PollStepIs DEF MaxInv
<1>5. CASE UNCHANGED <<maxfd, fdSources>>
  BY <1>5 DEF MaxInv
<1>6. \/ UNCHANGED <<maxfd, fdSources>> \/ MasterStep \/ (\E s \in Srcs : PollStep(s))
      \/ \E d \in DoorThreads : WatchFd(d) \/ UnwatchFd(d)
  <2>1. ASSUME NEW d \in DoorThreads, DoorStep(d), ~WatchFd(d), ~UnwatchFd(d)
        PROVE  UNCHANGED <<maxfd, fdSources>>
    BY <2>1 DEF DoorStep, DoorContinue, RequestAdd, MakeSource, RequestRemoval, RequestShow,
         NextZone, SpawnPollThread, InsertSource, RemovalStep, StopSource, CloseFd, FreeSource,
         UnlinkNode, ShowStep, regVars
  <2> QED BY <2>1 DEF Next, vars, regVars, Fault
<1> QED BY <1>1, <1>2, <1>3, <1>4, <1>5, <1>6

\* A door thread creates polling threads and cancels them, and does nothing else to them.
LEMMA DoorOnPoll ==
  ASSUME TypeInv, NEW d \in DoorThreads, DoorStep(d), NEW s \in Srcs, poll[s].at # "none"
  PROVE  poll'[s].at = poll[s].at
<1>1. poll \in [Srcs -> Polls] /\ poll[s] \in Polls BY DEF TypeInv, TypeOK
<1>2. CASE SpawnPollThread(d)
  <2>1. door[d].src # s /\ door[d].src \in Srcs
    BY <1>2 DEF TypeInv, PollInv, SpawnInv, DoorInv, OnSource, Made, SpawnPollThread
  <2> QED BY <1>1, <1>2, <2>1 DEF SpawnPollThread
<1>3. CASE StopSource(d)
  <2>1. door[d].src \in Srcs BY <1>3 DEF TypeInv, DoorInv, OnSource, Made, StopSource
  <2> QED BY <1>1, <1>3, <2>1 DEF StopSource, Polls
<1>4. CASE ~SpawnPollThread(d) /\ ~StopSource(d)
  BY <1>4 DEF DoorStep, DoorContinue, RequestAdd, MakeSource, RequestRemoval, RequestShow,
         NextZone, InsertSource, RemovalStep, WatchFd, UnwatchFd, CloseFd, FreeSource,
         UnlinkNode, ShowStep
<1> QED BY <1>2, <1>3, <1>4

LEMMA DoorTypes ==
  ASSUME TypeInv, MaxInv, NEW d \in DoorThreads, DoorStep(d)
  PROVE  TypeInv'
BY RequestAddTypes, NextZoneTypes, WatchFdTypes, SpawnPollThreadTypes, InsertSourceTypes,
   RequestRemovalTypes, WalkTypes, StopSourceTypes, UnwatchFdTypes, CloseFdTypes, FreeSourceTypes,
   UnlinkNodeTypes, RequestShowTypes DEF DoorStep, DoorContinue

THEOREM TypeNext == TypeInv /\ MaxInv /\ [Next]_vars => TypeInv' /\ MaxInv'
<1> SUFFICES ASSUME TypeInv, MaxInv, [Next]_vars PROVE TypeInv'
  BY MaxNext
<1>1. CASE \E d \in DoorThreads : DoorStep(d) BY <1>1, DoorTypes
<1>2. CASE MasterStep BY <1>2, MasterTypes
<1>3. CASE \E s \in Srcs : PollStep(s) BY <1>3, PollTypes
<1>4. CASE Fault BY <1>4, FaultTypes
<1>5. CASE UNCHANGED vars
  <2>1. UNCHANGED <<obj, list, toWatch, maxfd, fdSources, inter, openFds, door, master, poll, up>>
    BY <1>5 DEF vars, regVars
  <2>2. TypeOK' BY <2>1 DEF TypeInv, TypeOK
  <2> QED BY <2>1, <2>2, Resting DEF TypeInv
<1> QED BY <1>1, <1>2, <1>3, <1>4, <1>5 DEF Next

\* Every reachable state is type correct, whatever the requests and however many door
\* threads serve them.
THEOREM TypeCorrect == Spec => []TypeOK
<1>1. Init => TypeInv /\ MaxInv
  <2>1. Init => MaxInv BY DEF Init, MaxInv
  <2> QED BY <2>1, TypeInit
<1>2. TypeInv => TypeOK BY DEF TypeInv
<1> QED BY <1>1, <1>2, TypeNext, PTL DEF Spec

\* No polling thread dies in the sender, however many threads there are
\* (sflow_driver.c:217-224).
THEOREM NoDeathInSenderHolds == Spec => NoDeathInSender
<1> DEFINE Step == \A s \in Srcs : poll[s].at = "sample" => poll'[s].at # "dead"
<1>1. TypeInv /\ [Next]_vars => [Step]_vars
  <2> SUFFICES ASSUME TypeInv, Next, NEW s \in Srcs, poll[s].at = "sample"
               PROVE  poll'[s].at # "dead"
    OBVIOUS
  <2>1. ~poll[s].enabled BY DEF TypeInv, PollInv, ThreadInv
  <2>2. CASE \E t \in Srcs : PollStep(t)
    <3>1. PICK t \in Srcs : PollStep(t) BY <2>2
    <3>2. /\ \A u \in Srcs \ {t} : poll'[u] = poll[u]
          /\ poll'[t].at = "dead" => poll[t].enabled
      BY <3>1, PollStepIs
    <3> QED BY <2>1, <3>2
  <2>3. CASE \E d \in DoorThreads : DoorStep(d)
    <3>1. PICK d \in DoorThreads : DoorStep(d) BY <2>3
    <3> QED BY <3>1, DoorOnPoll
  <2>4. CASE MasterStep BY <2>4, MasterTypes
  <2>5. CASE Fault BY <2>5 DEF Fault
  <2> QED BY <2>2, <2>3, <2>4, <2>5 DEF Next
<1>2. Init => TypeInv /\ MaxInv
  <2>1. Init => MaxInv BY DEF Init, MaxInv
  <2> QED BY <2>1, TypeInit
<1> QED BY <1>1, <1>2, TypeNext, PTL DEF Spec, NoDeathInSender

\* A cancelled polling thread takes no further sample, whatever else runs.
THEOREM NoPollAfterCancelHolds == Spec => NoPollAfterCancel
<1> DEFINE Step == \A s \in Srcs : (poll[s].cancel /\ poll[s].at \in {"enable", "sleep"}) =>
                     poll'[s].at \in {"enable", "sleep", "dead"}
<1>1. TypeInv /\ [Next]_vars => [Step]_vars
  <2> SUFFICES ASSUME TypeInv, Next, NEW s \in Srcs, poll[s].cancel,
                      poll[s].at \in {"enable", "sleep"}
               PROVE  poll'[s].at \in {"enable", "sleep", "dead"}
    OBVIOUS
  <2>1. poll[s].at = "sleep" => poll[s].enabled BY DEF TypeInv, PollInv, ThreadInv
  <2>2. CASE \E t \in Srcs : PollStep(t)
    <3>1. PICK t \in Srcs : PollStep(t) BY <2>2
    <3>2. /\ \A u \in Srcs \ {t} : poll'[u] = poll[u]
          /\ poll'[t].at \in {"enable", "sleep", "disable", "sample", "dead"}
          /\ poll'[t].at = "disable" => ~(poll[t].cancel /\ poll[t].enabled) /\ poll[t].at = "sleep"
          /\ poll'[t].at = "sample" => poll[t].at = "disable"
      BY <3>1, PollStepIs
    <3> QED BY <2>1, <3>2
  <2>3. CASE \E d \in DoorThreads : DoorStep(d)
    <3>1. PICK d \in DoorThreads : DoorStep(d) BY <2>3
    <3> QED BY <3>1, DoorOnPoll
  <2>4. CASE MasterStep BY <2>4, MasterTypes
  <2>5. CASE Fault BY <2>5 DEF Fault
  <2> QED BY <2>2, <2>3, <2>4, <2>5 DEF Next
<1>2. Init => TypeInv /\ MaxInv
  <2>1. Init => MaxInv BY DEF Init, MaxInv
  <2> QED BY <2>1, TypeInit
<1> QED BY <1>1, <1>2, TypeNext, PTL DEF Spec, NoPollAfterCancel

(***************************************************************************)
(* The registry, for door calls that are served one at a time.             *)
(***************************************************************************)

OneDoor == \A c, d \in DoorThreads : c = d

Adding == {"spawn", "lock_add", "insert"}
Removing == {"stop", "lock_rm", "close", "free", "unlink"}
Walking == {"walk_rm", "walk_show"}

Distinct == \A i, j \in 1..Len(list) : list[i] = list[j] => i = j

\* A linked source is live until its node is the next to be unlinked.
LinkedInv ==
  \A s \in Linked :
    obj[s].life = "live" \/ \E d \in DoorThreads : door[d].at = "unlink" /\ door[d].src = s

\* The source at hand, and the last node passed.
HandInv ==
  \A d \in DoorThreads :
    /\ door[d].at \in Adding => obj[door[d].src].life = "live" /\ door[d].src \notin Linked
    /\ door[d].at \in Removing =>
         /\ door[d].src \in Linked /\ door[d].src # door[d].pre
         /\ door[d].at # "unlink" => obj[door[d].src].life = "live"
    /\ door[d].at \in Removing \cup Walking => door[d].pre \in Linked \cup {NULL}
    /\ door[d].at \notin Removing \cup Walking => door[d].pre = NULL

WalkInv == Distinct /\ LinkedInv /\ HandInv

\* The node after one that is linked.
LEMMA NextIs ==
  ASSUME list \in Seq(Srcs), Distinct, NEW pre \in Linked \cup {NULL}, NEW s \in NextNodes(pre)
  PROVE  /\ s = NULL /\ pre = NULL => list = <<>>
         /\ s = NULL /\ pre # NULL => list[Len(list)] = pre
         /\ s # NULL => s \in Linked /\ s # pre
         /\ s # NULL /\ pre = NULL => list[1] = s
         /\ s # NULL /\ pre # NULL =>
              \E i \in 1..(Len(list) - 1) : list[i] = pre /\ list[i + 1] = s
<1>0. \A t \in Linked : t \in Srcs /\ t # NULL BY LinkedAreSrcs
<1>1. CASE pre = NULL
  <2>1. CASE list = <<>> BY <1>1, <2>1 DEF NextNodes
  <2>2. CASE list # <<>>
    <3>1. s = list[1] /\ 1 \in 1..Len(list) BY <1>1, <2>2 DEF NextNodes
    <3>2. s \in Linked BY <3>1 DEF Linked
    <3> QED BY <1>0, <1>1, <3>1, <3>2
  <2> QED BY <2>1, <2>2
<1>2. CASE pre # NULL
  <2> DEFINE k == Position(pre)
  <2>1. pre \in Linked /\ k \in 1..Len(list) /\ list[k] = pre BY <1>2, PositionIs
  <2>2. s = IF k = Len(list) THEN NULL ELSE list[k + 1] BY <1>2, <2>1 DEF NextNodes
  <2>3. CASE k = Len(list) BY <1>2, <2>1, <2>2, <2>3
  <2>4. CASE k # Len(list)
    <3>1. k \in 1..(Len(list) - 1) /\ s = list[k + 1] /\ k + 1 \in 1..Len(list)
      BY <2>1, <2>2, <2>4
    <3>2. s \in Linked BY <3>1 DEF Linked
    <3>3. s # pre BY <2>1, <3>1 DEF Distinct
    <3> QED BY <1>0, <1>2, <2>1, <3>1, <3>2, <3>3
  <2> QED BY <2>3, <2>4
<1> QED BY <1>1, <1>2

\* What each door step does to its thread, field by field.
LEMMA InsertIs ==
  ASSUME TypeInv, NEW d \in DoorThreads, InsertSource(d)
  PROVE  /\ door[d].at = "insert"
         /\ door'[d].at \in {"idle", "make"} /\ door'[d].src = NULL /\ door'[d].pre = door[d].pre
         /\ list' = Append(list, door[d].src)
         /\ UNCHANGED <<obj, toWatch, maxfd, fdSources, inter, openFds, master, poll, up>>
<1>1. door[d] \in Doors BY DEF TypeInv, TypeOK
<1>2. door'[d] = [door[d] EXCEPT !.at = IF door[d].zones = 0 THEN "idle" ELSE "make", !.src = NULL]
  BY DEF InsertSource, TypeInv, TypeOK
<1>3. door'[d].at \in {"idle", "make"} /\ door'[d].src = NULL /\ door'[d].pre = door[d].pre
  BY <1>1, <1>2 DEF Doors
<1> QED BY <1>3 DEF InsertSource, regVars

LEMMA UnlinkIs ==
  ASSUME TypeInv, NEW d \in DoorThreads, UnlinkNode(d)
  PROVE  /\ door[d].at = "unlink"
         /\ door'[d].at = "walk_rm" /\ door'[d].src = NULL /\ door'[d].pre = door[d].pre
         /\ door'[d].used = door[d].used
         /\ list' = ListRemove(door[d].src)
         /\ UNCHANGED <<obj, toWatch, maxfd, fdSources, inter, openFds, master, poll, up>>
<1>1. door[d] \in Doors BY DEF TypeInv, TypeOK
<1>2. door'[d] = [door[d] EXCEPT !.at = "walk_rm", !.src = NULL]
  BY DEF UnlinkNode, TypeInv, TypeOK
<1>3. /\ door'[d].at = "walk_rm" /\ door'[d].src = NULL /\ door'[d].pre = door[d].pre
      /\ door'[d].used = door[d].used
  BY <1>1, <1>2 DEF Doors
<1> QED BY <1>3 DEF UnlinkNode, regVars

LEMMA RequestIs ==
  ASSUME TypeInv, NEW d \in DoorThreads, RequestRemoval(d) \/ RequestShow(d)
  PROVE  /\ door[d].at = "idle"
         /\ \/ door' = door
            \/ /\ door'[d].at \in Walking
               /\ door'[d].pre \in {door[d].pre, NULL}
         /\ UNCHANGED <<obj, list, toWatch, maxfd, fdSources, inter, openFds, master, poll>>
<1>1. door[d] \in Doors /\ door \in [DoorThreads -> Doors] BY DEF TypeInv, TypeOK
<1>2. UNCHANGED <<obj, list, toWatch, maxfd, fdSources, inter, openFds, master, poll>>
      /\ door[d].at = "idle"
  BY DEF RequestRemoval, RequestShow, regVars
<1>3. CASE RequestShow(d)
  <2>1. door'[d] = [door[d] EXCEPT !.at = "walk_show", !.pre = NULL] BY <1>1, <1>3 DEF RequestShow
  <2> QED BY <1>1, <1>2, <2>1 DEF Doors, Walking
<1>4. CASE RequestRemoval(d)
  <2>1. door' = door \/ \E used \in Requests :
          door'[d] = [door[d] EXCEPT !.at = "walk_rm", !.used = used]
    BY <1>1, <1>4 DEF RequestRemoval
  <2> QED BY <1>1, <1>2, <2>1 DEF Doors, Walking
<1> QED BY <1>3, <1>4

LEMMA MakeIs ==
  ASSUME TypeInv, NEW d \in DoorThreads, RequestAdd(d) \/ NextZone(d)
  PROVE  /\ door[d].at \in {"idle", "make"} /\ door'[d].pre = door[d].pre
         /\ UNCHANGED <<list, toWatch, maxfd, fdSources, inter, master, poll, up>>
         /\ \/ door'[d].at \in {"idle", "make"} /\ UNCHANGED <<obj, openFds>>
            \/ \E n \in Srcs :
                 /\ obj[n].life = "none" /\ door'[d].src = n
                 /\ obj' \in [Srcs -> Objects]
                 /\ obj'[n].life = "live" /\ \A t \in Srcs \ {n} : obj'[t] = obj[t]
                 /\ \/ /\ door'[d].at = "lock_add" /\ obj'[n].type = "flow"
                       /\ obj'[n].fd \notin openFds /\ openFds' = openFds \cup {obj'[n].fd}
                    \/ door'[d].at = "spawn" /\ obj'[n].type = "poll" /\ openFds' = openFds
<1>1. door[d] \in Doors /\ door \in [DoorThreads -> Doors] /\ obj \in [Srcs -> Objects]
      /\ door[d].at \in {"idle", "make"}
  BY DEF TypeInv, TypeOK, RequestAdd, NextZone
<1>2. CASE \E type \in Types, zones \in Nat : MakeSource(d, type, zones)
  <2>1. PICK type \in Types, zones \in Nat : MakeSource(d, type, zones) BY <1>2
  <2>2. PICK n \in Srcs : n = Fresh /\ obj[n].life = "none"
    BY <2>1, FreshIsUnmade DEF TypeInv, MakeSource
  <2> DEFINE at == IF type = "flow" THEN "lock_add" ELSE "spawn"
             r == [door[d] EXCEPT !.at = at, !.src = n, !.zones = zones]
  <2>3. PICK name \in Names, fd \in IF type = "flow" THEN FDs \ openFds ELSE {NULL} :
          /\ obj' = [obj EXCEPT ![n] = [life |-> "live", type |-> type, name |-> name, fd |-> fd]]
          /\ openFds' = openFds \cup ({fd} \ {NULL})
          /\ door' = [door EXCEPT ![d] = r]
    BY <2>1, <2>2 DEF MakeSource
  <2>4. UNCHANGED <<list, toWatch, maxfd, fdSources, inter, master, poll, up>>
    BY <2>1 DEF MakeSource, regVars
  <2>5. door'[d] = r BY <1>1, <2>3
  <2>6. door'[d].at = at /\ door'[d].src = n /\ door'[d].pre = door[d].pre BY <1>1, <2>5 DEF Doors
  <2>7. [life |-> "live", type |-> type, name |-> name, fd |-> fd] \in Objects
    BY <2>3 DEF Objects
  <2>8. /\ obj'[n].life = "live" /\ obj'[n].type = type /\ obj'[n].fd = fd
        /\ \A t \in Srcs \ {n} : obj'[t] = obj[t] /\ obj' \in [Srcs -> Objects]
    BY <1>1, <2>3, <2>7
  <2>9. obj' \in [Srcs -> Objects] BY <1>1, <2>3, <2>7
  <2>10. CASE type = "flow"
    <3>1. fd \in FDs \ openFds /\ fd # NULL BY <2>3, <2>10
    <3> QED BY <1>1, <2>2, <2>3, <2>4, <2>6, <2>8, <2>9, <2>10, <3>1
  <2>11. CASE type # "flow"
    <3>1. fd = NULL /\ type = "poll" BY <2>3, <2>11 DEF Types
    <3> QED BY <1>1, <2>2, <2>3, <2>4, <2>6, <2>8, <2>9, <2>11, <3>1
  <2> QED BY <2>10, <2>11
<1>3. CASE ~\E type \in Types, zones \in Nat : MakeSource(d, type, zones)
  <2>1. NextZone(d) /\ ~MakeSource(d, "poll", door[d].zones - 1)
    <3>1. ~RequestAdd(d) BY <1>3 DEF RequestAdd, Types
    <3>2. "poll" \in Types /\ (NextZone(d) => door[d].zones - 1 \in Nat)
      BY <1>1 DEF Types, TypeInv, DoorInv, Doors, NextZone
    <3> QED BY <1>3, <3>1, <3>2
  <2>2. door'[d] = [door[d] EXCEPT !.at = IF door[d].zones = 1 THEN "idle" ELSE "make",
                                   !.zones = door[d].zones - 1]
        /\ UNCHANGED <<obj, list, toWatch, maxfd, fdSources, inter, openFds, master, poll, up>>
    BY <1>1, <2>1 DEF NextZone, regVars
  <2>3. door'[d].at \in {"idle", "make"} /\ door'[d].pre = door[d].pre BY <1>1, <2>2 DEF Doors
  <2> QED BY <1>1, <2>2, <2>3
<1> QED BY <1>2, <1>3

LEMMA WalkIs ==
  ASSUME TypeInv, NEW d \in DoorThreads, RemovalStep(d) \/ ShowStep(d)
  PROVE  /\ door[d].at \in Walking
         /\ UNCHANGED <<obj, list, toWatch, maxfd, fdSources, inter, openFds, master, poll, up>>
         /\ \E s \in NextNodes(door[d].pre) :
              \/ s = NULL /\ door'[d].at = "idle" /\ door'[d].pre = NULL
              \/ /\ s # NULL /\ door[d].at = "walk_rm" /\ Matches(door[d].used, s)
                 /\ door'[d].at = "stop" /\ door'[d].src = s /\ door'[d].pre = door[d].pre
                 /\ door'[d].used = door[d].used
              \/ /\ s # NULL /\ door'[d].at = door[d].at /\ door'[d].pre = s
                 /\ door'[d].used = door[d].used
                 /\ door[d].at = "walk_rm" => ~Matches(door[d].used, s)
<1>1. door[d] \in Doors /\ door \in [DoorThreads -> Doors] BY DEF TypeInv, TypeOK
<1>2. UNCHANGED <<obj, list, toWatch, maxfd, fdSources, inter, openFds, master, poll, up>>
  BY DEF RemovalStep, ShowStep, regVars
<1>3. PICK s \in NextNodes(door[d].pre) :
        \/ s = NULL /\ door'[d] = [door[d] EXCEPT !.at = "idle", !.pre = NULL, !.used = NoRequest]
        \/ s = NULL /\ door'[d] = [door[d] EXCEPT !.at = "idle", !.pre = NULL]
        \/ /\ s # NULL /\ door[d].at = "walk_rm" /\ Matches(door[d].used, s)
           /\ door'[d] = [door[d] EXCEPT !.at = "stop", !.src = s]
        \/ /\ s # NULL /\ door'[d] = [door[d] EXCEPT !.pre = s]
           /\ door[d].at = "walk_rm" => ~Matches(door[d].used, s)
  <2>1. CASE RemovalStep(d)
    BY <1>1, <2>1 DEF RemovalStep
  <2>2. CASE ShowStep(d)
    BY <1>1, <2>2 DEF ShowStep
  <2> QED BY <2>1, <2>2
<1>4. door[d].at \in Walking BY DEF RemovalStep, ShowStep, Walking
<1>5. CASE s = NULL
  <2>1. door'[d].at = "idle" /\ door'[d].pre = NULL BY <1>1, <1>3, <1>5 DEF Doors
  <2> QED BY <1>2, <1>4, <1>5, <2>1
<1>6. CASE s # NULL /\ door'[d] = [door[d] EXCEPT !.at = "stop", !.src = s]
                    /\ door[d].at = "walk_rm" /\ Matches(door[d].used, s)
  <2>1. /\ door'[d].at = "stop" /\ door'[d].src = s /\ door'[d].pre = door[d].pre
        /\ door'[d].used = door[d].used
    BY <1>1, <1>6 DEF Doors
  <2> QED BY <1>2, <1>4, <1>6, <2>1
<1>7. CASE s # NULL /\ door'[d] = [door[d] EXCEPT !.pre = s]
                    /\ (door[d].at = "walk_rm" => ~Matches(door[d].used, s))
  <2>1. /\ door'[d].at = door[d].at /\ door'[d].pre = s /\ door'[d].used = door[d].used
    BY <1>1, <1>7 DEF Doors
  <2> QED BY <1>2, <1>4, <1>7, <2>1
<1> QED BY <1>3, <1>5, <1>6, <1>7

\* The steps that leave the list and the thread's nodes as they are.
LEMMA MovesIs ==
  ASSUME TypeInv, NEW d \in DoorThreads,
         \/ WatchFd(d) \/ SpawnPollThread(d) \/ StopSource(d) \/ UnwatchFd(d) \/ CloseFd(d)
         \/ FreeSource(d)
  PROVE  /\ door'[d].src = door[d].src /\ door'[d].pre = door[d].pre
         /\ door'[d].used = door[d].used
         /\ list' = list /\ master' = master /\ inter' = inter
         /\ WatchFd(d) \/ UnwatchFd(d) \/ UNCHANGED <<toWatch, fdSources>>
         /\ openFds' = IF door[d].at = "close" THEN openFds \ {obj[door[d].src].fd} ELSE openFds
         /\ \/ door[d].at \in {"lock_add", "spawn"} /\ door'[d].at = "insert" /\ obj' = obj
            \/ /\ door[d].at = "stop" /\ obj' = obj
               /\ \/ door'[d].at = "lock_rm" /\ obj[door[d].src].type = "flow"
                  \/ door'[d].at \in {"free", "unlink"} /\ obj[door[d].src].type = "poll"
            \/ door[d].at = "lock_rm" /\ door'[d].at = "close" /\ obj' = obj
            \/ door[d].at = "close" /\ door'[d].at = "free" /\ obj' = obj
            \/ /\ door[d].at = "free" /\ door'[d].at = "unlink"
               /\ obj' = [obj EXCEPT ![door[d].src].life = "freed"]
<1>0. door \in [DoorThreads -> Doors] BY DEF TypeInv, TypeOK
<1>1. CASE WatchFd(d)
  <2>1. Moved(d, "insert") BY <1>0, <1>1, DoorMoves DEF WatchFd, DoorSteps
  <2>2. door[d].at = "lock_add" /\ UNCHANGED <<obj, list, inter, openFds, master>>
    BY <1>1 DEF WatchFd
  <2> QED BY <1>1, <2>1, <2>2 DEF Moved
<1>2. CASE SpawnPollThread(d)
  <2>1. Moved(d, "insert") BY <1>0, <1>2, DoorMoves DEF SpawnPollThread, DoorSteps
  <2> QED BY <1>2, <2>1 DEF SpawnPollThread, Moved, regVars
<1>3. CASE StopSource(d)
  <2>1. \/ obj[door[d].src].type = "flow" /\ Moved(d, "lock_rm")
        \/ obj[door[d].src].type = "poll" /\ (Moved(d, "unlink") \/ Moved(d, "free"))
    BY <1>0, <1>3, DoorMoves DEF StopSource, DoorSteps
  <2>2. door[d].at = "stop" /\ UNCHANGED <<obj, list, master, inter, toWatch, fdSources, openFds>>
    BY <1>3 DEF StopSource, regVars
  <2> QED BY <2>1, <2>2 DEF Moved
<1>4. CASE UnwatchFd(d)
  <2>1. Moved(d, "close") BY <1>0, <1>4, DoorMoves DEF UnwatchFd, DoorSteps
  <2>2. door[d].at = "lock_rm" /\ UNCHANGED <<obj, list, inter, openFds, master>>
    BY <1>4 DEF UnwatchFd
  <2> QED BY <1>4, <2>1, <2>2 DEF Moved
<1>5. CASE CloseFd(d)
  <2>1. Moved(d, "free") BY <1>0, <1>5, DoorMoves DEF CloseFd, DoorSteps
  <2> QED BY <1>5, <2>1 DEF CloseFd, Moved, regVars
<1>6. CASE FreeSource(d)
  <2>1. Moved(d, "unlink") BY <1>0, <1>6, DoorMoves DEF FreeSource, DoorSteps
  <2> QED BY <1>6, <2>1 DEF FreeSource, Moved, regVars
<1> QED BY <1>1, <1>2, <1>3, <1>4, <1>5, <1>6

\* A step is one of a door thread, or rests the objects, the list and the door threads.
LEMMA StepIs ==
  ASSUME TypeInv, MaxInv, [Next]_vars
  PROVE  \/ /\ UNCHANGED <<obj, list, maxfd, fdSources, openFds, door>>
            /\ MasterStep \/ UNCHANGED <<toWatch, inter, master>>
         \/ \E d \in DoorThreads :
              \/ InsertSource(d) \/ UnlinkNode(d)
              \/ RequestRemoval(d) \/ RequestShow(d)
              \/ RequestAdd(d) \/ NextZone(d)
              \/ RemovalStep(d) \/ ShowStep(d)
              \/ WatchFd(d) \/ SpawnPollThread(d) \/ StopSource(d) \/ UnwatchFd(d) \/ CloseFd(d)
              \/ FreeSource(d)
<1>1. CASE \E d \in DoorThreads : DoorStep(d) BY <1>1 DEF DoorStep, DoorContinue
<1>2. CASE MasterStep BY <1>2, MasterTypes
<1>3. CASE \E s \in Srcs : PollStep(s) BY <1>3, PollStepIs
<1>4. CASE Fault BY <1>4 DEF Fault, regVars
<1>5. CASE UNCHANGED vars BY <1>5 DEF vars, regVars
<1> QED BY <1>1, <1>2, <1>3, <1>4, <1>5 DEF Next

LEMMA WalkInvNext ==
  ASSUME OneDoor, TypeInv, MaxInv, WalkInv, [Next]_vars
  PROVE  WalkInv'
<1> USE DEF Adding, Removing, Walking
<1>0. list \in Seq(Srcs) /\ Linked \subseteq Srcs /\ obj \in [Srcs -> Objects]
  BY LinkedAreSrcs DEF TypeInv, TypeOK
<1>1. CASE UNCHANGED <<obj, list, door>>
  <2>1. Linked' = Linked BY <1>1 DEF Linked
  <2>2. Distinct' BY <1>1 DEF WalkInv, Distinct
  <2>3. LinkedInv' BY <1>1, <2>1 DEF WalkInv, LinkedInv
  <2>4. HandInv' BY <1>1, <2>1 DEF WalkInv, HandInv
  <2> QED BY <2>2, <2>3, <2>4 DEF WalkInv
<1>2. ASSUME NEW d \in DoorThreads, InsertSource(d) PROVE WalkInv'
  <2>1. /\ door[d].at = "insert" /\ door'[d].at \in {"idle", "make"}
        /\ door'[d].pre = door[d].pre /\ list' = Append(list, door[d].src) /\ obj' = obj
    BY <1>2, InsertIs
  <2>2. /\ door[d].src \in Srcs /\ door[d].src \notin Linked /\ obj[door[d].src].life = "live"
        /\ door[d].pre = NULL
    BY <2>1 DEF WalkInv, HandInv, TypeInv, DoorInv, Made, OnSource
  <2>3. Linked' = Linked \cup {door[d].src} BY <1>0, <2>1, <2>2 DEF Linked
  <2>4. Distinct'
    <3>1. /\ Len(list') = Len(list) + 1 /\ list'[Len(list) + 1] = door[d].src
          /\ \A i \in 1..Len(list) : list'[i] = list[i] /\ list'[i] # door[d].src
      BY <1>0, <2>1, <2>2 DEF Linked
    <3> QED BY <1>0, <3>1 DEF WalkInv, Distinct
  <2>5. LinkedInv' BY <2>1, <2>2, <2>3 DEF WalkInv, LinkedInv, OneDoor
  <2>6. HandInv' BY <2>1, <2>2 DEF HandInv, OneDoor
  <2> QED BY <2>4, <2>5, <2>6 DEF WalkInv
<1>3. ASSUME NEW d \in DoorThreads, UnlinkNode(d) PROVE WalkInv'
  <2>1. /\ door[d].at = "unlink" /\ door'[d].at = "walk_rm" /\ door'[d].pre = door[d].pre
        /\ list' = ListRemove(door[d].src) /\ obj' = obj
    BY <1>3, UnlinkIs
  <2>2. /\ door[d].src \in Linked /\ door[d].src # door[d].pre
        /\ door[d].pre \in Linked \cup {NULL}
    BY <2>1 DEF WalkInv, HandInv
  <2>3. Linked' = Linked \ {door[d].src} /\ Distinct'
    BY <1>0, <2>1, <2>2, ListRemoveIs DEF WalkInv, Distinct
  <2>4. LinkedInv' BY <2>1, <2>3 DEF WalkInv, LinkedInv, OneDoor
  <2>5. HandInv' BY <2>1, <2>2, <2>3 DEF HandInv, OneDoor
  <2> QED BY <2>3, <2>4, <2>5 DEF WalkInv
<1>4. ASSUME NEW d \in DoorThreads, RequestRemoval(d) \/ RequestShow(d) PROVE WalkInv'
  <2>1. /\ door[d].at = "idle" /\ UNCHANGED <<obj, list>>
        /\ \/ door' = door
           \/ door'[d].at \in Walking /\ door'[d].pre \in {door[d].pre, NULL}
    BY <1>4, RequestIs
  <2>2. CASE door' = door BY <1>1, <2>1, <2>2
  <2>3. CASE door'[d].at \in Walking /\ door'[d].pre \in {door[d].pre, NULL}
    <3>1. Linked' = Linked /\ Distinct' BY <2>1 DEF Linked, WalkInv, Distinct
    <3>2. door[d].pre = NULL BY <2>1 DEF WalkInv, HandInv
    <3>3. LinkedInv' BY <2>1, <3>1 DEF WalkInv, LinkedInv, OneDoor
    <3>4. HandInv' BY <2>3, <3>1, <3>2 DEF HandInv, OneDoor
    <3> QED BY <3>1, <3>3, <3>4 DEF WalkInv
  <2> QED BY <2>1, <2>2, <2>3
<1>5. ASSUME NEW d \in DoorThreads, RequestAdd(d) \/ NextZone(d) PROVE WalkInv'
  <2>1. /\ door[d].at \in {"idle", "make"} /\ door'[d].pre = door[d].pre /\ list' = list
        /\ \/ door'[d].at \in {"idle", "make"} /\ obj' = obj
           \/ \E n \in Srcs :
                /\ obj[n].life = "none" /\ door'[d].src = n /\ obj'[n].life = "live"
                /\ \A t \in Srcs \ {n} : obj'[t] = obj[t]
                /\ door'[d].at \in {"lock_add", "spawn"}
    BY <1>5, MakeIs
  <2>2. Linked' = Linked /\ Distinct' BY <2>1 DEF Linked, WalkInv, Distinct
  <2>3. \A t \in Linked : obj[t].life = "live"
    BY <2>1 DEF WalkInv, LinkedInv, OneDoor
  <2>4. door'[d].pre = NULL BY <2>1 DEF WalkInv, HandInv
  <2>5. LinkedInv'
    <3>1. \A t \in Linked : obj'[t].life = "live" BY <1>0, <2>1, <2>3
    <3> QED BY <2>2, <3>1 DEF LinkedInv
  <2>6. HandInv'
    <3>1. CASE door'[d].at \in {"idle", "make"} BY <2>4, <3>1 DEF HandInv, OneDoor
    <3>2. CASE /\ door'[d].at \in {"lock_add", "spawn"}
               /\ obj'[door'[d].src].life = "live" /\ door'[d].src \notin Linked
      BY <2>2, <2>4, <3>2 DEF HandInv, OneDoor
    <3> QED BY <2>1, <2>3, <3>1, <3>2
  <2> QED BY <2>2, <2>5, <2>6 DEF WalkInv
<1>6. ASSUME NEW d \in DoorThreads, RemovalStep(d) \/ ShowStep(d) PROVE WalkInv'
  <2>1. door[d].at \in Walking /\ UNCHANGED <<obj, list>> BY <1>6, WalkIs
  <2>2. PICK s \in NextNodes(door[d].pre) :
          \/ s = NULL /\ door'[d].at = "idle" /\ door'[d].pre = NULL
          \/ /\ s # NULL /\ door'[d].at = "stop" /\ door'[d].src = s /\ door'[d].pre = door[d].pre
          \/ s # NULL /\ door'[d].at = door[d].at /\ door'[d].pre = s
    BY <1>6, WalkIs
  <2>3. door[d].pre \in Linked \cup {NULL} BY <2>1 DEF WalkInv, HandInv
  <2>4. s # NULL => s \in Linked /\ s # door[d].pre BY <1>0, <2>3, NextIs DEF WalkInv
  <2>5. Linked' = Linked /\ Distinct' BY <2>1 DEF Linked, WalkInv, Distinct
  <2>6. \A t \in Linked : obj[t].life = "live" BY <2>1 DEF WalkInv, LinkedInv, OneDoor
  <2>7. LinkedInv' BY <2>1, <2>5, <2>6 DEF LinkedInv
  <2>8. HandInv' BY <2>1, <2>2, <2>3, <2>4, <2>5, <2>6 DEF HandInv, OneDoor
  <2> QED BY <2>5, <2>7, <2>8 DEF WalkInv
<1>7. ASSUME NEW d \in DoorThreads,
             \/ WatchFd(d) \/ SpawnPollThread(d) \/ StopSource(d) \/ UnwatchFd(d) \/ CloseFd(d)
             \/ FreeSource(d)
      PROVE  WalkInv'
  <2>1. /\ door'[d].src = door[d].src /\ door'[d].pre = door[d].pre /\ list' = list
        /\ \/ door[d].at \in {"lock_add", "spawn"} /\ door'[d].at = "insert" /\ obj' = obj
           \/ /\ door[d].at \in {"stop", "lock_rm", "close"} /\ obj' = obj
              /\ door'[d].at \in {"lock_rm", "close", "free", "unlink"}
           \/ /\ door[d].at = "free" /\ door'[d].at = "unlink"
              /\ obj' = [obj EXCEPT ![door[d].src].life = "freed"]
    BY <1>7, MovesIs
  <2>2. Linked' = Linked /\ Distinct' BY <2>1 DEF Linked, WalkInv, Distinct
  <2>3. \A t \in Linked : obj[t].life = "live" BY <2>1 DEF WalkInv, LinkedInv, OneDoor
  <2>4. CASE obj' = obj
    <3>1. LinkedInv' BY <2>2, <2>3, <2>4 DEF LinkedInv
    <3>2. HandInv' BY <2>1, <2>2, <2>4 DEF WalkInv, HandInv, OneDoor
    <3> QED BY <2>2, <3>1, <3>2 DEF WalkInv
  <2>5. CASE /\ door[d].at = "free" /\ door'[d].at = "unlink"
             /\ obj' = [obj EXCEPT ![door[d].src].life = "freed"]
    <3>1. \A t \in Srcs \ {door[d].src} : obj'[t] = obj[t] BY <1>0, <2>5
    <3>2. LinkedInv'
      BY <1>0, <2>1, <2>2, <2>3, <2>5, <3>1 DEF LinkedInv
    <3>3. HandInv' BY <2>1, <2>2, <2>5 DEF WalkInv, HandInv, OneDoor
    <3> QED BY <2>2, <3>2, <3>3 DEF WalkInv
  <2> QED BY <2>1, <2>4, <2>5
<1> QED BY <1>1, <1>2, <1>3, <1>4, <1>5, <1>6, <1>7, StepIs

\* A walk never stands on or steps onto a node or a source that is gone.
THEOREM WalksAreSafeHolds ==
  ASSUME OneDoor
  PROVE  Spec => []WalksAreSafe
<1>1. Init => TypeInv /\ MaxInv /\ WalkInv
  <2>1. Init => MaxInv BY DEF Init, MaxInv
  <2>2. Init => WalkInv
    BY DEF Init, WalkInv, Distinct, LinkedInv, HandInv, Linked, Adding, Removing, Walking
  <2> QED BY <2>1, <2>2, TypeInit
<1>2. TypeInv /\ MaxInv /\ WalkInv => WalksAreSafe
  <2> SUFFICES ASSUME TypeInv, WalkInv, NEW d \in DoorThreads, door[d].at \in Walking
               PROVE  /\ door[d].pre # NULL => door[d].pre \in Linked
                      /\ \A s \in NextNodes(door[d].pre) : s # NULL => obj[s].life = "live"
    BY DEF WalksAreSafe, Walking
  <2>1. door[d].pre \in Linked \cup {NULL} BY DEF WalkInv, HandInv
  <2>2. \A s \in Linked : obj[s].life = "live"
    BY DEF WalkInv, LinkedInv, OneDoor, Walking
  <2>3. list \in Seq(Srcs) BY DEF TypeInv, TypeOK
  <2> QED BY <2>1, <2>2, <2>3, NextIs DEF WalkInv
<1>3. TypeInv /\ MaxInv /\ WalkInv /\ [Next]_vars => TypeInv' /\ MaxInv' /\ WalkInv'
  BY TypeNext, WalkInvNext
<1> QED BY <1>1, <1>2, <1>3, PTL DEF Spec

\* A removal has passed no node that matches its request, and the node it removes is the
\* one after the last it passed.
RemovalInv ==
  \A d \in DoorThreads :
    /\ door[d].at \in {"walk_rm"} \cup Removing =>
         \A i \in 1..Len(list) :
           list[i] = door[d].pre => \A j \in 1..i : ~Matches(door[d].used, list[j])
    /\ door[d].at \in Removing =>
         \A i \in 1..Len(list) :
           list[i] = door[d].src =>
             IF door[d].pre = NULL THEN i = 1 ELSE i > 1 /\ list[i - 1] = door[d].pre

LEMMA RemovalInvNext ==
  ASSUME OneDoor, TypeInv, MaxInv, WalkInv, RemovalInv, [Next]_vars
  PROVE  RemovalInv'
<1> USE DEF Removing, Walking
<1>0. /\ list \in Seq(Srcs) /\ obj \in [Srcs -> Objects]
      /\ \A i \in 1..Len(list) : list[i] # NULL
  BY DEF TypeInv, TypeOK
<1>1. CASE UNCHANGED <<obj, list, door>>
  BY <1>1, Zenon DEF RemovalInv, Matches
<1>2. ASSUME NEW d \in DoorThreads, InsertSource(d) PROVE RemovalInv'
  <2>1. door'[d].at \in {"idle", "make"} BY <1>2, InsertIs
  <2> QED BY <2>1 DEF RemovalInv, OneDoor
<1>3. ASSUME NEW d \in DoorThreads, UnlinkNode(d) PROVE RemovalInv'
  <2>1. /\ door[d].at = "unlink" /\ door'[d].at = "walk_rm" /\ door'[d].pre = door[d].pre
        /\ door'[d].used = door[d].used /\ list' = ListRemove(door[d].src) /\ obj' = obj
    BY <1>3, UnlinkIs
  <2>2. door[d].src \in Linked BY <2>1 DEF WalkInv, HandInv
  <2> DEFINE p == Position(door[d].src)
  <2>3. p \in 1..Len(list) /\ list[p] = door[d].src BY <1>0, <2>2, PositionIs
  <2>4. /\ list' \in Seq(Srcs) /\ Len(list') = Len(list) - 1
        /\ \A k \in 1..(Len(list) - 1) : list'[k] = IF k < p THEN list[k] ELSE list[k + 1]
    BY <1>0, <2>1, <2>2, ListRemoveIs DEF WalkInv, Distinct
  <2>5. ASSUME NEW i \in 1..Len(list'), list'[i] = door[d].pre, NEW j \in 1..i
        PROVE  ~Matches(door[d].used, list'[j])
    <3>1. door[d].pre # NULL
      <4>1. list'[i] # NULL BY <2>4
      <4> QED BY <2>5, <4>1
    <3>2. p > 1 /\ list[p - 1] = door[d].pre BY <2>1, <2>3, <3>1 DEF RemovalInv
    <3>3. i < p
      <4>1. ~(i < p) => /\ list[i + 1] = list[p - 1]
                        /\ i + 1 \in 1..Len(list) /\ p - 1 \in 1..Len(list)
        BY <1>0, <2>3, <2>4, <2>5, <3>2
      <4> QED BY <2>3, <4>1 DEF WalkInv, Distinct
    <3>4. list'[i] = list[i] /\ list'[j] = list[j] /\ i \in 1..Len(list) BY <1>0, <2>3, <2>4, <3>3
    <3> QED BY <2>1, <2>5, <3>4 DEF RemovalInv
  <2>6. \A t : Matches(door[d].used, t)' <=> Matches(door[d].used, t) BY <2>1 DEF Matches
  <2>7. \A e \in DoorThreads : e = d BY DEF OneDoor
  <2> SUFFICES ASSUME NEW i \in 1..Len(list'), list'[i] = door'[d].pre, NEW j \in 1..i
               PROVE  ~Matches(door[d].used, list[j])'
    BY <2>1, <2>7 DEF RemovalInv
  <2>8. ~Matches(door[d].used, list'[j]) BY <2>1, <2>5
  <2> QED BY <2>1, <2>8 DEF Matches
<1>4. ASSUME NEW d \in DoorThreads, RequestRemoval(d) \/ RequestShow(d) PROVE RemovalInv'
  <2>1. /\ door[d].at = "idle" /\ UNCHANGED <<obj, list>>
        /\ \/ door' = door
           \/ door'[d].at \in Walking /\ door'[d].pre \in {door[d].pre, NULL}
    BY <1>4, RequestIs
  <2>2. CASE door' = door BY <1>1, <2>1, <2>2
  <2>3. CASE door'[d].at \in Walking /\ door'[d].pre \in {door[d].pre, NULL}
    <3>1. door'[d].pre = NULL BY <2>1, <2>3 DEF WalkInv, HandInv
    <3> QED BY <1>0, <2>1, <2>3, <3>1 DEF RemovalInv, OneDoor
  <2> QED BY <2>1, <2>2, <2>3
<1>5. ASSUME NEW d \in DoorThreads, RequestAdd(d) \/ NextZone(d) PROVE RemovalInv'
  <2>1. door'[d].at \in {"idle", "make", "lock_add", "spawn"} BY <1>5, MakeIs
  <2> QED BY <2>1 DEF RemovalInv, OneDoor
<1>6. ASSUME NEW d \in DoorThreads, RemovalStep(d) \/ ShowStep(d) PROVE RemovalInv'
  <2>1. door[d].at \in Walking /\ UNCHANGED <<obj, list>> BY <1>6, WalkIs
  <2>2. PICK s \in NextNodes(door[d].pre) :
          \/ s = NULL /\ door'[d].at = "idle" /\ door'[d].pre = NULL
          \/ /\ s # NULL /\ door[d].at = "walk_rm" /\ door'[d].at = "stop" /\ door'[d].src = s
             /\ door'[d].pre = door[d].pre /\ door'[d].used = door[d].used
          \/ /\ s # NULL /\ door'[d].at = door[d].at /\ door'[d].pre = s
             /\ door'[d].used = door[d].used
             /\ door[d].at = "walk_rm" => ~Matches(door[d].used, s)
    BY <1>6, WalkIs
  <2>3. door[d].pre \in Linked \cup {NULL} BY <2>1 DEF WalkInv, HandInv
  <2>4. /\ s # NULL /\ door[d].pre = NULL => list[1] = s
        /\ s # NULL /\ door[d].pre # NULL =>
             \E i \in 1..(Len(list) - 1) : list[i] = door[d].pre /\ list[i + 1] = s
        /\ s # NULL => s \in Linked
    BY <1>0, <2>3, NextIs DEF WalkInv
  <2>5. \A u, t : Matches(u, t)' <=> Matches(u, t) BY <2>1 DEF Matches
  <2>6. \A e \in DoorThreads : e = d BY DEF OneDoor
  <2>7. CASE door'[d].at = "idle" BY <2>6, <2>7 DEF RemovalInv
  <2>8. CASE /\ s # NULL /\ door[d].at = "walk_rm" /\ door'[d].at = "stop" /\ door'[d].src = s
             /\ door'[d].pre = door[d].pre /\ door'[d].used = door[d].used
    <3>1. \A i \in 1..Len(list) : list[i] = door[d].pre =>
            \A j \in 1..i : ~Matches(door[d].used, list[j])
      BY <2>8 DEF RemovalInv
    <3>2. \A i \in 1..Len(list) : list[i] = s =>
            IF door[d].pre = NULL THEN i = 1 ELSE i > 1 /\ list[i - 1] = door[d].pre
      <4> TAKE i \in 1..Len(list)
      <4> HAVE list[i] = s
      <4>1. CASE door[d].pre = NULL BY <1>0, <2>4, <2>8, <4>1 DEF WalkInv, Distinct
      <4>2. CASE door[d].pre # NULL
        <5>1. PICK k \in 1..(Len(list) - 1) : list[k] = door[d].pre /\ list[k + 1] = s
          BY <2>4, <2>8, <4>2
        <5>2. k + 1 \in 1..Len(list) BY <1>0, <5>1
        <5>3. i = k + 1 BY <5>1, <5>2 DEF WalkInv, Distinct
        <5> QED BY <1>0, <4>2, <5>1, <5>3
      <4> QED BY <4>1, <4>2
    <3> QED BY <2>1, <2>6, <2>8, <3>1, <3>2 DEF RemovalInv, Matches
  <2>9. CASE door[d].at = "walk_show" /\ door'[d].at = "walk_show"
    BY <2>6, <2>9 DEF RemovalInv
  <2>10. CASE /\ s # NULL /\ door[d].at = "walk_rm" /\ door'[d].at = "walk_rm" /\ door'[d].pre = s
              /\ door'[d].used = door[d].used /\ ~Matches(door[d].used, s)
    <3>1. ASSUME NEW i \in 1..Len(list), list[i] = s, NEW j \in 1..i
          PROVE  ~Matches(door[d].used, list[j])
      <4>1. CASE j = i BY <2>10, <3>1, <4>1
      <4>2. CASE j < i
        <5>1. door[d].pre # NULL
          <6>1. door[d].pre = NULL => list[1] = list[i] BY <2>4, <2>10, <3>1
          <6> QED BY <1>0, <4>2, <6>1 DEF WalkInv, Distinct
        <5>2. PICK k \in 1..(Len(list) - 1) : list[k] = door[d].pre /\ list[k + 1] = s
          BY <2>4, <2>10, <5>1
        <5>3. i = k + 1 BY <1>0, <3>1, <5>2 DEF WalkInv, Distinct
        <5>4. j \in 1..k /\ k \in 1..Len(list) BY <1>0, <4>2, <5>3
        <5> QED BY <2>10, <5>2, <5>4 DEF RemovalInv
      <4> QED BY <4>1, <4>2
    <3> QED BY <2>1, <2>6, <2>10, <3>1 DEF RemovalInv, Matches
  <2> QED BY <2>1, <2>2, <2>7, <2>8, <2>9, <2>10
<1>7. ASSUME NEW d \in DoorThreads,
             \/ WatchFd(d) \/ SpawnPollThread(d) \/ StopSource(d) \/ UnwatchFd(d) \/ CloseFd(d)
             \/ FreeSource(d)
      PROVE  RemovalInv'
  <2>1. /\ door'[d].src = door[d].src /\ door'[d].pre = door[d].pre /\ list' = list
        /\ door'[d].used = door[d].used
        /\ \/ door'[d].at = "insert"
           \/ door[d].at \in Removing /\ door'[d].at \in Removing
        /\ obj' = obj \/ obj' = [obj EXCEPT ![door[d].src].life = "freed"]
    BY <1>7, MovesIs
  <2>2. \A t \in Srcs : obj'[t].name = obj[t].name /\ obj'[t].type = obj[t].type
    BY <1>0, <2>1 DEF Objects
  <2>3. \A e \in DoorThreads : e = d BY DEF OneDoor
  <2>4. CASE door'[d].at = "insert" BY <2>3, <2>4 DEF RemovalInv
  <2>5. CASE door[d].at \in Removing /\ door'[d].at \in Removing
    <3>1. \A i \in 1..Len(list) : list[i] \in Srcs BY <1>0
    <3>2. \A i \in 1..Len(list) : list[i] = door[d].pre =>
            \A j \in 1..i : /\ ~Matches(door[d].used, list[j]) /\ list[j] \in Srcs
      BY <1>0, <2>5, <3>1 DEF RemovalInv
    <3>3. \A i \in 1..Len(list) : list[i] = door[d].src =>
            IF door[d].pre = NULL THEN i = 1 ELSE i > 1 /\ list[i - 1] = door[d].pre
      BY <2>5 DEF RemovalInv
    <3>4. ASSUME NEW i \in 1..Len(list'), list'[i] = door'[d].pre, NEW j \in 1..i
          PROVE  ~Matches(door[d].used, list[j])'
      <4>1. i \in 1..Len(list) /\ list[i] = door[d].pre /\ list'[j] = list[j] BY <2>1, <3>4
      <4>2. ~Matches(door[d].used, list[j]) /\ list[j] \in Srcs BY <4>1, <3>2
      <4>3. /\ obj'[list'[j]].name = obj[list[j]].name
            /\ obj'[list'[j]].type = obj[list[j]].type
            /\ door'[d].used = door[d].used
        BY <2>1, <2>2, <4>1, <4>2
      <4> QED BY <4>2, <4>3 DEF Matches
    <3>5. \A i \in 1..Len(list') : list'[i] = door'[d].src =>
            IF door'[d].pre = NULL THEN i = 1 ELSE i > 1 /\ list'[i - 1] = door'[d].pre
      BY <2>1, <3>3
    <3> SUFFICES /\ \A i \in 1..Len(list') : list'[i] = door'[d].pre =>
                      \A j \in 1..i : ~Matches(door[d].used, list[j])'
                 /\ \A i \in 1..Len(list') : list'[i] = door'[d].src =>
                      IF door'[d].pre = NULL THEN i = 1 ELSE i > 1 /\ list'[i - 1] = door'[d].pre
      BY <2>3 DEF RemovalInv
    <3> QED BY <3>4, <3>5
  <2> QED BY <2>1, <2>4, <2>5
<1> QED BY <1>1, <1>2, <1>3, <1>4, <1>5, <1>6, <1>7, StepIs

\* A removal that ends has passed every node, and none of them matches.
LEMMA AllPassed ==
  ASSUME OneDoor, TypeInv, MaxInv, WalkInv, RemovalInv, [Next]_vars,
         NEW d \in DoorThreads, door[d].at = "walk_rm", door'[d].at = "idle"
  PROVE  list' = list /\ \A s \in Linked : ~Matches(door[d].used, s)
<1>1. RemovalStep(d) \/ ShowStep(d)
  <2>1. door' # door OBVIOUS
  <2>2. PICK e \in DoorThreads :
           \/ InsertSource(e) \/ UnlinkNode(e)
           \/ RequestRemoval(e) \/ RequestShow(e)
           \/ RequestAdd(e) \/ NextZone(e)
           \/ RemovalStep(e) \/ ShowStep(e)
           \/ WatchFd(e) \/ SpawnPollThread(e) \/ StopSource(e) \/ UnwatchFd(e) \/ CloseFd(e)
           \/ FreeSource(e)
    BY <2>1, StepIs
  <2>3. e = d BY DEF OneDoor
  <2>4. ~InsertSource(d) /\ ~UnlinkNode(d) BY InsertIs, UnlinkIs
  <2>5. ~(RequestRemoval(d) \/ RequestShow(d)) BY RequestIs
  <2>6. ~(RequestAdd(d) \/ NextZone(d)) BY MakeIs
  <2>7. ~(WatchFd(d) \/ SpawnPollThread(d) \/ StopSource(d) \/ UnwatchFd(d) \/ CloseFd(d)
          \/ FreeSource(d))
    BY MovesIs
  <2> QED BY <2>2, <2>3, <2>4, <2>5, <2>6, <2>7
<1>2. list' = list /\ NULL \in NextNodes(door[d].pre) /\ list \in Seq(Srcs)
  BY <1>1, WalkIs DEF TypeInv, TypeOK
<1>3. door[d].pre \in Linked \cup {NULL} BY DEF WalkInv, HandInv, Walking
<1>4. CASE door[d].pre = NULL
  <2>1. list = <<>> BY <1>2, <1>3, <1>4, NextIs DEF WalkInv
  <2> QED BY <1>2, <2>1 DEF Linked
<1>5. CASE door[d].pre # NULL
  <2>1. list[Len(list)] = door[d].pre BY <1>2, <1>3, <1>5, NextIs DEF WalkInv
  <2>2. Len(list) \in 1..Len(list) BY <1>2, <1>3, <1>5 DEF Linked
  <2>3. \A j \in 1..Len(list) : ~Matches(door[d].used, list[j])
    BY <2>1, <2>2 DEF RemovalInv
  <2> QED BY <1>2, <2>3 DEF Linked
<1> QED BY <1>2, <1>4, <1>5

\* When a removal returns, nothing that matches its request is listed.
THEOREM RemovalIsCompleteHolds ==
  ASSUME OneDoor
  PROVE  Spec => RemovalIsComplete
<1> DEFINE Inv == TypeInv /\ MaxInv /\ WalkInv /\ RemovalInv
           Step == \A d \in DoorThreads :
                     (door[d].at = "walk_rm" /\ door'[d].at = "idle") =>
                        \A s \in Linked' : ~Matches(door[d].used, s)
<1>1. Init => Inv
  <2>1. Init => MaxInv BY DEF Init, MaxInv
  <2>2. Init => WalkInv /\ RemovalInv
    BY DEF Init, WalkInv, Distinct, LinkedInv, HandInv, RemovalInv, Linked, Adding, Removing,
           Walking
  <2> QED BY <2>1, <2>2, TypeInit
<1>2. Inv /\ [Next]_vars => Inv'
  BY TypeNext, WalkInvNext, RemovalInvNext
<1>3. Inv /\ [Next]_vars => [Step]_vars
  <2> SUFFICES ASSUME Inv, [Next]_vars, NEW d \in DoorThreads, door[d].at = "walk_rm",
                      door'[d].at = "idle"
               PROVE  \A s \in Linked' : ~Matches(door[d].used, s)
    OBVIOUS
  <2> QED BY AllPassed DEF Linked
<1> QED BY <1>1, <1>2, <1>3, PTL DEF Spec, RemovalIsComplete

\* The sources that own an open socket: live flow sources, until their door call closes it.
Holders ==
  {s \in Srcs : /\ obj[s].life = "live" /\ obj[s].type = "flow"
                /\ ~\E d \in DoorThreads : door[d].at = "free" /\ door[d].src = s}

OpenInv ==
  /\ openFds = {obj[s].fd : s \in Holders}
  /\ \A s, t \in Holders : obj[s].fd = obj[t].fd => s = t
ListedInv ==
  \A s \in Srcs :
    obj[s].life = "live" /\ obj[s].type = "flow" =>
      s \in Linked
      \/ \E d \in DoorThreads : door[d].at \in {"lock_add", "insert"} /\ door[d].src = s
ClosedInv ==
  \A d \in DoorThreads :
    /\ door[d].at = "close" => obj[door[d].src].type = "flow"
    /\ door[d].at = "unlink" /\ obj[door[d].src].type = "flow" => obj[door[d].src].life # "live"

SocketInv == OpenInv /\ ListedInv /\ ClosedInv

\* While no door call adds a flow source, every live one is listed.
LEMMA LiveAreListed ==
  ASSUME OneDoor, ListedInv, NEW d \in DoorThreads, door[d].at \notin {"lock_add", "insert"}
  PROVE  \A s \in Srcs : obj[s].life = "live" /\ obj[s].type = "flow" => s \in Linked
BY DEF ListedInv, OneDoor

LEMMA SocketInvNext ==
  ASSUME OneDoor, TypeInv, MaxInv, WalkInv, SocketInv, [Next]_vars
  PROVE  SocketInv'
<1> USE DEF Adding, Removing, Walking
<1>0. /\ list \in Seq(Srcs) /\ Linked \subseteq Srcs /\ obj \in [Srcs -> Objects]
      /\ \A d, e \in DoorThreads : e = d
      /\ \A d \in DoorThreads : door[d].at \in OnSource => door[d].src \in Srcs
  BY LinkedAreSrcs DEF TypeInv, TypeOK, OneDoor, DoorInv, Made
<1>1. CASE UNCHANGED <<obj, list, door, openFds>>
  <2>1. Holders' = Holders /\ Linked' = Linked BY <1>1 DEF Holders, Linked
  <2> QED BY <1>1, <2>1 DEF SocketInv, OpenInv, ListedInv, ClosedInv
<1>2. ASSUME NEW d \in DoorThreads, InsertSource(d) PROVE SocketInv'
  <2>1. /\ door[d].at = "insert" /\ door'[d].at \in {"idle", "make"}
        /\ list' = Append(list, door[d].src) /\ obj' = obj /\ openFds' = openFds
    BY <1>2, InsertIs
  <2>2. door[d].src \in Srcs BY <1>0, <2>1 DEF OnSource
  <2>3. Linked' = Linked \cup {door[d].src} BY <1>0, <2>1, <2>2 DEF Linked
  <2>4. Holders' = Holders BY <1>0, <2>1 DEF Holders
  <2>5. \A s \in Srcs : obj[s].life = "live" /\ obj[s].type = "flow" => s \in Linked'
    BY <1>0, <2>1, <2>3 DEF SocketInv, ListedInv
  <2> QED BY <1>0, <2>1, <2>4, <2>5 DEF SocketInv, OpenInv, ListedInv, ClosedInv
<1>3. ASSUME NEW d \in DoorThreads, UnlinkNode(d) PROVE SocketInv'
  <2>1. /\ door[d].at = "unlink" /\ door'[d].at = "walk_rm"
        /\ list' = ListRemove(door[d].src) /\ obj' = obj /\ openFds' = openFds
    BY <1>3, UnlinkIs
  <2>2. door[d].src \in Linked BY <2>1 DEF WalkInv, HandInv
  <2>3. Linked' = Linked \ {door[d].src}
    BY <1>0, <2>1, <2>2, ListRemoveIs DEF WalkInv, Distinct
  <2>4. Holders' = Holders BY <1>0, <2>1 DEF Holders
  <2>5. \A s \in Srcs : obj[s].life = "live" /\ obj[s].type = "flow" => s \in Linked'
    <3>1. \A s \in Srcs : obj[s].life = "live" /\ obj[s].type = "flow" => s \in Linked
      BY <2>1, LiveAreListed DEF SocketInv
    <3>2. obj[door[d].src].type = "flow" => obj[door[d].src].life # "live"
      BY <2>1 DEF SocketInv, ClosedInv
    <3> QED BY <2>3, <3>1, <3>2
  <2>6. OpenInv' BY <2>1, <2>4 DEF SocketInv, OpenInv
  <2>7. ListedInv' BY <2>1, <2>5 DEF ListedInv
  <2>8. ClosedInv' BY <1>0, <2>1 DEF ClosedInv
  <2> QED BY <2>6, <2>7, <2>8 DEF SocketInv
<1>4. ASSUME NEW d \in DoorThreads, RequestRemoval(d) \/ RequestShow(d) PROVE SocketInv'
  <2>1. /\ door[d].at = "idle" /\ UNCHANGED <<obj, list, openFds>>
        /\ door' = door \/ door'[d].at \in Walking
    BY <1>4, RequestIs
  <2>2. CASE door' = door BY <1>1, <2>1, <2>2
  <2>3. CASE door'[d].at \in Walking
    <3>1. Holders' = Holders /\ Linked' = Linked BY <1>0, <2>1, <2>3 DEF Holders, Linked
    <3>2. \A s \in Srcs : obj[s].life = "live" /\ obj[s].type = "flow" => s \in Linked'
      BY <2>1, <3>1, LiveAreListed DEF SocketInv
    <3> QED BY <1>0, <2>1, <2>3, <3>1, <3>2 DEF SocketInv, OpenInv, ListedInv, ClosedInv
  <2> QED BY <2>1, <2>2, <2>3
<1>5. ASSUME NEW d \in DoorThreads, RequestAdd(d) \/ NextZone(d) PROVE SocketInv'
  <2>1. door[d].at \in {"idle", "make"} /\ list' = list BY <1>5, MakeIs
  <2>2. Linked' = Linked BY <2>1 DEF Linked
  <2>3. \A s \in Srcs : obj[s].life = "live" /\ obj[s].type = "flow" => s \in Linked
    BY <2>1, LiveAreListed DEF SocketInv
  <2>4. Holders = {s \in Srcs : obj[s].life = "live" /\ obj[s].type = "flow"}
    BY <1>0, <2>1 DEF Holders
  <2>5. CASE door'[d].at \in {"idle", "make"} /\ UNCHANGED <<obj, openFds>>
    <3>1. Holders' = Holders BY <1>0, <2>4, <2>5 DEF Holders
    <3> QED BY <1>0, <2>2, <2>3, <2>5, <3>1 DEF SocketInv, OpenInv, ListedInv, ClosedInv
  <2>6. ASSUME NEW n \in Srcs, obj[n].life = "none", door'[d].src = n,
               obj'[n].life = "live", \A t \in Srcs \ {n} : obj'[t] = obj[t],
               \/ /\ door'[d].at = "lock_add" /\ obj'[n].type = "flow"
                  /\ obj'[n].fd \notin openFds /\ openFds' = openFds \cup {obj'[n].fd}
               \/ door'[d].at = "spawn" /\ obj'[n].type = "poll" /\ openFds' = openFds
        PROVE  SocketInv'
    <3>1. n \notin Holders /\ \A t \in Holders : obj'[t] = obj[t] BY <2>6, <2>4
    <3>2. CASE /\ door'[d].at = "lock_add" /\ obj'[n].type = "flow"
               /\ obj'[n].fd \notin openFds /\ openFds' = openFds \cup {obj'[n].fd}
      <4>1. Holders' = Holders \cup {n} BY <1>0, <2>4, <2>6, <3>2 DEF Holders
      <4>2. openFds = {obj[s].fd : s \in Holders} BY DEF SocketInv, OpenInv
      <4>3. openFds' = {obj'[s].fd : s \in Holders'} BY <3>1, <3>2, <4>1, <4>2
      <4>4. \A s, t \in Holders' : obj'[s].fd = obj'[t].fd => s = t
        <5>1. \A s, t \in Holders : obj'[s].fd = obj'[t].fd => s = t
          BY <3>1 DEF SocketInv, OpenInv
        <5>2. \A s \in Holders : obj'[s].fd # obj'[n].fd BY <3>1, <3>2, <4>2
        <5> QED BY <4>1, <5>1, <5>2
      <4>5. \A s \in Srcs : obj'[s].life = "live" /\ obj'[s].type = "flow" => s \in Linked' \/ s = n
        BY <2>2, <2>3, <2>6
      <4>6. OpenInv' BY <4>3, <4>4 DEF OpenInv
      <4>7. ListedInv' BY <2>6, <3>2, <4>5 DEF ListedInv
      <4>8. ClosedInv' BY <1>0, <3>2 DEF ClosedInv
      <4> QED BY <4>6, <4>7, <4>8 DEF SocketInv
    <3>3. CASE door'[d].at = "spawn" /\ obj'[n].type = "poll" /\ openFds' = openFds
      <4>1. Holders' = Holders BY <1>0, <2>4, <2>6, <3>3 DEF Holders
      <4>2. \A s \in Srcs : obj'[s].life = "live" /\ obj'[s].type = "flow" => s \in Linked'
        BY <2>2, <2>3, <2>6, <3>3
      <4> QED BY <1>0, <2>6, <3>1, <3>3, <4>1, <4>2 DEF SocketInv, OpenInv, ListedInv, ClosedInv
    <3> QED BY <2>6, <3>2, <3>3
  <2> QED BY <1>5, <2>5, <2>6, MakeIs
<1>6. ASSUME NEW d \in DoorThreads, RemovalStep(d) \/ ShowStep(d) PROVE SocketInv'
  <2>1. /\ door[d].at \in Walking /\ UNCHANGED <<obj, list, openFds>>
        /\ door'[d].at \in {"idle", "stop", "walk_rm", "walk_show"}
    BY <1>6, WalkIs
  <2>2. Holders' = Holders /\ Linked' = Linked BY <1>0, <2>1 DEF Holders, Linked
  <2>3. \A s \in Srcs : obj[s].life = "live" /\ obj[s].type = "flow" => s \in Linked
    BY <2>1, LiveAreListed DEF SocketInv
  <2> QED BY <1>0, <2>1, <2>2, <2>3 DEF SocketInv, OpenInv, ListedInv, ClosedInv
<1>7. ASSUME NEW d \in DoorThreads,
             \/ WatchFd(d) \/ SpawnPollThread(d) \/ StopSource(d) \/ UnwatchFd(d) \/ CloseFd(d)
             \/ FreeSource(d)
      PROVE  SocketInv'
  <2>1. /\ door'[d].src = door[d].src /\ list' = list
        /\ openFds' = IF door[d].at = "close" THEN openFds \ {obj[door[d].src].fd} ELSE openFds
        /\ \/ door[d].at \in {"lock_add", "spawn"} /\ door'[d].at = "insert" /\ obj' = obj
           \/ /\ door[d].at = "stop" /\ obj' = obj
              /\ \/ door'[d].at = "lock_rm" /\ obj[door[d].src].type = "flow"
                 \/ door'[d].at \in {"free", "unlink"} /\ obj[door[d].src].type = "poll"
           \/ door[d].at = "lock_rm" /\ door'[d].at = "close" /\ obj' = obj
           \/ door[d].at = "close" /\ door'[d].at = "free" /\ obj' = obj
           \/ /\ door[d].at = "free" /\ door'[d].at = "unlink"
              /\ obj' = [obj EXCEPT ![door[d].src].life = "freed"]
    BY <1>7, MovesIs
  <2>2. Linked' = Linked BY <2>1 DEF Linked
  <2>3. door[d].src \in Srcs BY <1>0, <2>1 DEF OnSource
  <2>4. CASE door[d].at \in {"lock_add", "spawn"} /\ door'[d].at = "insert" /\ obj' = obj
    <3>1. Holders' = Holders BY <1>0, <2>4 DEF Holders
    <3> QED
      BY <1>0, <2>1, <2>2, <2>4, <3>1
      DEF SocketInv, OpenInv, ListedInv, ClosedInv, WalkInv, HandInv
  <2>5. CASE /\ door[d].at \in {"stop", "lock_rm"} /\ obj' = obj
             /\ \/ door'[d].at \in {"lock_rm", "close"} /\ obj[door[d].src].type = "flow"
                \/ door'[d].at \in {"free", "unlink"} /\ obj[door[d].src].type = "poll"
    <3>1. Holders' = Holders BY <1>0, <2>1, <2>5 DEF Holders
    <3> QED BY <1>0, <2>1, <2>2, <2>5, <3>1 DEF SocketInv, OpenInv, ListedInv, ClosedInv
  <2>6. CASE door[d].at = "close" /\ door'[d].at = "free" /\ obj' = obj
    <3>1. Holders' = Holders \ {door[d].src} BY <1>0, <2>1, <2>6 DEF Holders
    <3>2. door[d].src \in Holders
      BY <1>0, <2>3, <2>6 DEF Holders, SocketInv, ClosedInv, WalkInv, HandInv
    <3>3. openFds' = {obj'[s].fd : s \in Holders'}
      BY <2>1, <2>6, <3>1, <3>2 DEF SocketInv, OpenInv
    <3>4. OpenInv' BY <2>6, <3>1, <3>3 DEF SocketInv, OpenInv
    <3>5. ListedInv' BY <1>0, <2>1, <2>2, <2>6 DEF SocketInv, ListedInv
    <3>6. ClosedInv' BY <1>0, <2>1, <2>6 DEF ClosedInv
    <3> QED BY <3>4, <3>5, <3>6 DEF SocketInv
  <2>7. CASE /\ door[d].at = "free" /\ door'[d].at = "unlink"
             /\ obj' = [obj EXCEPT ![door[d].src].life = "freed"]
    <3>1. /\ obj'[door[d].src].life = "freed"
          /\ \A s \in Srcs \ {door[d].src} : obj'[s] = obj[s]
      BY <1>0, <2>3, <2>7 DEF Objects
    <3>2. Holders' = Holders /\ door[d].src \notin Holders
      BY <1>0, <2>1, <2>7, <3>1 DEF Holders
    <3>3. \A s \in Holders : obj'[s] = obj[s] BY <3>1, <3>2 DEF Holders
    <3>4. openFds' = {obj'[s].fd : s \in Holders'} /\
          \A s, t \in Holders' : obj'[s].fd = obj'[t].fd => s = t
      BY <2>1, <2>7, <3>2, <3>3 DEF SocketInv, OpenInv
    <3>5. \A s \in Srcs : obj'[s].life = "live" /\ obj'[s].type = "flow" => s \in Linked'
      BY <1>0, <2>2, <2>7, <3>1 DEF SocketInv, ListedInv
    <3>6. OpenInv' BY <3>4 DEF OpenInv
    <3>7. ListedInv' BY <3>5 DEF ListedInv
    <3>8. ClosedInv' BY <1>0, <2>1, <2>7, <3>1 DEF ClosedInv
    <3> QED BY <3>6, <3>7, <3>8 DEF SocketInv
  <2>8. door[d].at = "lock_rm" => obj[door[d].src].type = "flow" BY DEF TypeInv, DoorInv
  <2> QED BY <2>1, <2>4, <2>5, <2>6, <2>7, <2>8
<1>8. MasterStep => openFds' = openFds BY MasterTypes
<1> QED BY <1>1, <1>2, <1>3, <1>4, <1>5, <1>6, <1>7, StepIs

\* The watched descriptors, and the source that a door call is about to free.
WatchInv ==
  /\ \A fd \in toWatch : IsFlowSourceOf(fdSources[fd], fd)
  /\ \A d \in DoorThreads :
       door[d].at \in {"close", "free"} /\ obj[door[d].src].type = "flow" =>
         obj[door[d].src].fd \notin toWatch

LEMMA WatchInvNext ==
  ASSUME OneDoor, TypeInv, MaxInv, WalkInv, SocketInv, WatchInv, [Next]_vars
  PROVE  WatchInv'
<1> USE DEF Adding, Removing, Walking
<1>0. /\ obj \in [Srcs -> Objects] /\ fdSources \in [FDs -> Srcs \cup {NULL}]
      /\ toWatch \subseteq FDs
      /\ \A d, e \in DoorThreads : e = d
      /\ \A d \in DoorThreads : door[d].at \in OnSource => door[d].src \in Srcs
      /\ \A s \in Srcs : s # NULL
  BY DEF TypeInv, TypeOK, OneDoor, DoorInv, Made
<1>1. ASSUME UNCHANGED <<obj, fdSources, door>>, toWatch' \subseteq toWatch PROVE WatchInv'
  BY <1>1 DEF WatchInv, IsFlowSourceOf
<1>2. ASSUME NEW d \in DoorThreads, UNCHANGED <<obj, fdSources, toWatch>>,
             door'[d].at \notin {"close", "free"}
      PROVE  WatchInv'
  BY <1>0, <1>2 DEF WatchInv, IsFlowSourceOf
<1>3. ASSUME NEW d \in DoorThreads, RequestAdd(d) \/ NextZone(d) PROVE WatchInv'
  <2>1. UNCHANGED <<toWatch, fdSources>> /\ door'[d].at \in {"idle", "make", "lock_add", "spawn"}
    BY <1>3, MakeIs
  <2>2. obj' = obj \/ \E n \in Srcs : obj[n].life = "none" /\ \A t \in Srcs \ {n} : obj'[t] = obj[t]
    BY <1>3, MakeIs
  <2>3. \A fd \in toWatch : fdSources[fd] \in Srcs /\ obj[fdSources[fd]].life = "live"
    BY DEF WatchInv, IsFlowSourceOf, TypeInv, TypeOK
  <2>4. \A fd \in toWatch : obj'[fdSources[fd]] = obj[fdSources[fd]] BY <2>2, <2>3
  <2> QED BY <1>0, <2>1, <2>4 DEF WatchInv, IsFlowSourceOf
<1>4. ASSUME NEW d \in DoorThreads, WatchFd(d) PROVE WatchInv'
  <2>1. PICK fd \in FDs : fd = obj[door[d].src].fd
    BY <1>4 DEF TypeInv, DoorInv, ObjectInv, Made, OnSource, WatchFd
  <2>2. /\ door[d].at = "lock_add" /\ obj' = obj
        /\ toWatch' = toWatch \cup {fd} /\ fdSources' = [fdSources EXCEPT ![fd] = door[d].src]
    BY <1>4, <2>1 DEF WatchFd
  <2>3. door'[d].at = "insert" BY <1>4, <2>2, MovesIs
  <2>4. IsFlowSourceOf(door[d].src, fd)
    BY <1>0, <2>1, <2>2 DEF IsFlowSourceOf, WalkInv, HandInv, TypeInv, DoorInv, OnSource
  <2> QED BY <1>0, <2>1, <2>2, <2>3, <2>4 DEF WatchInv, IsFlowSourceOf
<1>5. ASSUME NEW d \in DoorThreads, UnwatchFd(d) PROVE WatchInv'
  <2>1. PICK fd \in FDs : fd = obj[door[d].src].fd
    BY <1>5 DEF TypeInv, DoorInv, ObjectInv, Made, OnSource, UnwatchFd
  <2>2. /\ door[d].at = "lock_rm" /\ obj' = obj
        /\ toWatch' = toWatch \ {fd} /\ fdSources' = [fdSources EXCEPT ![fd] = NULL]
    BY <1>5, <2>1 DEF UnwatchFd
  <2>3. door'[d].src = door[d].src BY <1>5, MovesIs
  <2> QED BY <1>0, <2>1, <2>2, <2>3 DEF WatchInv, IsFlowSourceOf
<1>6. ASSUME NEW d \in DoorThreads, ~WatchFd(d), ~UnwatchFd(d),
             SpawnPollThread(d) \/ StopSource(d) \/ CloseFd(d) \/ FreeSource(d)
      PROVE  WatchInv'
  <2>1. /\ door'[d].src = door[d].src /\ UNCHANGED <<toWatch, fdSources>>
        /\ \/ door[d].at \in {"lock_add", "spawn"} /\ door'[d].at = "insert" /\ obj' = obj
           \/ /\ door[d].at = "stop" /\ obj' = obj
              /\ \/ door'[d].at = "lock_rm" /\ obj[door[d].src].type = "flow"
                 \/ door'[d].at \in {"free", "unlink"} /\ obj[door[d].src].type = "poll"
           \/ door[d].at = "lock_rm" /\ door'[d].at = "close" /\ obj' = obj
           \/ door[d].at = "close" /\ door'[d].at = "free" /\ obj' = obj
           \/ /\ door[d].at = "free" /\ door'[d].at = "unlink"
              /\ obj' = [obj EXCEPT ![door[d].src].life = "freed"]
    BY <1>6, MovesIs
  <2>2. door[d].src \in Srcs BY <1>0, <2>1 DEF OnSource
  <2>3. door[d].at # "lock_rm"
    BY <1>6 DEF SpawnPollThread, StopSource, CloseFd, FreeSource
  <2>4. CASE obj' = obj
    BY <1>0, <2>1, <2>3, <2>4 DEF WatchInv, IsFlowSourceOf
  <2>5. CASE /\ door[d].at = "free" /\ door'[d].at = "unlink"
             /\ obj' = [obj EXCEPT ![door[d].src].life = "freed"]
    <3>1. \A s \in Srcs \ {door[d].src} : obj'[s] = obj[s] BY <1>0, <2>5
    <3>2. \A fd \in toWatch : fdSources[fd] \in Srcs \ {door[d].src}
      BY <1>0, <2>5 DEF WatchInv, IsFlowSourceOf
    <3> QED BY <1>0, <2>1, <2>5, <3>1, <3>2 DEF WatchInv, IsFlowSourceOf
  <2> QED BY <2>1, <2>3, <2>4, <2>5
<1>7. ASSUME NEW d \in DoorThreads,
             \/ InsertSource(d) \/ UnlinkNode(d) \/ RequestRemoval(d) \/ RequestShow(d)
             \/ RemovalStep(d) \/ ShowStep(d)
      PROVE  WatchInv'
  <2>1. UNCHANGED <<obj, fdSources, toWatch>>
    BY <1>7, InsertIs, UnlinkIs, RequestIs, WalkIs
  <2>2. door' = door \/ door'[d].at \notin {"close", "free"}
    BY <1>7, InsertIs, UnlinkIs, RequestIs, WalkIs
  <2> QED BY <1>1, <1>2, <2>1, <2>2
<1>8. ASSUME MasterStep PROVE toWatch' \subseteq toWatch
  BY <1>8 DEF MasterStep, MasterStart, MasterLoop, MasterLock, SelectFails, SelectTimesOut,
         SelectReady, ReadFd, ScanDone, MasterWakes, regVars
<1> QED BY <1>1, <1>3, <1>4, <1>5, <1>6, <1>7, <1>8, StepIs

\* The master owns the mutex from before select until its scan is over.
ScanInv ==
  /\ master.at \in {"select", "scan"} <=> inter = Master
  /\ master.at = "scan" => master.toRead \subseteq toWatch

LEMMA ScanInvNext ==
  ASSUME TypeInv, MaxInv, ScanInv, [Next]_vars
  PROVE  ScanInv'
<1>0. master \in Masters /\ Master # NULL BY DEF TypeInv, TypeOK
<1>1. CASE MasterStep
  <2> USE <1>0 DEF MasterAt, MasterGoto, ScanInv, Masters
  <2>1. CASE MasterStart BY <2>1 DEF MasterStart
  <2>2. CASE MasterLoop BY <2>2 DEF MasterLoop, regVars
  <2>3. CASE MasterLock BY <2>3 DEF MasterLock
  <2>4. CASE SelectFails BY <2>4 DEF SelectFails
  <2>5. CASE SelectTimesOut BY <2>5 DEF SelectTimesOut
  <2>6. CASE SelectReady BY <2>6 DEF SelectReady, regVars, Watched
  <2>7. CASE ReadFd BY <2>7 DEF ReadFd, regVars
  <2>8. CASE ScanDone BY <2>8 DEF ScanDone
  <2>9. CASE MasterWakes BY <2>9 DEF MasterWakes, regVars
  <2> QED BY <1>1, <2>1, <2>2, <2>3, <2>4, <2>5, <2>6, <2>7, <2>8, <2>9 DEF MasterStep
<1>2. CASE UNCHANGED <<toWatch, inter, master>>
  BY <1>2 DEF ScanInv
<1>3. ASSUME NEW d \in DoorThreads, WatchFd(d) \/ UnwatchFd(d) PROVE ScanInv'
  <2>1. inter = NULL /\ UNCHANGED <<inter, master>> BY <1>3 DEF WatchFd, UnwatchFd
  <2> QED BY <1>0, <2>1 DEF ScanInv
<1>4. ASSUME NEW d \in DoorThreads, ~WatchFd(d), ~UnwatchFd(d),
             SpawnPollThread(d) \/ StopSource(d) \/ CloseFd(d) \/ FreeSource(d)
      PROVE  UNCHANGED <<toWatch, inter, master>>
  BY <1>4, MovesIs
<1>5. ASSUME NEW d \in DoorThreads,
             \/ InsertSource(d) \/ UnlinkNode(d) \/ RequestRemoval(d) \/ RequestShow(d)
             \/ RequestAdd(d) \/ NextZone(d) \/ RemovalStep(d) \/ ShowStep(d)
      PROVE  UNCHANGED <<toWatch, inter, master>>
  BY <1>5, InsertIs, UnlinkIs, RequestIs, WalkIs, MakeIs
<1> QED BY <1>1, <1>2, <1>3, <1>4, <1>5, StepIs

(***************************************************************************)
(* The registry's invariant, and what follows from it.                     *)
(***************************************************************************)

RegistryInv == TypeInv /\ MaxInv /\ WalkInv /\ SocketInv /\ WatchInv /\ ScanInv

LEMMA RegistryInit == Init => RegistryInv
<1> SUFFICES ASSUME Init PROVE RegistryInv OBVIOUS
<1>1. MaxInv BY DEF Init, MaxInv
<1>2. Linked = {} /\ \A s \in Srcs : obj[s].life = "none"
  BY DEF Init, Linked, Unborn
<1>3. WalkInv
  BY DEF Init, WalkInv, Distinct, LinkedInv, HandInv, Linked, Adding, Removing, Walking
<1>4. Holders = {} BY <1>2 DEF Holders
<1>5. SocketInv BY <1>2, <1>4 DEF Init, SocketInv, OpenInv, ListedInv, ClosedInv
<1>6. WatchInv /\ ScanInv BY DEF Init, WatchInv, ScanInv
<1> QED BY <1>1, <1>3, <1>5, <1>6, TypeInit DEF RegistryInv

LEMMA RegistryNext ==
  ASSUME OneDoor
  PROVE  RegistryInv /\ [Next]_vars => RegistryInv'
BY TypeNext, WalkInvNext, SocketInvNext, WatchInvNext, ScanInvNext DEF RegistryInv

\* A watched descriptor is open and leads to the live flow source that owns it.
THEOREM WatchedFdsHaveSourcesHolds ==
  ASSUME OneDoor
  PROVE  Spec => []WatchedFdsHaveSources
<1>1. RegistryInv => WatchedFdsHaveSources
  <2> SUFFICES ASSUME RegistryInv, NEW fd \in toWatch
               PROVE  fd \in openFds /\ fd <= maxfd /\ IsFlowSourceOf(fdSources[fd], fd)
    BY DEF WatchedFdsHaveSources
  <2>1. /\ fd \in FDs /\ IsFlowSourceOf(fdSources[fd], fd)
        /\ fdSources[fd] \in Srcs
    BY DEF RegistryInv, WatchInv, IsFlowSourceOf, TypeInv, TypeOK
  <2>2. fd <= maxfd BY <2>1 DEF RegistryInv, MaxInv, IsFlowSourceOf
  <2>3. fdSources[fd] \in Holders
    BY <2>1 DEF RegistryInv, WatchInv, Holders, IsFlowSourceOf
  <2>4. fd \in openFds BY <2>1, <2>3 DEF RegistryInv, SocketInv, OpenInv, IsFlowSourceOf
  <2> QED BY <2>1, <2>2, <2>4
<1> QED BY <1>1, RegistryInit, RegistryNext, PTL DEF Spec

\* The master samples for live flow sources only, through the whole of its scan.
THEOREM MasterReadsLiveSourcesHolds ==
  ASSUME OneDoor
  PROVE  Spec => []MasterReadsLiveSources
<1>1. RegistryInv => MasterReadsLiveSources
  <2> SUFFICES ASSUME RegistryInv, master.at = "scan", NEW fd \in master.toRead
               PROVE  fd <= maxfd /\ IsFlowSourceOf(fdSources[fd], fd)
    BY DEF MasterReadsLiveSources
  <2>1. fd \in toWatch BY DEF RegistryInv, ScanInv
  <2>2. /\ fd \in FDs /\ IsFlowSourceOf(fdSources[fd], fd)
    BY <2>1 DEF RegistryInv, WatchInv, TypeInv, TypeOK
  <2> QED BY <2>2 DEF RegistryInv, MaxInv, IsFlowSourceOf
<1> QED BY <1>1, RegistryInit, RegistryNext, PTL DEF Spec

\* Between calls, the open sockets are those of the listed flow sources.
THEOREM SocketsMatchListHolds ==
  ASSUME OneDoor
  PROVE  Spec => []SocketsMatchList
<1>1. RegistryInv => SocketsMatchList
  <2> SUFFICES ASSUME RegistryInv, \A d \in DoorThreads : door[d].at = "idle"
               PROVE  openFds = {obj[s].fd : s \in {t \in Linked : obj[t].type = "flow"}}
    BY DEF SocketsMatchList
  <2>1. Linked \subseteq Srcs BY LinkedAreSrcs DEF RegistryInv, TypeInv, TypeOK
  <2>2. \A s \in Linked : obj[s].life = "live" BY DEF RegistryInv, WalkInv, LinkedInv
  <2>3. \A s \in Srcs : obj[s].life = "live" /\ obj[s].type = "flow" => s \in Linked
    BY DEF RegistryInv, SocketInv, ListedInv
  <2>4. Holders = {t \in Linked : obj[t].type = "flow"} BY <2>1, <2>2, <2>3 DEF Holders
  <2> QED BY <2>4 DEF RegistryInv, SocketInv, OpenInv
<1> QED BY <1>1, RegistryInit, RegistryNext, PTL DEF Spec

(***************************************************************************)
(* The polling threads of freed sources, for any number of door threads.   *)
(***************************************************************************)

\* A source that is being added is at one door thread's hand, and in no list.
AddInv ==
  \A d \in DoorThreads :
    door[d].at \in Adding =>
      /\ door[d].src \notin Linked /\ obj[door[d].src].life = "live"
      /\ \A e \in DoorThreads \ {d} :
           door[e].at \in OnSource => door[e].src # door[d].src

\* A source with a thread is a polling one, and cancelled before it is freed.
PollsOnly == \A s \in Srcs : poll[s].at # "none" => obj[s].type = "poll"
FreedCancelled ==
  \A s \in Srcs : obj[s].life = "freed" /\ obj[s].type = "poll" => poll[s].cancel
HandOf(d) ==
  /\ door[d].at = "spawn" => obj[door[d].src].type = "poll"
  /\ door[d].at \in {"lock_rm", "close"} => obj[door[d].src].type = "flow"
  /\ door[d].at = "free" /\ obj[door[d].src].type = "poll" => poll[door[d].src].cancel
HandCancelled == \A d \in DoorThreads : HandOf(d)
CancelInv == PollsOnly /\ FreedCancelled /\ HandCancelled

\* A step of one door thread that neither shows it a new source nor touches objects.
LEMMA AddKept ==
  ASSUME TypeInv, AddInv, NEW d \in DoorThreads,
         \A e \in DoorThreads \ {d} : door'[e] = door[e],
         Linked' \subseteq Linked, \A s \in Srcs : obj[s].life = "live" => obj'[s].life = "live",
         \/ door'[d].at \notin OnSource
         \/ door'[d].at \in OnSource /\ door[d].at \in OnSource /\ door'[d].src = door[d].src
            /\ (door'[d].at \in Adding => door[d].at \in Adding)
         \/ door'[d].at \in OnSource \ Adding /\ door'[d].src \in Linked
  PROVE  AddInv'
<1> SUFFICES ASSUME NEW e \in DoorThreads, door'[e].at \in Adding
             PROVE  /\ door'[e].src \notin Linked' /\ obj'[door'[e].src].life = "live"
                    /\ \A c \in DoorThreads \ {e} :
                         door'[c].at \in OnSource => door'[c].src # door'[e].src
  BY DEF AddInv
<1>1. door[e].at \in Adding /\ door'[e].src = door[e].src BY DEF Adding, OnSource
<1>2. /\ door[e].src \in Srcs /\ door[e].src \notin Linked /\ obj[door[e].src].life = "live"
      /\ \A c \in DoorThreads \ {e} : door[c].at \in OnSource => door[c].src # door[e].src
  BY <1>1 DEF AddInv, TypeInv, DoorInv, Made, OnSource, Adding
<1> QED BY <1>1, <1>2

LEMMA DoorsRest ==
  ASSUME TypeInv, NEW d \in DoorThreads, DoorStep(d)
  PROVE  \A e \in DoorThreads \ {d} : door'[e] = door[e]
<1>1. door \in [DoorThreads -> Doors] BY DEF TypeInv, TypeOK
<1>0. ASSUME NEW r, door' = [door EXCEPT ![d] = r]
      PROVE  \A e \in DoorThreads \ {d} : door'[e] = door[e]
  BY <1>0, <1>1
<1>2. CASE RequestAdd(d) \/ NextZone(d)
  <2>1. ASSUME NEW type, NEW zones, MakeSource(d, type, zones)
        PROVE  \E r : door' = [door EXCEPT ![d] = r]
    <3> DEFINE r == [door[d] EXCEPT !.at = IF type = "flow" THEN "lock_add" ELSE "spawn",
                                    !.src = Fresh, !.zones = zones]
    <3>1. door' = [door EXCEPT ![d] = r] BY <2>1 DEF MakeSource
    <3> QED BY <3>1
  <2>2. CASE RequestAdd(d) BY <1>0, <2>1, <2>2 DEF RequestAdd
  <2>3. CASE NextZone(d) BY <1>0, <2>1, <2>3 DEF NextZone
  <2> QED BY <1>2, <2>2, <2>3
<1>3. CASE RequestRemoval(d) \/ RequestShow(d)
  <2>1. CASE RequestRemoval(d)
    <3>1. door' = door \/ \E used \in Requests :
            door' = [door EXCEPT ![d] = [door[d] EXCEPT !.at = "walk_rm", !.used = used]]
      BY <2>1 DEF RequestRemoval
    <3> QED BY <1>0, <3>1
  <2>2. CASE RequestShow(d) BY <1>0, <2>2 DEF RequestShow
  <2> QED BY <1>3, <2>1, <2>2
<1>4. CASE RemovalStep(d) \/ ShowStep(d)
  <2>1. CASE RemovalStep(d) BY <1>0, <2>1 DEF RemovalStep
  <2>2. CASE ShowStep(d) BY <1>0, <2>2 DEF ShowStep
  <2> QED BY <1>4, <2>1, <2>2
<1>5. CASE InsertSource(d) \/ UnlinkNode(d) \/ WatchFd(d) \/ SpawnPollThread(d)
  BY <1>1, <1>5 DEF InsertSource, UnlinkNode, WatchFd, SpawnPollThread
<1>6. CASE StopSource(d) \/ UnwatchFd(d) \/ CloseFd(d) \/ FreeSource(d)
  BY <1>1, <1>6 DEF StopSource, UnwatchFd, CloseFd, FreeSource
<1> QED BY <1>2, <1>3, <1>4, <1>5, <1>6 DEF DoorStep, DoorContinue

LEMMA AddInvNext ==
  ASSUME TypeInv, MaxInv, AddInv, [Next]_vars
  PROVE  AddInv'
<1>0. /\ list \in Seq(Srcs) /\ Linked \subseteq Srcs
      /\ obj \in [Srcs -> Objects] /\ door \in [DoorThreads -> Doors]
  BY LinkedAreSrcs DEF TypeInv, TypeOK
<1>1. CASE UNCHANGED <<obj, list, door>>
  <2>1. Linked' = Linked BY <1>1 DEF Linked
  <2> QED BY <1>1, <2>1 DEF AddInv
<1>2. ASSUME NEW d \in DoorThreads, InsertSource(d) PROVE AddInv'
  <2>1. /\ door[d].at = "insert" /\ door'[d].at \in {"idle", "make"}
        /\ list' = Append(list, door[d].src) /\ obj' = obj
    BY <1>2, InsertIs
  <2>2. door[d].src \in Srcs BY <2>1 DEF TypeInv, DoorInv, Made, OnSource
  <2>3. Linked' = Linked \cup {door[d].src}
    <3>1. list \in Seq(Srcs) BY <1>0
    <3> QED BY <2>1, <2>2, <3>1 DEF Linked
  <2>4. \A e \in DoorThreads \ {d} : door'[e] = door[e]
    BY <1>2, DoorsRest DEF DoorStep, DoorContinue
  <2> QED BY <2>1, <2>3, <2>4 DEF AddInv, Adding, OnSource
<1>3. ASSUME NEW d \in DoorThreads, UnlinkNode(d) PROVE AddInv'
  <2>1. /\ door[d].at = "unlink" /\ door'[d].at = "walk_rm"
        /\ list' = ListRemove(door[d].src) /\ obj' = obj
    BY <1>3, UnlinkIs
  <2>2. door[d].src \in Srcs BY <2>1 DEF TypeInv, DoorInv, Made, OnSource
  <2>3. Linked' \subseteq Linked BY <1>0, <2>1, <2>2, ListRemoveType
  <2>4. \A e \in DoorThreads \ {d} : door'[e] = door[e]
    BY <1>3, DoorsRest DEF DoorStep, DoorContinue
  <2> QED BY <2>1, <2>3, <2>4, AddKept DEF OnSource
<1>4. ASSUME NEW d \in DoorThreads, RequestRemoval(d) \/ RequestShow(d) PROVE AddInv'
  <2>1. /\ UNCHANGED <<obj, list>>
        /\ door' = door \/ door'[d].at \in Walking
    BY <1>4, RequestIs
  <2>2. Linked' = Linked BY <2>1 DEF Linked
  <2>3. \A e \in DoorThreads \ {d} : door'[e] = door[e]
    BY <1>4, DoorsRest DEF DoorStep
  <2> QED BY <1>1, <2>1, <2>2, <2>3, AddKept DEF OnSource, Walking
<1>5. ASSUME NEW d \in DoorThreads, RequestAdd(d) \/ NextZone(d) PROVE AddInv'
  <2>1. /\ list' = list
        /\ \/ door'[d].at \in {"idle", "make"} /\ obj' = obj
           \/ \E n \in Srcs :
                /\ obj[n].life = "none" /\ door'[d].src = n /\ obj'[n].life = "live"
                /\ \A t \in Srcs \ {n} : obj'[t] = obj[t]
                /\ door'[d].at \in {"lock_add", "spawn"}
    BY <1>5, MakeIs
  <2>2. Linked' = Linked BY <2>1 DEF Linked
  <2>3. \A e \in DoorThreads \ {d} : door'[e] = door[e]
    BY <1>5, DoorsRest DEF DoorStep, DoorContinue
  <2>4. CASE door'[d].at \in {"idle", "make"} /\ obj' = obj
    BY <2>2, <2>3, <2>4, AddKept DEF OnSource
  <2>5. ASSUME NEW n \in Srcs, obj[n].life = "none", door'[d].src = n, obj'[n].life = "live",
               \A t \in Srcs \ {n} : obj'[t] = obj[t], door'[d].at \in {"lock_add", "spawn"}
        PROVE  AddInv'
    <3>1. n \notin Linked BY <2>5 DEF TypeInv, ListInv, Made
    <3>2. \A e \in DoorThreads :
            door[e].at \in OnSource => door[e].src \in Srcs /\ door[e].src # n
      BY <2>5 DEF TypeInv, DoorInv, Made
    <3>3. \A e \in DoorThreads \ {d} :
            door'[e].at \in Adding =>
              /\ door'[e].src \notin Linked' /\ obj'[door'[e].src].life = "live"
              /\ \A c \in DoorThreads \ {e} :
                   door'[c].at \in OnSource => door'[c].src # door'[e].src
      <4> SUFFICES ASSUME NEW e \in DoorThreads \ {d}, door'[e].at \in Adding
                   PROVE  /\ door'[e].src \notin Linked' /\ obj'[door'[e].src].life = "live"
                          /\ \A c \in DoorThreads \ {e} :
                               door'[c].at \in OnSource => door'[c].src # door'[e].src
        OBVIOUS
      <4>1. door'[e] = door[e] /\ door[e].at \in OnSource /\ door[e].at \in Adding
        BY <2>3 DEF Adding, OnSource
      <4>2. door[e].src \in Srcs \ {n} BY <3>2, <4>1
      <4>3. door[e].src \notin Linked /\ obj[door[e].src].life = "live" BY <4>1 DEF AddInv
      <4>5. obj'[door[e].src] = obj[door[e].src] BY <2>5, <4>2
      <4>6. door'[e].src \notin Linked' /\ obj'[door'[e].src].life = "live"
        BY <2>2, <4>1, <4>3, <4>5
      <4>4. ASSUME NEW c \in DoorThreads \ {e}, door'[c].at \in OnSource
            PROVE  door'[c].src # door'[e].src
        <5>1. CASE c = d BY <2>5, <4>1, <4>2, <5>1
        <5>2. CASE c # d BY <2>3, <4>1, <4>4, <5>2 DEF AddInv
        <5> QED BY <5>1, <5>2
      <4> QED BY <4>4, <4>6
    <3>4. \A c \in DoorThreads \ {d} : door'[c].at \in OnSource => door'[c].src # n
      BY <2>3, <3>2
    <3> QED BY <2>2, <2>5, <3>1, <3>3, <3>4 DEF AddInv
  <2> QED BY <2>1, <2>4, <2>5
<1>6. ASSUME NEW d \in DoorThreads, RemovalStep(d) \/ ShowStep(d) PROVE AddInv'
  <2>1. door[d].at \in Walking /\ UNCHANGED <<obj, list>> BY <1>6, WalkIs
  <2>2. PICK s \in NextNodes(door[d].pre) :
          \/ door'[d].at = "idle"
          \/ s # NULL /\ door'[d].at = "stop" /\ door'[d].src = s
          \/ door'[d].at = door[d].at
    BY <1>6, WalkIs
  <2>3. door[d].pre \in Srcs \cup {NULL} BY <1>0 DEF Doors
  <2>4. s # NULL => s \in Linked BY <1>0, <2>3, NextIsLinked
  <2>5. Linked' = Linked BY <2>1 DEF Linked
  <2>6. \A e \in DoorThreads \ {d} : door'[e] = door[e]
    BY <1>6, DoorsRest DEF DoorStep, DoorContinue
  <2> QED BY <2>1, <2>2, <2>4, <2>5, <2>6, AddKept DEF OnSource, Walking, Adding
<1>7. ASSUME NEW d \in DoorThreads,
             \/ WatchFd(d) \/ SpawnPollThread(d) \/ StopSource(d) \/ UnwatchFd(d) \/ CloseFd(d)
             \/ FreeSource(d)
      PROVE  AddInv'
  <2>1. /\ door'[d].src = door[d].src /\ list' = list
        /\ \/ door[d].at \in {"lock_add", "spawn"} /\ door'[d].at = "insert" /\ obj' = obj
           \/ /\ door[d].at \in {"stop", "lock_rm", "close"} /\ obj' = obj
              /\ door'[d].at \in {"lock_rm", "close", "free", "unlink"}
           \/ /\ door[d].at = "free" /\ door'[d].at = "unlink"
              /\ obj' = [obj EXCEPT ![door[d].src].life = "freed"]
    BY <1>7, MovesIs
  <2>2. Linked' = Linked BY <2>1 DEF Linked
  <2>3. \A e \in DoorThreads \ {d} : door'[e] = door[e]
    BY <1>7, DoorsRest DEF DoorStep, DoorContinue
  <2>4. CASE obj' = obj BY <2>1, <2>2, <2>3, <2>4, AddKept DEF OnSource, Adding
  <2>5. CASE /\ door[d].at = "free" /\ door'[d].at = "unlink"
             /\ obj' = [obj EXCEPT ![door[d].src].life = "freed"]
    <3>1. \A t \in Srcs \ {door[d].src} : obj'[t] = obj[t] BY <1>0, <2>5
    <3>2. \A e \in DoorThreads \ {d} :
            door[e].at \in Adding => door[e].src \in Srcs \ {door[d].src}
      BY <2>5 DEF AddInv, TypeInv, DoorInv, Made, OnSource, Adding
    <3> QED BY <2>1, <2>2, <2>3, <2>5, <3>1, <3>2 DEF AddInv, Adding, OnSource
  <2> QED BY <2>1, <2>4, <2>5
<1> QED BY <1>1, <1>2, <1>3, <1>4, <1>5, <1>6, <1>7, StepIs

\* No thread takes a cancellation back.
LEMMA CancelKept ==
  ASSUME TypeInv, NEW s \in Srcs, PollStep(s)
  PROVE  \A t \in Srcs : poll'[t].cancel = poll[t].cancel
<1>1. poll \in [Srcs -> Polls] /\ poll[s] \in Polls BY DEF TypeInv, TypeOK
<1>2. PICK r \in Polls : poll' = [poll EXCEPT ![s] = r] /\ r.cancel = poll[s].cancel
  <2>1. CASE PollStart(s)
    <3> DEFINE q == [poll[s] EXCEPT !.at = "enable", !.enabled = FALSE]
    <3>1. q \in Polls /\ q.cancel = poll[s].cancel BY <1>1 DEF Polls, PollSteps
    <3> QED BY <2>1, <3>1 DEF PollStart, PollGoto
  <2>2. CASE PollEnable(s)
    <3> DEFINE q == [poll[s] EXCEPT !.at = "sleep", !.enabled = TRUE]
    <3>1. q \in Polls /\ q.cancel = poll[s].cancel BY <1>1 DEF Polls, PollSteps
    <3> QED BY <2>2, <3>1 DEF PollEnable, PollGoto
  <2>3. ASSUME NEW at \in PollSteps, poll' = [poll EXCEPT ![s] = [poll[s] EXCEPT !.at = at]]
        PROVE  \E r \in Polls : poll' = [poll EXCEPT ![s] = r] /\ r.cancel = poll[s].cancel
    <3> DEFINE q == [poll[s] EXCEPT !.at = at]
    <3>1. q \in Polls /\ q.cancel = poll[s].cancel BY <1>1 DEF Polls
    <3> QED BY <2>3, <3>1
  <2>4. CASE PollDisable(s)
    <3> DEFINE q == [poll[s] EXCEPT !.at = "sample", !.enabled = FALSE]
    <3>1. q \in Polls /\ q.cancel = poll[s].cancel BY <1>1 DEF Polls, PollSteps
    <3> QED BY <2>4, <3>1 DEF PollDisable, PollGoto
  <2> QED BY <2>1, <2>2, <2>3, <2>4
       DEF PollStep, PollWakes, PollSample, PollCancelled, PollGoto, PollSteps
<1> QED BY <1>1, <1>2 DEF Polls

\* The steps at which a door thread touches a polling thread.
LEMMA DoorPolls ==
  ASSUME TypeInv, NEW d \in DoorThreads, DoorStep(d)
  PROVE  \/ poll' = poll /\ ~(StopSource(d) /\ door'[d].at = "free")
         \/ /\ SpawnPollThread(d) /\ obj' = obj /\ door'[d].at = "insert"
            /\ \A t \in Srcs \ {door[d].src} : poll'[t] = poll[t]
         \/ /\ StopSource(d) /\ obj' = obj /\ door'[d].src = door[d].src
            /\ poll'[door[d].src].cancel /\ poll'[door[d].src].at = poll[door[d].src].at
            /\ \A t \in Srcs \ {door[d].src} : poll'[t] = poll[t]
<1>1. poll \in [Srcs -> Polls] /\ door \in [DoorThreads -> Doors] BY DEF TypeInv, TypeOK
<1>2. CASE SpawnPollThread(d)
  <2>1. /\ obj' = obj /\ door'[d].at = "insert"
        /\ \A t \in Srcs \ {door[d].src} : poll'[t] = poll[t]
    BY <1>1, <1>2 DEF SpawnPollThread, Doors
  <2> QED BY <1>2, <2>1
<1>3. CASE StopSource(d)
  <2>1. door[d].src \in Srcs BY <1>3 DEF TypeInv, DoorInv, OnSource, Made, StopSource
  <2>2. poll[door[d].src] \in Polls BY <1>1, <2>1
  <2>3. obj' = obj /\ door'[d].src = door[d].src BY <1>1, <1>3 DEF StopSource, Doors
  <2>4. CASE poll' = [poll EXCEPT ![door[d].src].cancel = TRUE]
    <3>1. /\ poll'[door[d].src].cancel /\ poll'[door[d].src].at = poll[door[d].src].at
          /\ \A t \in Srcs \ {door[d].src} : poll'[t] = poll[t]
      BY <1>1, <2>1, <2>2, <2>4 DEF Polls
    <3> QED BY <1>3, <2>3, <3>1
  <2>5. CASE poll' = poll /\ door'[d].at # "free" BY <2>5
  <2> QED BY <1>1, <1>3, <2>4, <2>5 DEF StopSource, Doors
<1>4. CASE ~SpawnPollThread(d) /\ ~StopSource(d)
  <2>1. CASE RequestAdd(d) \/ NextZone(d) BY <1>4, <2>1, MakeIs
  <2>2. CASE RequestRemoval(d) \/ RequestShow(d) BY <1>4, <2>2, RequestIs
  <2>3. CASE RemovalStep(d) \/ ShowStep(d) BY <1>4, <2>3, WalkIs
  <2>4. CASE InsertSource(d) \/ UnlinkNode(d) \/ WatchFd(d) \/ UnwatchFd(d) \/ CloseFd(d)
             \/ FreeSource(d)
    BY <1>4, <2>4 DEF InsertSource, UnlinkNode, WatchFd, UnwatchFd, CloseFd, FreeSource
  <2> QED BY <1>4, <2>1, <2>2, <2>3, <2>4 DEF DoorStep, DoorContinue
<1> QED BY <1>2, <1>3, <1>4

\* What a door step does to the sources: it makes one, frees the one at hand, or none.
LEMMA DoorObjects ==
  ASSUME TypeInv, MaxInv, NEW d \in DoorThreads, DoorStep(d)
  PROVE  \/ obj' = obj
         \/ \E n \in Srcs :
              /\ obj[n].life = "none" /\ obj'[n].life = "live" /\ poll' = poll
              /\ \A t \in Srcs \ {n} : obj'[t] = obj[t]
              /\ door'[d].src = n
              /\ \/ door'[d].at = "lock_add"
                 \/ door'[d].at = "spawn" /\ obj'[n].type = "poll"
         \/ /\ door[d].at = "free" /\ door'[d].at = "unlink" /\ poll' = poll
            /\ obj' = [obj EXCEPT ![door[d].src].life = "freed"]
<1>1. CASE InsertSource(d) BY <1>1, InsertIs
<1>2. CASE UnlinkNode(d) BY <1>2, UnlinkIs
<1>3. CASE RequestRemoval(d) \/ RequestShow(d) BY <1>3, RequestIs
<1>4. CASE RequestAdd(d) \/ NextZone(d) BY <1>4, MakeIs
<1>5. CASE RemovalStep(d) \/ ShowStep(d) BY <1>5, WalkIs
<1>6. CASE WatchFd(d) \/ SpawnPollThread(d) \/ StopSource(d) \/ UnwatchFd(d) \/ CloseFd(d)
  BY <1>6 DEF WatchFd, SpawnPollThread, StopSource, UnwatchFd, CloseFd
<1>7. CASE FreeSource(d)
  <2>1. door \in [DoorThreads -> Doors] BY DEF TypeInv, TypeOK
  <2> QED BY <1>7, <2>1 DEF FreeSource, Doors
<1> QED BY <1>1, <1>2, <1>3, <1>4, <1>5, <1>6, <1>7 DEF DoorStep, DoorContinue

\* A removal reaches its critical section with a flow source in hand, and the free with
\* a flow source or a cancelled polling one.
LEMMA RemovalMoves ==
  ASSUME TypeInv, MaxInv, NEW d \in DoorThreads, DoorStep(d)
  PROVE  /\ door'[d].at = "lock_rm" =>
              /\ obj' = obj /\ door'[d].src = door[d].src /\ obj[door[d].src].type = "flow"
         /\ door'[d].at = "close" =>
              obj' = obj /\ door'[d].src = door[d].src /\ door[d].at = "lock_rm"
         /\ door'[d].at = "free" =>
              /\ obj' = obj /\ door'[d].src = door[d].src
              /\ \/ door[d].at = "close"
                 \/ door[d].at = "stop" /\ obj[door[d].src].type = "poll"
<1>1. CASE InsertSource(d) BY <1>1, InsertIs
<1>2. CASE UnlinkNode(d) BY <1>2, UnlinkIs
<1>3. CASE RequestRemoval(d) \/ RequestShow(d)
  <2>1. door[d].at = "idle" /\ (door' = door \/ door'[d].at \in Walking) BY <1>3, RequestIs
  <2> QED BY <2>1 DEF Walking
<1>4. CASE RequestAdd(d) \/ NextZone(d) BY <1>4, MakeIs
<1>5. CASE RemovalStep(d) \/ ShowStep(d) BY <1>5, WalkIs DEF Walking
<1>6. CASE \/ WatchFd(d) \/ SpawnPollThread(d) \/ StopSource(d) \/ UnwatchFd(d) \/ CloseFd(d)
           \/ FreeSource(d)
  BY <1>6, MovesIs
<1> QED BY <1>1, <1>2, <1>3, <1>4, <1>5, <1>6 DEF DoorStep, DoorContinue

\* A door thread comes to create a thread for a polling source it has just made.
LEMMA SpawnMoves ==
  ASSUME TypeInv, MaxInv, NEW d \in DoorThreads, DoorStep(d)
  PROVE  door'[d].at = "spawn" => obj'[door'[d].src].type = "poll"
<1>1. CASE InsertSource(d) BY <1>1, InsertIs
<1>2. CASE UnlinkNode(d) BY <1>2, UnlinkIs
<1>3. CASE RequestRemoval(d) \/ RequestShow(d)
  <2>1. door[d].at = "idle" /\ (door' = door \/ door'[d].at \in Walking) BY <1>3, RequestIs
  <2> QED BY <2>1 DEF Walking
<1>4. CASE RequestAdd(d) \/ NextZone(d) BY <1>4, MakeIs
<1>5. CASE RemovalStep(d) \/ ShowStep(d) BY <1>5, WalkIs DEF Walking
<1>6. CASE \/ WatchFd(d) \/ SpawnPollThread(d) \/ StopSource(d) \/ UnwatchFd(d) \/ CloseFd(d)
           \/ FreeSource(d)
  BY <1>6, MovesIs
<1> QED BY <1>1, <1>2, <1>3, <1>4, <1>5, <1>6 DEF DoorStep, DoorContinue

LEMMA CancelInvNext ==
  ASSUME TypeInv, MaxInv, AddInv, CancelInv, [Next]_vars
  PROVE  CancelInv'
<1>0. /\ obj \in [Srcs -> Objects] /\ door \in [DoorThreads -> Doors]
      /\ poll \in [Srcs -> Polls]
  BY DEF TypeInv, TypeOK
<1>1. CASE UNCHANGED <<obj, door, poll>>
  BY <1>1 DEF CancelInv, PollsOnly, FreedCancelled, HandCancelled, HandOf
<1>2. ASSUME NEW s \in Srcs, PollStep(s) PROVE CancelInv'
  <2>1. UNCHANGED <<obj, door>> /\ \A t \in Srcs : poll'[t].cancel = poll[t].cancel
    BY <1>2, PollStepIs, CancelKept
  <2>2. \A t \in Srcs : poll'[t].at # "none" => poll[t].at # "none" BY <1>2, PollStepIs
  <2>3. \A d \in DoorThreads : door[d].at = "free" => door[d].src \in Srcs
    BY DEF TypeInv, DoorInv, Made, OnSource
  <2>4. PollsOnly' BY <2>1, <2>2 DEF CancelInv, PollsOnly
  <2>5. FreedCancelled' BY <2>1 DEF CancelInv, FreedCancelled
  <2>6. HandCancelled' BY <2>1, <2>3 DEF CancelInv, HandCancelled, HandOf
  <2> QED BY <2>4, <2>5, <2>6 DEF CancelInv
<1>3. ASSUME NEW d \in DoorThreads, DoorStep(d) PROVE CancelInv'
  <2>1. \A e \in DoorThreads \ {d} : door'[e] = door[e] BY <1>3, DoorsRest
  <2>2. \A e \in DoorThreads : door[e].at \in OnSource => Made(door[e].src) /\ door[e].src \in Srcs
    BY DEF TypeInv, DoorInv, Made
  <2>3. \A t \in Srcs : Made(t) => obj'[t].type = obj[t].type
    <3>1. CASE obj' = obj BY <3>1
    <3>2. CASE \E n \in Srcs : obj[n].life = "none" /\ \A t \in Srcs \ {n} : obj'[t] = obj[t]
      BY <3>2 DEF Made
    <3>3. CASE obj' = [obj EXCEPT ![door[d].src].life = "freed"] BY <1>0, <3>3 DEF Objects
    <3> QED BY <1>3, <3>1, <3>2, <3>3, DoorObjects
  <2>4. \A t \in Srcs : poll[t].at # "none" => Made(t) BY DEF TypeInv, PollInv, ThreadInv
  <2>5. CASE poll' = poll /\ ~(StopSource(d) /\ door'[d].at = "free")
    <3>1. PollsOnly' BY <2>3, <2>4, <2>5 DEF CancelInv, PollsOnly
    <3>2. FreedCancelled'
      <4>1. CASE obj' = obj BY <2>5, <4>1 DEF CancelInv, FreedCancelled
      <4>2. CASE \E n \in Srcs : obj'[n].life = "live" /\ \A t \in Srcs \ {n} : obj'[t] = obj[t]
        BY <2>5, <4>2 DEF CancelInv, FreedCancelled
      <4>3. CASE door[d].at = "free" /\ obj' = [obj EXCEPT ![door[d].src].life = "freed"]
        <5>1. door[d].src \in Srcs BY <2>2, <4>3 DEF OnSource
        <5>2. \A t \in Srcs \ {door[d].src} : obj'[t] = obj[t] BY <1>0, <4>3
        <5>3. obj'[door[d].src].type = obj[door[d].src].type BY <1>0, <4>3, <5>1 DEF Objects
        <5> QED BY <2>5, <4>3, <5>1, <5>2, <5>3 DEF CancelInv, FreedCancelled, HandCancelled, HandOf
      <4> QED BY <1>3, <4>1, <4>2, <4>3, DoorObjects
    <3>3. HandCancelled'
      <4>1. \A e \in DoorThreads \ {d} : HandOf(e)'
        <5> SUFFICES ASSUME NEW e \in DoorThreads \ {d}, door[e].at \in OnSource
                     PROVE  HandOf(e)'
          BY <2>1 DEF HandOf, OnSource
        <5> DEFINE s == door[e].src
        <5>1. door'[e] = door[e] /\ s \in Srcs /\ Made(s) /\ HandOf(e)
          BY <2>1, <2>2 DEF CancelInv, HandCancelled
        <5>2. obj'[s].type = obj[s].type BY <5>1, <2>3
        <5>3. door[e].at = "free" /\ poll[s].cancel => poll'[s].cancel
          BY <2>5, <5>1 DEF OnSource
        <5> QED BY <5>1, <5>2, <5>3 DEF HandOf
      <4>2. door'[d].at = "spawn" => obj'[door'[d].src].type = "poll"
        BY <1>3, SpawnMoves
      <4>3. door'[d].at \in {"lock_rm", "close"} => obj'[door'[d].src].type = "flow"
        BY <1>3, RemovalMoves DEF CancelInv, HandCancelled, HandOf
      <4>4. door'[d].at = "free" => obj'[door'[d].src].type # "poll"
        <5>1. SUFFICES ASSUME door'[d].at = "free" PROVE door[d].at = "close"
          BY <1>3, RemovalMoves DEF CancelInv, HandCancelled, HandOf
        <5>2. door[d].at = "stop" => StopSource(d)
          BY <1>3 DEF DoorStep, DoorContinue, At, RequestAdd, RequestRemoval, RequestShow, NextZone,
             WatchFd, SpawnPollThread, InsertSource, RemovalStep, UnwatchFd, CloseFd, FreeSource,
             UnlinkNode, ShowStep
        <5> QED BY <1>3, <2>5, <5>1, <5>2, RemovalMoves
      <4> QED BY <4>1, <4>2, <4>3, <4>4 DEF HandCancelled, HandOf
    <3> QED BY <3>1, <3>2, <3>3 DEF CancelInv
  <2>6. CASE /\ SpawnPollThread(d) /\ obj' = obj /\ door'[d].at = "insert"
             /\ \A t \in Srcs \ {door[d].src} : poll'[t] = poll[t]
    <3>1. door[d].at = "spawn" /\ obj[door[d].src].type = "poll"
      BY <2>6 DEF SpawnPollThread, At, CancelInv, HandCancelled, HandOf
    <3>2. /\ door[d].src \in Srcs /\ obj[door[d].src].life = "live"
          /\ \A e \in DoorThreads \ {d} : door[e].at \in OnSource => door[e].src # door[d].src
      BY <2>2, <3>1 DEF AddInv, Adding, OnSource
    <3>3. PollsOnly' BY <2>6, <3>1, <3>2 DEF CancelInv, PollsOnly
    <3>4. FreedCancelled' BY <2>6, <3>2 DEF CancelInv, FreedCancelled
    <3>5. HandCancelled'
      <4>1. \A e \in DoorThreads \ {d} : HandOf(e)'
        <5> SUFFICES ASSUME NEW e \in DoorThreads \ {d}, door[e].at \in OnSource
                     PROVE  HandOf(e)'
          BY <2>1 DEF HandOf, OnSource
        <5> DEFINE s == door[e].src
        <5>1. door'[e] = door[e] /\ s \in Srcs /\ Made(s) /\ HandOf(e)
          BY <2>1, <2>2 DEF CancelInv, HandCancelled
        <5>2. obj'[s].type = obj[s].type BY <5>1, <2>3
        <5>3. door[e].at = "free" /\ poll[s].cancel => poll'[s].cancel
          BY <2>6, <3>2, <5>1 DEF OnSource
        <5> QED BY <5>1, <5>2, <5>3 DEF HandOf
      <4> QED BY <2>6, <4>1 DEF HandCancelled, HandOf
    <3> QED BY <3>3, <3>4, <3>5 DEF CancelInv
  <2>7. CASE /\ StopSource(d) /\ obj' = obj /\ door'[d].src = door[d].src
             /\ poll'[door[d].src].cancel /\ poll'[door[d].src].at = poll[door[d].src].at
             /\ \A t \in Srcs \ {door[d].src} : poll'[t] = poll[t]
    <3>1. \A t \in Srcs : poll'[t].at = poll[t].at /\ (poll[t].cancel => poll'[t].cancel)
      BY <2>7
    <3>2. door[d].at = "stop" BY <2>7 DEF StopSource, At
    <3>3. PollsOnly' BY <2>7, <3>1 DEF CancelInv, PollsOnly
    <3>4. FreedCancelled' BY <2>7, <3>1 DEF CancelInv, FreedCancelled
    <3>5. HandCancelled'
      <4>1. \A e \in DoorThreads \ {d} : HandOf(e)'
        <5> SUFFICES ASSUME NEW e \in DoorThreads \ {d}, door[e].at \in OnSource
                     PROVE  HandOf(e)'
          BY <2>1 DEF HandOf, OnSource
        <5> DEFINE s == door[e].src
        <5>1. door'[e] = door[e] /\ s \in Srcs /\ Made(s) /\ HandOf(e)
          BY <2>1, <2>2 DEF CancelInv, HandCancelled
        <5>2. obj'[s].type = obj[s].type BY <5>1, <2>3
        <5>3. door[e].at = "free" /\ poll[s].cancel => poll'[s].cancel
          BY <3>1, <5>1 DEF OnSource
        <5> QED BY <5>1, <5>2, <5>3 DEF HandOf
      <4>2. door'[d].at # "spawn" BY <2>7, <3>2, MovesIs
      <4>3. door'[d].at \in {"lock_rm", "close"} => obj'[door'[d].src].type = "flow"
        BY <1>3, RemovalMoves DEF CancelInv, HandCancelled, HandOf
      <4> QED BY <2>7, <4>1, <4>2, <4>3 DEF HandCancelled, HandOf
    <3> QED BY <3>3, <3>4, <3>5 DEF CancelInv
  <2> QED BY <1>3, <2>5, <2>6, <2>7, DoorPolls
<1>4. CASE MasterStep \/ Fault \/ UNCHANGED vars
  <2>1. UNCHANGED <<obj, door, poll>>
    BY <1>4, MasterTypes DEF Fault, vars
  <2> QED BY <1>1, <2>1
<1> QED BY <1>2, <1>3, <1>4 DEF Next

\* A thread that reads a freed source has been cancelled: it dies at its next sleep.
THEOREM FreedAfterCancelHolds == Spec => []FreedAfterCancel
<1> DEFINE Inv == TypeInv /\ MaxInv /\ AddInv /\ CancelInv
<1>1. Init => Inv
  <2> SUFFICES ASSUME Init PROVE Inv OBVIOUS
  <2>1. MaxInv BY DEF Init, MaxInv
  <2>2. AddInv BY DEF Init, AddInv, Adding
  <2>3. CancelInv
    BY DEF Init, CancelInv, PollsOnly, FreedCancelled, HandCancelled, HandOf, Unborn
  <2> QED BY <2>1, <2>2, <2>3, TypeInit
<1>2. Inv /\ [Next]_vars => Inv' BY TypeNext, AddInvNext, CancelInvNext
<1>3. Inv => FreedAfterCancel
  BY DEF CancelInv, PollsOnly, FreedCancelled, FreedAfterCancel, PollOnFreed, Unusable, TypeInv,
       TypeOK, PollInv, ThreadInv
<1> QED BY <1>1, <1>2, <1>3, PTL DEF Spec

================================================================================
