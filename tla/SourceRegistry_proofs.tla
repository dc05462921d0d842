-------------------------- MODULE SourceRegistry_proofs --------------------------
(***************************************************************************)
(* SflowSources implements SourceRegistry, for any number of sources,      *)
(* descriptors and names, while door calls are served one at a time.       *)
(***************************************************************************)
EXTENDS SflowSources_proofs

USE DEF At

(***************************************************************************)
(* What the mapping needs of the concrete state.                           *)
(***************************************************************************)

\* A removal has a source at hand that its request wants removed, and a polling source
\* that it is about to unlink is not polled any longer.
TargetInv ==
  \A d \in DoorThreads :
    door[d].at \in Removing =>
      /\ Matches(door[d].used, door[d].src)
      /\ door[d].at = "unlink" => ~IsPolled(door[d].src)

\* A polling thread's step neither makes its source polled nor ends that.
LEMMA PollsStay ==
  ASSUME TypeInv, NEW s \in Srcs, PollStep(s)
  PROVE  \A t \in Srcs : IsPolled(t)' = IsPolled(t)
<1>1. poll \in [Srcs -> Polls] /\ poll[s] \in Polls BY DEF TypeInv, TypeOK
<1>2. \A t \in Srcs \ {s} : poll'[t] = poll[t] BY PollStepIs
<1>3. poll'[s].cancel = poll[s].cancel BY CancelKept
<1>4. /\ poll[s].at \notin {"none", "dead"}
      /\ poll'[s].at \in {"none", "dead"} => poll[s].cancel
  <2>1. CASE PollCancelled(s)
    <3>1. poll[s].cancel /\ poll[s].at \in {"start", "sleep", "sample"}
      BY <2>1 DEF PollCancelled, PollGoto
    <3> QED BY <3>1
  <2>2. CASE PollStart(s)
    <3>1. [poll[s] EXCEPT !.at = "enable", !.enabled = FALSE].at = "enable" BY <1>1 DEF Polls
    <3> QED BY <1>1, <2>2, <3>1 DEF PollStart, PollGoto
  <2>3. CASE PollEnable(s)
    <3>1. [poll[s] EXCEPT !.at = "sleep", !.enabled = TRUE].at = "sleep" BY <1>1 DEF Polls
    <3> QED BY <1>1, <2>3, <3>1 DEF PollEnable, PollGoto
  <2>4. CASE PollDisable(s)
    <3>1. [poll[s] EXCEPT !.at = "sample", !.enabled = FALSE].at = "sample" BY <1>1 DEF Polls
    <3> QED BY <1>1, <2>4, <3>1 DEF PollDisable, PollGoto
  <2>5. \A at : [poll[s] EXCEPT !.at = at].at = at BY <1>1 DEF Polls
  <2>6. CASE PollWakes(s) BY <1>1, <2>5, <2>6 DEF PollWakes, PollGoto
  <2>7. CASE PollSample(s) BY <1>1, <2>5, <2>7 DEF PollSample, PollGoto
  <2> QED BY <2>1, <2>2, <2>3, <2>4, <2>6, <2>7 DEF PollStep
<1> QED BY <1>2, <1>3, <1>4 DEF IsPolled

LEMMA TargetInvNext ==
  ASSUME OneDoor, TypeInv, MaxInv, CancelInv, TargetInv, [Next]_vars
  PROVE  TargetInv'
<1>0. /\ obj \in [Srcs -> Objects] /\ poll \in [Srcs -> Polls]
      /\ \A d \in DoorThreads : door[d].at \in Removing => door[d].src \in Srcs
  BY DEF TypeInv, TypeOK, DoorInv, OnSource, Removing, Made
<1>1. ASSUME UNCHANGED <<obj, door>>, \A s \in Srcs : IsPolled(s)' = IsPolled(s)
      PROVE  TargetInv'
  <2> SUFFICES ASSUME NEW d \in DoorThreads, door[d].at \in Removing
               PROVE  /\ Matches(door[d].used, door[d].src)'
                      /\ door[d].at = "unlink" => ~IsPolled(door[d].src)'
    BY <1>1 DEF TargetInv
  <2>1. Matches(door[d].used, door[d].src)' BY <1>1 DEF TargetInv, Matches
  <2>2. door[d].at = "unlink" => ~IsPolled(door[d].src)'
    BY <1>0, <1>1 DEF TargetInv, IsPolled
  <2> QED BY <2>1, <2>2
<1>2. CASE MasterStep \/ Fault \/ UNCHANGED vars
  <2>1. UNCHANGED <<obj, door, poll>>
    BY <1>2, MasterTypes DEF Fault, vars
  <2> QED BY <1>1, <2>1 DEF IsPolled
<1>3. ASSUME NEW s \in Srcs, PollStep(s) PROVE TargetInv'
  BY <1>1, <1>3, PollsStay, PollStepIs
<1>4. ASSUME NEW d \in DoorThreads, DoorStep(d) PROVE TargetInv'
  <2> SUFFICES ASSUME door'[d].at \in Removing
               PROVE  /\ Matches(door[d].used, door[d].src)'
                      /\ door'[d].at = "unlink" => ~IsPolled(door[d].src)'
    BY DEF TargetInv, OneDoor
  <2>1. CASE RemovalStep(d) \/ ShowStep(d)
    <3>1. /\ obj' = obj /\ door'[d].at = "stop" /\ door'[d].used = door[d].used
          /\ Matches(door[d].used, door'[d].src)
      BY <2>1, WalkIs DEF Walking, Removing
    <3> QED BY <3>1 DEF Matches
  <2>2. CASE \/ WatchFd(d) \/ SpawnPollThread(d) \/ StopSource(d) \/ UnwatchFd(d) \/ CloseFd(d)
             \/ FreeSource(d)
    <3>1. /\ door[d].at \in Removing /\ door'[d].used = door[d].used /\ door'[d].src = door[d].src
          /\ door'[d].at = "unlink" => door[d].at \in {"stop", "free"}
          /\ obj' = obj \/ obj' = [obj EXCEPT ![door[d].src].life = "freed"]
      BY <2>2, MovesIs DEF Removing
    <3>2. /\ obj'[door[d].src].name = obj[door[d].src].name
          /\ obj'[door[d].src].type = obj[door[d].src].type
      BY <1>0, <3>1 DEF Objects
    <3>3. Matches(door[d].used, door[d].src)' BY <3>1, <3>2 DEF TargetInv, Matches
    <3>4. ASSUME door'[d].at = "unlink", door[d].at = "stop" PROVE ~IsPolled(door[d].src)'
      <4>1. StopSource(d)
        BY <2>2, <3>4 DEF WatchFd, SpawnPollThread, UnwatchFd, CloseFd, FreeSource, At
      <4>2. door \in [DoorThreads -> Doors] BY DEF TypeInv, TypeOK
      <4>3. poll' = poll /\ poll[door[d].src].at \in {"none", "dead"}
        BY <3>4, <4>1, <4>2 DEF StopSource, Doors
      <4> QED BY <3>1, <4>3 DEF IsPolled
    <3>5. ASSUME door'[d].at = "unlink", door[d].at = "free" PROVE ~IsPolled(door[d].src)'
      <4>1. FreeSource(d)
        BY <2>2, <3>5 DEF WatchFd, SpawnPollThread, UnwatchFd, CloseFd, StopSource, At
      <4>2. poll' = poll BY <4>1 DEF FreeSource
      <4>3. door[d].src \in Srcs /\ obj[door[d].src].type \in Types
        BY <1>0, <3>1 DEF Objects
      <4>4. poll[door[d].src].cancel \/ poll[door[d].src].at = "none"
        BY <3>5, <4>3 DEF CancelInv, HandCancelled, HandOf, PollsOnly, Types
      <4> QED BY <3>1, <4>2, <4>4 DEF IsPolled
    <3> QED BY <3>1, <3>3, <3>4, <3>5
  <2>3. CASE InsertSource(d) \/ UnlinkNode(d)
    BY <2>3, InsertIs, UnlinkIs DEF Removing
  <2>4. CASE RequestRemoval(d) \/ RequestShow(d)
    <3>1. door[d].at = "idle" /\ (door' = door \/ door'[d].at \in Walking) BY <2>4, RequestIs
    <3> QED BY <3>1 DEF Walking, Removing
  <2>5. CASE RequestAdd(d) \/ NextZone(d)
    BY <2>5, MakeIs DEF Removing
  <2> QED BY <1>4, <2>1, <2>2, <2>3, <2>4, <2>5 DEF DoorStep, DoorContinue
<1> QED BY <1>2, <1>3, <1>4 DEF Next

(***************************************************************************)
(* The mapped state, for the one door thread.                              *)
(***************************************************************************)

MappedInv == RegistryInv /\ RemovalInv /\ AddInv /\ CancelInv /\ TargetInv

LEMMA MappedInit == Init => MappedInv
<1> SUFFICES ASSUME Init PROVE MappedInv OBVIOUS
<1>1. \A d \in DoorThreads : door[d].at = "idle" BY DEF Init
<1>2. RemovalInv /\ AddInv /\ TargetInv
  BY <1>1 DEF RemovalInv, AddInv, TargetInv, Adding, Removing
<1>3. CancelInv
  BY DEF Init, CancelInv, PollsOnly, FreedCancelled, HandCancelled, HandOf, Unborn
<1> QED BY <1>2, <1>3, RegistryInit DEF MappedInv

LEMMA MappedNext ==
  ASSUME OneDoor
  PROVE  MappedInv /\ [Next]_vars => MappedInv'
BY RegistryNext, RemovalInvNext, AddInvNext, CancelInvNext, TargetInvNext
   DEF MappedInv, RegistryInv

\* The sources being added and the removals under way, by the step of the door thread.
LEMMA OneAdds ==
  ASSUME OneDoor, NEW d \in DoorThreads
  PROVE  /\ BeingAdded = IF door[d].at \in Adding THEN {door[d].src} ELSE {}
         /\ BeingAdded' = IF door'[d].at \in Adding THEN {door'[d].src} ELSE {}
<1>1. \A e \in DoorThreads : e = d BY DEF OneDoor
<1>2. BeingAdded = IF door[d].at \in Adding THEN {door[d].src} ELSE {}
  BY <1>1 DEF BeingAdded, Adding
<1>3. BeingAdded' = IF door'[d].at \in Adding THEN {door'[d].src} ELSE {}
  BY <1>1 DEF BeingAdded, Adding
<1> QED BY <1>2, <1>3

Call(d) == [by |-> d, wanted |-> Wanted(door[d].used)]

LEMMA OneRemoves ==
  ASSUME OneDoor, NEW d \in DoorThreads
  PROVE  /\ Removals = IF door[d].at \in InRemoval THEN {Call(d)} ELSE {}
         /\ Removals' = IF door'[d].at \in InRemoval THEN {Call(d)'} ELSE {}
<1>1. \A e \in DoorThreads : e = d BY DEF OneDoor
<1>2. Removals = IF door[d].at \in InRemoval THEN {Call(d)} ELSE {}
  BY <1>1 DEF Removals, Call
<1>3. Removals' = IF door'[d].at \in InRemoval THEN {Call(d)'} ELSE {}
  BY <1>1 DEF Removals, Call
<1> QED BY <1>2, <1>3

\* A request's kinds are those of the sources that match it.
LEMMA WantedIs ==
  ASSUME TypeInv, NEW s \in Srcs, Made(s), NEW req
  PROVE  Kind[s] \in Wanted(req) <=> Matches(req, s)
<1>1. obj[s].name \in Names /\ obj[s].type \in Types BY DEF TypeInv, TypeOK, Objects
<1>2. Kind[s] = <<obj[s].name, obj[s].type>> BY DEF Kind, Made
<1> QED BY <1>1, <1>2 DEF Wanted, Matches

\* A source is made once its kind is known.
LEMMA KindIs ==
  ASSUME NEW s \in Srcs
  PROVE  Kind[s] # <<>> <=> Made(s)
BY DEF Kind, Made

\* The mapped variables that depend on objects, list and polling threads.
LEMMA KindKept ==
  ASSUME TypeInv, \A s \in Srcs : Made(s)' = Made(s),
         \A s \in Srcs : obj'[s].name = obj[s].name /\ obj'[s].type = obj[s].type
  PROVE  Kind' = Kind
BY DEF Kind, Made

LEMMA SampledKept ==
  ASSUME UNCHANGED <<toWatch, fdSources>>, \A s \in Srcs : IsPolled(s)' = IsPolled(s)
  PROVE  Sampled' = Sampled
BY DEF Sampled

LEMMA RemovedKept ==
  ASSUME list' = list, \A s \in Srcs : Made(s)' = Made(s), BeingAdded' = BeingAdded
  PROVE  Removed' = Removed
BY DEF Removed, Linked, Made

\* A call under way that keeps its request.
LEMMA RemovalsKept ==
  ASSUME OneDoor, NEW d \in DoorThreads,
         \/ door[d].at \notin InRemoval /\ door'[d].at \notin InRemoval
         \/ /\ door[d].at \in InRemoval /\ door'[d].at \in InRemoval
            /\ door'[d].used = door[d].used
  PROVE  Removals' = Removals
<1>1. CASE door[d].at \notin InRemoval /\ door'[d].at \notin InRemoval
  BY <1>1, OneRemoves
<1>2. CASE door[d].at \in InRemoval /\ door'[d].at \in InRemoval /\ door'[d].used = door[d].used
  <2>1. Call(d)' = Call(d) BY <1>2 DEF Call, Wanted
  <2> QED BY <1>2, <2>1, OneRemoves
<1> QED BY <1>1, <1>2

(***************************************************************************)
(* The steps of a door thread.                                             *)
(***************************************************************************)

\* Making a source, or passing over a zone.
LEMMA MakeMaps ==
  ASSUME OneDoor, MappedInv, NEW d \in DoorThreads, RequestAdd(d) \/ NextZone(d)
  PROVE  (\E s \in Srcs : Registry!Make(s)) \/ UNCHANGED Registry!rvars
<1>0. TypeInv BY DEF MappedInv, RegistryInv
<1>1. /\ door[d].at \in {"idle", "make"}
      /\ UNCHANGED <<list, toWatch, fdSources, master, poll>>
  BY <1>0, MakeIs
<1>2. Sampled' = Sampled BY <1>1, SampledKept DEF IsPolled
<1>3. CASE door'[d].at \in {"idle", "make"} /\ obj' = obj
  <2>1. Removals' = Removals BY <1>1, <1>3, RemovalsKept DEF InRemoval
  <2>2. BeingAdded' = BeingAdded BY <1>1, <1>3, OneAdds DEF Adding
  <2>3. Removed' = Removed BY <1>1, <1>3, <2>2, RemovedKept DEF Made
  <2>4. Kind' = Kind BY <1>3 DEF Kind
  <2> QED BY <1>1, <1>2, <2>1, <2>3, <2>4 DEF Registry!rvars
<1>4. ASSUME NEW n \in Srcs, obj[n].life = "none", door'[d].src = n,
             obj' \in [Srcs -> Objects], obj'[n].life = "live",
             \A t \in Srcs \ {n} : obj'[t] = obj[t],
             door'[d].at \in {"lock_add", "spawn"}
      PROVE  Registry!Make(n)
  <2>1. Removals' = Removals BY <1>1, <1>4, RemovalsKept DEF InRemoval
  <2>2. BeingAdded = {} /\ BeingAdded' = {n} BY <1>1, <1>4, OneAdds DEF Adding
  <2>3. n \notin Linked BY <1>0, <1>4 DEF TypeInv, ListInv, Made
  <2>4. Removed' = Removed
    <3>1. Linked' = Linked BY <1>1 DEF Linked
    <3>2. \A s \in Srcs \ {n} : obj'[s].life = obj[s].life BY <1>4
    <3> QED BY <1>4, <2>2, <2>3, <3>1, <3>2 DEF Removed
  <2> DEFINE k == <<obj'[n].name, obj'[n].type>>
  <2>5. k \in Names \X Types BY <1>4 DEF Objects
  <2>6. Kind' = [Kind EXCEPT ![n] = k]
    <3>1. \A s \in Srcs : Kind'[s] = IF s = n THEN k ELSE Kind[s] BY <1>4 DEF Kind
    <3> HIDE DEF k
    <3>2. Kind' = [s \in Srcs |-> Kind'[s]] /\ Kind = [s \in Srcs |-> Kind[s]] BY DEF Kind
    <3> QED BY <3>1, <3>2
  <2>7. Kind[n] = <<>> BY <1>4 DEF Kind
  <2> HIDE DEF k
  <2> QED BY <1>1, <1>2, <2>1, <2>4, <2>5, <2>6, <2>7 DEF Registry!Make, Registry!Unmade
<1> QED BY <1>0, <1>3, <1>4, MakeIs

\* A source at the hand of a thread that adds it is new to the registry.
LEMMA AddedIsNew ==
  ASSUME OneDoor, MappedInv, NEW d \in DoorThreads, door[d].at \in Adding
  PROVE  /\ door[d].src \in Srcs /\ obj[door[d].src].life = "live"
         /\ Registry!IsNew(door[d].src)
<1>1. /\ door[d].src \in Srcs /\ obj[door[d].src].life = "live" /\ door[d].src \notin Linked
  BY DEF MappedInv, RegistryInv, TypeInv, DoorInv, OnSource, Adding, Made, WalkInv, HandInv
<1>2. door[d].src \notin Removed BY OneAdds DEF Removed
<1>3. Kind[door[d].src] # <<>> BY <1>1, KindIs DEF Made
<1> QED BY <1>1, <1>2, <1>3 DEF Registry!IsNew, Registry!Unmade, Registry!Registered, Linked

\* What begins or ends sampling changes no more than the thread's step.
LEMMA MappedRest ==
  ASSUME OneDoor, MappedInv, NEW d \in DoorThreads,
         UNCHANGED <<list, master>>, \A s \in Srcs : Made(s)' = Made(s),
         \A s \in Srcs : obj'[s].name = obj[s].name /\ obj'[s].type = obj[s].type,
         \/ door[d].at \in Adding /\ door'[d].at \in Adding /\ door'[d].src = door[d].src
         \/ door[d].at \notin Adding /\ door'[d].at \notin Adding,
         \/ door[d].at \notin InRemoval /\ door'[d].at \notin InRemoval
         \/ /\ door[d].at \in InRemoval /\ door'[d].at \in InRemoval
            /\ door'[d].used = door[d].used
  PROVE  UNCHANGED <<Kind, list, Removed, Removals, (master.at # "start")>>
<1>1. Kind' = Kind BY KindKept DEF MappedInv, RegistryInv
<1>2. Removals' = Removals BY RemovalsKept
<1>3. BeingAdded' = BeingAdded BY OneAdds
<1>4. Removed' = Removed BY <1>3, RemovedKept
<1> QED BY <1>1, <1>2, <1>4

\* The source that owns a watched descriptor is the only one.
LEMMA WatchedSource ==
  ASSUME OneDoor, MappedInv, NEW d \in DoorThreads, door[d].at \in {"lock_add", "lock_rm"},
         NEW fd \in toWatch
  PROVE  (fdSources[fd] = door[d].src) <=> (obj[door[d].src].fd = fd)
<1>1. /\ door[d].src \in Srcs /\ obj[door[d].src].life = "live"
      /\ obj[door[d].src].type = "flow"
  BY DEF MappedInv, RegistryInv, TypeInv, DoorInv, OnSource, Made, WalkInv, HandInv, Adding,
         Removing
<1>2. /\ fdSources[fd] \in Srcs /\ obj[fdSources[fd]].life = "live"
      /\ obj[fdSources[fd]].type = "flow" /\ obj[fdSources[fd]].fd = fd
  BY DEF MappedInv, RegistryInv, WatchInv, IsFlowSourceOf, TypeInv, TypeOK
<1>3. fdSources[fd] \in Holders /\ door[d].src \in Holders
  BY <1>1, <1>2 DEF Holders, OneDoor
<1>4. \A s, t \in Holders : obj[s].fd = obj[t].fd => s = t
  BY DEF MappedInv, RegistryInv, SocketInv, OpenInv
<1> QED BY <1>2, <1>3, <1>4

LEMMA WatchFdMaps ==
  ASSUME OneDoor, MappedInv, NEW d \in DoorThreads, WatchFd(d)
  PROVE  Registry!BeginSampling(door[d].src)
<1>0. TypeInv BY DEF MappedInv, RegistryInv
<1>1. PICK fd \in FDs : fd = obj[door[d].src].fd
  BY <1>0 DEF TypeInv, DoorInv, ObjectInv, Made, OnSource, WatchFd
<1>2. /\ door[d].at = "lock_add" /\ UNCHANGED <<obj, list, poll, master>>
      /\ toWatch' = toWatch \cup {fd} /\ fdSources' = [fdSources EXCEPT ![fd] = door[d].src]
  BY <1>1 DEF WatchFd
<1>3. door'[d].at = "insert" /\ door'[d].src = door[d].src BY <1>0, <1>2, MovesIs
<1>4. UNCHANGED <<Kind, list, Removed, Removals, (master.at # "start")>>
  BY <1>2, <1>3, MappedRest DEF Adding, InRemoval, Made
<1>5. Registry!IsNew(door[d].src) BY <1>2, AddedIsNew DEF Adding
<1>6. Sampled' = Sampled \cup {door[d].src}
  <2>1. fdSources'[fd] = door[d].src /\ toWatch \subseteq FDs
        /\ \A f \in toWatch \ {fd} : fdSources'[f] = fdSources[f]
    BY <1>0, <1>2 DEF TypeInv, TypeOK
  <2>2. fd \in toWatch => fdSources[fd] = door[d].src BY <1>1, <1>2, WatchedSource
  <2>3. {fdSources'[f] : f \in toWatch'} = {fdSources[f] : f \in toWatch} \cup {door[d].src}
    BY <1>2, <2>1, <2>2
  <2>4. {s \in Srcs : IsPolled(s)}' = {s \in Srcs : IsPolled(s)} BY <1>2 DEF IsPolled
  <2> QED BY <2>3, <2>4 DEF Sampled
<1> QED BY <1>4, <1>5, <1>6 DEF Registry!BeginSampling

LEMMA SpawnMaps ==
  ASSUME OneDoor, MappedInv, NEW d \in DoorThreads, SpawnPollThread(d)
  PROVE  Registry!BeginSampling(door[d].src) \/ UNCHANGED Registry!rvars
<1>0. TypeInv BY DEF MappedInv, RegistryInv
<1>1. door[d].at = "spawn" /\ UNCHANGED <<obj, list, toWatch, fdSources, master>>
  BY DEF SpawnPollThread, regVars
<1>2. door'[d].at = "insert" /\ door'[d].src = door[d].src BY <1>0, <1>1, MovesIs
<1>3. UNCHANGED <<Kind, list, Removed, Removals, (master.at # "start")>>
  BY <1>1, <1>2, MappedRest DEF Adding, InRemoval, Made
<1>4. Registry!IsNew(door[d].src) /\ door[d].src \in Srcs BY <1>1, AddedIsNew DEF Adding
<1>5. CASE poll' = poll
  <2>1. Sampled' = Sampled BY <1>1, <1>5, SampledKept DEF IsPolled
  <2> QED BY <1>3, <2>1 DEF Registry!rvars
<1>6. CASE poll' = [poll EXCEPT ![door[d].src] =
                      [at |-> "start", cancel |-> FALSE, enabled |-> TRUE]]
  <2>1. poll \in [Srcs -> Polls] BY <1>0 DEF TypeInv, TypeOK
  <2>2. /\ poll'[door[d].src].at = "start" /\ ~poll'[door[d].src].cancel
        /\ \A s \in Srcs \ {door[d].src} : poll'[s] = poll[s]
    BY <1>4, <1>6, <2>1
  <2>3. Sampled' = Sampled \cup {door[d].src} BY <1>1, <1>4, <2>2 DEF Sampled, IsPolled
  <2> QED BY <1>3, <1>4, <2>3 DEF Registry!BeginSampling
<1> QED BY <1>5, <1>6 DEF SpawnPollThread

LEMMA InsertMaps ==
  ASSUME OneDoor, MappedInv, NEW d \in DoorThreads, InsertSource(d)
  PROVE  Registry!Register(door[d].src)
<1>0. TypeInv BY DEF MappedInv, RegistryInv
<1>1. /\ door[d].at = "insert" /\ door'[d].at \in {"idle", "make"}
      /\ list' = Append(list, door[d].src)
      /\ UNCHANGED <<obj, toWatch, fdSources, master, poll>>
  BY <1>0, InsertIs
<1>2. Registry!IsNew(door[d].src) /\ door[d].src \in Srcs BY <1>1, AddedIsNew DEF Adding
<1>3. Kind' = Kind /\ Sampled' = Sampled BY <1>1, SampledKept DEF Kind, IsPolled
<1>4. Removals' = Removals BY <1>1, RemovalsKept DEF InRemoval
<1>5. Removed' = Removed
  <2>1. BeingAdded = {door[d].src} /\ BeingAdded' = {} BY <1>1, OneAdds DEF Adding
  <2>2. Linked' = Linked \cup {door[d].src}
    <3>1. list \in Seq(Srcs) BY <1>0 DEF TypeInv, TypeOK
    <3> QED BY <1>1, <1>2, <3>1 DEF Linked
  <2> QED BY <1>1, <2>1, <2>2 DEF Removed
<1> QED BY <1>1, <1>2, <1>3, <1>4, <1>5 DEF Registry!Register

LEMMA RequestMaps ==
  ASSUME OneDoor, MappedInv, NEW d \in DoorThreads, RequestRemoval(d) \/ RequestShow(d)
  PROVE  Registry!AskRemoval(d) \/ UNCHANGED Registry!rvars
<1>0. TypeInv /\ door \in [DoorThreads -> Doors] BY DEF MappedInv, RegistryInv, TypeInv, TypeOK
<1>1. door[d].at = "idle" /\ UNCHANGED <<obj, list, toWatch, fdSources, master, poll>>
  BY <1>0, RequestIs
<1>2. door' = door \/ door'[d].at \in Walking BY <1>0, RequestIs
<1>3. Kind' = Kind /\ Sampled' = Sampled BY <1>1, SampledKept DEF Kind, IsPolled
<1>4. Removed' = Removed
  <2>1. BeingAdded' = BeingAdded BY <1>1, <1>2, OneAdds DEF Adding, Walking
  <2> QED BY <1>1, <2>1, RemovedKept DEF Made
<1>5. CASE door'[d].at \notin InRemoval
  <2>1. Removals' = Removals BY <1>1, <1>5, RemovalsKept DEF InRemoval
  <2> QED BY <1>1, <1>3, <1>4, <2>1 DEF Registry!rvars
<1>6. CASE door'[d].at \in InRemoval
  <2>1. Removals = {} /\ Removals' = {Call(d)'} BY <1>1, <1>6, OneRemoves DEF InRemoval
  <2>2. Call(d)' = [by |-> d, wanted |-> Wanted(door'[d].used)] BY DEF Call, Wanted
  <2>3. Wanted(door'[d].used) \in SUBSET (Names \X Types) BY DEF Wanted
  <2> HIDE DEF Call, Wanted
  <2> QED BY <1>1, <1>3, <1>4, <2>1, <2>2, <2>3 DEF Registry!AskRemoval
<1> QED BY <1>5, <1>6

\* Listed sources are made, and wanted by a call when they match its request.
LEMMA ListedMatch ==
  ASSUME OneDoor, MappedInv, NEW d \in DoorThreads, NEW s \in Linked
  PROVE  s \in Srcs /\ (Kind[s] \in Call(d).wanted <=> Matches(door[d].used, s))
<1>1. s \in Srcs /\ Made(s) BY DEF MappedInv, RegistryInv, TypeInv, ListInv, Made
<1> QED BY <1>1, WantedIs DEF MappedInv, RegistryInv, Call

\* The end of a removal's walk is its answer; other steps of a walk show nothing.
LEMMA WalkMaps ==
  ASSUME OneDoor, MappedInv, [Next]_vars, NEW d \in DoorThreads, RemovalStep(d) \/ ShowStep(d)
  PROVE  Registry!RegistryNext \/ UNCHANGED Registry!rvars
<1>0. TypeInv BY DEF MappedInv, RegistryInv
<1>1. door[d].at \in Walking /\ UNCHANGED <<obj, list, toWatch, fdSources, master, poll>>
  BY <1>0, WalkIs
<1>2. Kind' = Kind /\ Sampled' = Sampled BY <1>1, SampledKept DEF Kind, IsPolled
<1>3. \/ door'[d].at = "idle"
      \/ /\ door'[d].at = door[d].at \/ (door[d].at = "walk_rm" /\ door'[d].at = "stop")
         /\ door'[d].used = door[d].used
  BY <1>0, WalkIs
<1>4. Removed' = Removed
  <2>1. BeingAdded' = BeingAdded BY <1>1, <1>3, OneAdds DEF Adding, Walking
  <2> QED BY <1>1, <2>1, RemovedKept DEF Made
<1>5. CASE door[d].at = "walk_rm" /\ door'[d].at = "idle"
  <2>1. \A s \in Linked : ~Matches(door[d].used, s)
    BY <1>5, AllPassed DEF MappedInv, RegistryInv
  <2>2. Removals = {Call(d)} /\ Removals' = {} BY <1>5, OneRemoves DEF InRemoval
  <2>3. \A s \in Registry!Registered : Kind[s] \notin Call(d).wanted
    BY <2>1, ListedMatch DEF Registry!Registered, Linked
  <2>4. Registry!Answer(Call(d))
    BY <1>1, <1>2, <1>4, <2>2, <2>3 DEF Registry!Answer
  <2> QED BY <2>2, <2>4 DEF Registry!RegistryNext
<1>6. CASE ~(door[d].at = "walk_rm" /\ door'[d].at = "idle")
  <2>1. Removals' = Removals BY <1>1, <1>3, <1>6, RemovalsKept DEF InRemoval, Walking
  <2> QED BY <1>1, <1>2, <1>4, <2>1 DEF Registry!rvars
<1> QED BY <1>5, <1>6

\* A removal at one of its sources: a call under way, of which the source is wanted.
LEMMA RemovalTarget ==
  ASSUME OneDoor, MappedInv, NEW d \in DoorThreads, door[d].at \in Removing
  PROVE  /\ door[d].src \in Srcs /\ door[d].src \in Linked
         /\ Removals = {Call(d)} /\ Kind[door[d].src] \in Call(d).wanted
<1>1. door[d].src \in Linked /\ Matches(door[d].used, door[d].src)
  BY DEF MappedInv, RegistryInv, WalkInv, HandInv, TargetInv
<1>2. Removals = {Call(d)} BY OneRemoves DEF Removing, InRemoval
<1> QED BY <1>1, <1>2, ListedMatch

LEMMA EndsSampling ==
  ASSUME OneDoor, MappedInv, NEW d \in DoorThreads, door[d].at \in Removing,
         UNCHANGED <<Kind, list, Removed, Removals, (master.at # "start")>>,
         Sampled' = Sampled \ {door[d].src}
  PROVE  Registry!RegistryNext
<1>1. Registry!EndSampling(Call(d), door[d].src)
  BY RemovalTarget DEF Registry!EndSampling, Registry!Registered, Linked
<1> QED BY <1>1, RemovalTarget DEF Registry!RegistryNext

LEMMA StopSourceMaps ==
  ASSUME OneDoor, MappedInv, NEW d \in DoorThreads, StopSource(d)
  PROVE  Registry!RegistryNext \/ UNCHANGED Registry!rvars
<1>0. TypeInv BY DEF MappedInv, RegistryInv
<1> DEFINE s == door[d].src
<1>1. door[d].at = "stop" /\ UNCHANGED <<obj, list, toWatch, fdSources, master>>
  BY DEF StopSource, regVars
<1>2. /\ s \in Srcs /\ door'[d].at \in {"lock_rm", "free", "unlink"}
      /\ door'[d].used = door[d].used
  BY <1>0, <1>1, MovesIs, RemovalTarget DEF Removing
<1>3. UNCHANGED <<Kind, list, Removed, Removals, (master.at # "start")>>
  BY <1>1, <1>2, MappedRest DEF Adding, InRemoval, Made
<1>4. CASE poll' = poll
  <2>1. Sampled' = Sampled BY <1>1, <1>4, SampledKept DEF IsPolled
  <2> QED BY <1>3, <2>1 DEF Registry!rvars
<1>5. CASE obj[s].type = "poll" /\ poll' = [poll EXCEPT ![s].cancel = TRUE]
  <2>1. poll \in [Srcs -> Polls] /\ poll[s] \in Polls BY <1>0, <1>2 DEF TypeInv, TypeOK
  <2>2. poll'[s].cancel /\ \A t \in Srcs \ {s} : poll'[t] = poll[t]
    BY <1>2, <1>5, <2>1 DEF Polls
  <2>3. \A fd \in toWatch : fdSources[fd] # s
    BY <1>5 DEF MappedInv, RegistryInv, WatchInv, IsFlowSourceOf
  <2>4. Sampled' = Sampled \ {s} BY <1>1, <2>2, <2>3 DEF Sampled, IsPolled
  <2> QED BY <1>1, <1>3, <2>4, EndsSampling DEF Removing
<1> QED BY <1>4, <1>5 DEF StopSource

LEMMA UnwatchFdMaps ==
  ASSUME OneDoor, MappedInv, NEW d \in DoorThreads, UnwatchFd(d)
  PROVE  Registry!RegistryNext
<1>0. TypeInv BY DEF MappedInv, RegistryInv
<1> DEFINE s == door[d].src
<1>1. PICK fd \in FDs : fd = obj[s].fd
  BY <1>0 DEF TypeInv, DoorInv, ObjectInv, Made, OnSource, UnwatchFd
<1>2. /\ door[d].at = "lock_rm" /\ UNCHANGED <<obj, list, poll, master>>
      /\ toWatch' = toWatch \ {fd} /\ fdSources' = [fdSources EXCEPT ![fd] = NULL]
  BY <1>1 DEF UnwatchFd
<1>3. /\ s \in Srcs /\ door'[d].at = "close" /\ door'[d].used = door[d].used
  BY <1>0, <1>2, MovesIs, RemovalTarget DEF Removing
<1>4. UNCHANGED <<Kind, list, Removed, Removals, (master.at # "start")>>
  BY <1>2, <1>3, MappedRest DEF Adding, InRemoval, Made
<1>5. Sampled' = Sampled \ {s}
  <2>1. ~IsPolled(s)
    BY <1>2, <1>3 DEF MappedInv, RegistryInv, TypeInv, DoorInv, CancelInv, PollsOnly, IsPolled
  <2>2. \A f \in toWatch : fdSources[f] = s <=> f = fd BY <1>1, <1>2, WatchedSource
  <2>3. \A f \in toWatch \ {fd} : fdSources'[f] = fdSources[f]
    BY <1>0, <1>2 DEF TypeInv, TypeOK
  <2>4. {fdSources'[f] : f \in toWatch'} = {fdSources[f] : f \in toWatch} \ {s}
    BY <1>2, <2>2, <2>3
  <2>5. {t \in Srcs : IsPolled(t)}' = {t \in Srcs : IsPolled(t)} \ {s}
    BY <1>2, <2>1 DEF IsPolled
  <2> QED BY <2>4, <2>5 DEF Sampled
<1> QED BY <1>2, <1>4, <1>5, EndsSampling DEF Removing

\* Closing the socket and freeing the object show nothing.
LEMMA FreeMaps ==
  ASSUME OneDoor, MappedInv, NEW d \in DoorThreads, CloseFd(d) \/ FreeSource(d)
  PROVE  UNCHANGED Registry!rvars
<1>0. TypeInv /\ obj \in [Srcs -> Objects] BY DEF MappedInv, RegistryInv, TypeInv, TypeOK
<1>1. /\ door[d].at \in {"close", "free"}
      /\ UNCHANGED <<list, poll, toWatch, fdSources, master>>
  BY DEF CloseFd, FreeSource, regVars
<1>2. door[d].src \in Srcs /\ obj[door[d].src].life # "none"
  BY <1>0, <1>1 DEF TypeInv, DoorInv, OnSource, Made
<1>3. obj' = obj \/ obj' = [obj EXCEPT ![door[d].src].life = "freed"]
  BY DEF CloseFd, FreeSource
<1>4. /\ \A s \in Srcs : Made(s)' = Made(s)
      /\ \A s \in Srcs : obj'[s].name = obj[s].name /\ obj'[s].type = obj[s].type
  BY <1>0, <1>2, <1>3 DEF Made, Objects
<1>5. door'[d].at \in {"free", "unlink"} /\ door'[d].used = door[d].used
  BY <1>0, <1>1, MovesIs
<1>6. UNCHANGED <<Kind, list, Removed, Removals, (master.at # "start")>>
  BY <1>1, <1>4, <1>5, MappedRest DEF Adding, InRemoval
<1>7. Sampled' = Sampled BY <1>1, SampledKept DEF IsPolled
<1> QED BY <1>6, <1>7 DEF Registry!rvars

\* A source that is about to be unlinked is not sampled any longer.
LEMMA UnlinkedRests ==
  ASSUME OneDoor, MappedInv, NEW d \in DoorThreads, door[d].at = "unlink"
  PROVE  door[d].src \notin Sampled
<1>1. ~IsPolled(door[d].src) BY DEF MappedInv, TargetInv, Removing
<1>2. \A fd \in toWatch : fdSources[fd] # door[d].src
  BY DEF MappedInv, RegistryInv, WatchInv, IsFlowSourceOf, SocketInv, ClosedInv
<1> QED BY <1>1, <1>2 DEF Sampled

LEMMA UnlinkMaps ==
  ASSUME OneDoor, MappedInv, NEW d \in DoorThreads, UnlinkNode(d)
  PROVE  Registry!RegistryNext
<1>0. TypeInv /\ list \in Seq(Srcs) BY DEF MappedInv, RegistryInv, TypeInv, TypeOK
<1> DEFINE s == door[d].src
           i == Position(s)
<1>1. /\ door[d].at = "unlink" /\ door'[d].at = "walk_rm" /\ door'[d].used = door[d].used
      /\ list' = ListRemove(s) /\ UNCHANGED <<obj, toWatch, fdSources, master, poll>>
  BY <1>0, UnlinkIs
<1>2. /\ s \in Srcs /\ s \in Linked /\ Removals = {Call(d)} /\ Kind[s] \in Call(d).wanted
  BY <1>1, RemovalTarget DEF Removing
<1>3. i \in DOMAIN list /\ list[i] = s BY <1>0, <1>2, PositionIs
<1>4. Kind' = Kind /\ Sampled' = Sampled BY <1>1, SampledKept DEF Kind, IsPolled
<1>5. Removals' = Removals BY <1>1, RemovalsKept DEF InRemoval
<1>6. Removed' = Removed \cup {list[i]}
  <2>1. Linked' = Linked \ {s}
    BY <1>0, <1>1, <1>2, ListRemoveIs DEF MappedInv, RegistryInv, WalkInv, Distinct
  <2>2. BeingAdded = {} /\ BeingAdded' = {} BY <1>1, OneAdds DEF Adding
  <2>3. obj[s].life # "none"
    BY <1>1 DEF MappedInv, RegistryInv, TypeInv, DoorInv, OnSource, Made
  <2> QED BY <1>1, <1>2, <1>3, <2>1, <2>2, <2>3 DEF Removed
<1>7. list' = [k \in 1..(Len(list) - 1) |-> IF k < i THEN list[k] ELSE list[k + 1]]
  BY <1>1, <1>2 DEF ListRemove
<1>8. list[i] \notin Sampled BY <1>1, <1>3, UnlinkedRests
<1> HIDE DEF i, s
<1>9. Registry!Remove(Call(d), i)
  BY <1>1, <1>2, <1>3, <1>4, <1>5, <1>6, <1>7, <1>8 DEF Registry!Remove
<1> QED BY <1>2, <1>3, <1>9 DEF Registry!RegistryNext

(***************************************************************************)
(* The steps of the other threads.                                         *)
(***************************************************************************)

\* The master's first step forgets what was watched; it takes it once.
LEMMA MasterStartMaps ==
  ASSUME OneDoor, MappedInv, MasterStart
  PROVE  Registry!BeginSelecting
<1>0. TypeInv BY DEF MappedInv, RegistryInv
<1>1. /\ UNCHANGED <<obj, list, door, poll, fdSources>>
      /\ master.at = "start" /\ toWatch' = {}
  BY DEF MasterStart, MasterGoto, MasterAt
<1>2. master'.at = "loop"
  <2>1. master \in Masters BY <1>0 DEF TypeInv, TypeOK
  <2> QED BY <2>1 DEF MasterStart, MasterGoto, Masters
<1>3. Kind' = Kind /\ Removals' = Removals /\ Removed' = Removed
  BY <1>1 DEF Kind, Removals, Wanted, Removed, BeingAdded, Linked
<1>4. ASSUME NEW s \in Srcs, IsPolled(s)
      PROVE  Kind[s] \in Names \X {"poll"}
  <2>1. Made(s) /\ obj[s].type = "poll" /\ obj[s].name \in Names
    BY <1>0, <1>4 DEF IsPolled, TypeInv, TypeOK, PollInv, ThreadInv, MappedInv, CancelInv,
         PollsOnly, Objects
  <2> QED BY <2>1 DEF Kind, Made
<1>5. ASSUME NEW fd \in toWatch PROVE Kind[fdSources[fd]] \notin Names \X {"poll"}
  <2>1. /\ fdSources[fd] \in Srcs /\ obj[fdSources[fd]].life = "live"
        /\ obj[fdSources[fd]].type = "flow"
    BY <1>0 DEF MappedInv, RegistryInv, WatchInv, IsFlowSourceOf, TypeInv, TypeOK
  <2> QED BY <2>1 DEF Kind
<1>6. Sampled' = {s \in Sampled : Kind[s] \in Names \X {"poll"}}
  <2>1. Sampled' = {s \in Srcs : IsPolled(s)} BY <1>1 DEF Sampled, IsPolled
  <2>2. {s \in Srcs : IsPolled(s)} = {s \in Sampled : Kind[s] \in Names \X {"poll"}}
    BY <1>4, <1>5 DEF Sampled
  <2> QED BY <2>1, <2>2
<1> QED BY <1>1, <1>2, <1>3, <1>6 DEF Registry!BeginSelecting

LEMMA MasterMaps ==
  ASSUME OneDoor, MappedInv, MasterStep, ~MasterStart
  PROVE  UNCHANGED Registry!rvars
<1>0. TypeInv /\ master \in Masters BY DEF MappedInv, RegistryInv, TypeInv, TypeOK
<1>1. UNCHANGED <<obj, list, door, poll, fdSources>> BY <1>0, MasterTypes
<1>2. UNCHANGED <<toWatch, (master.at # "start")>>
  BY <1>0 DEF MasterStep, MasterLoop, MasterLock, SelectFails, SelectTimesOut, SelectReady,
       ReadFd, ScanDone, MasterWakes, MasterGoto, MasterAt, Masters, regVars
<1>3. Kind' = Kind /\ Removals' = Removals /\ Removed' = Removed /\ Sampled' = Sampled
  BY <1>1, <1>2 DEF Kind, Removals, Wanted, Removed, BeingAdded, Linked, Sampled, IsPolled
<1> QED BY <1>1, <1>2, <1>3 DEF Registry!rvars

LEMMA OthersMap ==
  ASSUME MappedInv, (\E s \in Srcs : PollStep(s)) \/ Fault \/ UNCHANGED vars
  PROVE  UNCHANGED Registry!rvars
<1>0. TypeInv BY DEF MappedInv, RegistryInv
<1>1. UNCHANGED <<obj, list, door, fdSources, toWatch, master>>
      /\ \A s \in Srcs : IsPolled(s)' = IsPolled(s)
  <2>1. CASE \E s \in Srcs : PollStep(s) BY <1>0, <2>1, PollStepIs, PollsStay
  <2>2. CASE Fault \/ UNCHANGED vars BY <2>2 DEF Fault, vars, regVars, IsPolled
  <2> QED BY <2>1, <2>2
<1>2. Kind' = Kind /\ Removals' = Removals /\ Removed' = Removed
  BY <1>1 DEF Kind, Removals, Wanted, Removed, BeingAdded, Linked
<1>3. Sampled' = Sampled BY <1>1, SampledKept
<1> QED BY <1>1, <1>2, <1>3 DEF Registry!rvars

\* Every step of the daemon's threads is a step of the registry, or shows nothing.
LEMMA StepMaps ==
  ASSUME OneDoor, MappedInv, [Next]_vars
  PROVE  [Registry!RegistryNext]_(Registry!rvars)
<1>1. ASSUME NEW d \in DoorThreads, DoorStep(d)
      PROVE  Registry!RegistryNext \/ UNCHANGED Registry!rvars
  <2>1. CASE RequestAdd(d) \/ NextZone(d) BY <2>1, MakeMaps DEF Registry!RegistryNext
  <2>2. CASE WatchFd(d) \/ SpawnPollThread(d) \/ InsertSource(d)
    <3>1. door[d].src \in Srcs
      BY <2>2, AddedIsNew DEF WatchFd, SpawnPollThread, InsertSource, Adding
    <3> QED BY <2>2, <3>1, WatchFdMaps, SpawnMaps, InsertMaps DEF Registry!RegistryNext
  <2>3. CASE RequestRemoval(d) \/ RequestShow(d)
    BY <2>3, RequestMaps DEF Registry!RegistryNext
  <2>4. CASE RemovalStep(d) \/ ShowStep(d) BY <2>4, WalkMaps
  <2>5. CASE StopSource(d) \/ UnwatchFd(d) BY <2>5, StopSourceMaps, UnwatchFdMaps
  <2>6. CASE CloseFd(d) \/ FreeSource(d) BY <2>6, FreeMaps
  <2>7. CASE UnlinkNode(d) BY <2>7, UnlinkMaps
  <2> QED BY <1>1, <2>1, <2>2, <2>3, <2>4, <2>5, <2>6, <2>7 DEF DoorStep, DoorContinue
<1>2. CASE MasterStep BY <1>2, MasterStartMaps, MasterMaps DEF Registry!RegistryNext
<1>3. CASE (\E s \in Srcs : PollStep(s)) \/ Fault \/ UNCHANGED vars BY <1>3, OthersMap
<1> QED BY <1>1, <1>2, <1>3 DEF Next

\* The threads, objects and descriptors implement the registry its callers see: a source
\* is registered once and behind the others, only what a request wants is removed, and
\* no sample is begun of what was (sflow_source.c:128-186, 440-567).
THEOREM RegistryIsRefined ==
  ASSUME OneDoor
  PROVE  Spec => RegistryRefined
<1>1. Init => Registry!RegistryInit
  <2> SUFFICES ASSUME Init PROVE Registry!RegistryInit OBVIOUS
  <2>1. \A s \in Srcs : obj[s].life = "none" BY DEF Init, Unborn
  <2>2. Kind = [s \in Srcs |-> Registry!Unmade] BY <2>1 DEF Kind, Registry!Unmade
  <2>3. list = <<>> /\ Removed = {} BY <2>1 DEF Init, Removed
  <2>4. Sampled = {} BY DEF Init, Sampled, IsPolled
  <2>5. Removals = {} BY DEF Init, Removals, InRemoval
  <2> QED BY <2>2, <2>3, <2>4, <2>5 DEF Init, Registry!RegistryInit
<1>2. MappedInv /\ [Next]_vars => [Registry!RegistryNext]_(Registry!rvars)
  BY StepMaps
<1> QED BY <1>1, <1>2, MappedInit, MappedNext, PTL DEF Spec, Registry!RegistrySpec, RegistryRefined

================================================================================
