--------------------------- MODULE SflowDaemon_proofs ---------------------------
(***************************************************************************)
(* Proofs about SflowDaemon, for any number of door threads, sources and   *)
(* descriptors: type correctness, what a service that is online can be     *)
(* relied on for, and what a reported failure must have been caused by.    *)
(* They hold without the fairness of DaemonSpec.                           *)
(***************************************************************************)
EXTENDS SflowDaemon, SflowSources_proofs

USE SrcsAssumption, FDsAssumption, RequestsAssumption, NamesAssumption, NullAssumption

(***************************************************************************)
(* The registry, and its memory.                                           *)
(***************************************************************************)

\* The memory of a new process, and of one that has gone, is as Init says.
LEMMA FreshTypes ==
  ASSUME FreshMemory, up' \in BOOLEAN
  PROVE  TypeInv' /\ MaxInv'
<1>1. Unborn \in Objects BY DEF Unborn, Objects, Types
<1>2. Linked' = {} BY DEF FreshMemory, Linked
<1>3. TypeOK'
  BY <1>1 DEF FreshMemory, TypeOK, Doors, DoorSteps, Masters, Polls, PollSteps
<1>4. ObjectInv' /\ ListInv'
  BY <1>2 DEF FreshMemory, ObjectInv, ListInv, Made, Unborn
<1>5. DoorInv' BY DEF FreshMemory, DoorInv, OnSource
<1>6. PollInv' BY DEF FreshMemory, PollInv, ThreadInv, SpawnInv
<1>7. MaxInv' BY DEF FreshMemory, MaxInv
<1> QED BY <1>3, <1>4, <1>5, <1>6, <1>7 DEF TypeInv

\* Only a running process takes steps of SflowSources.
LEMMA StepsNeedProcess ==
  ASSUME \/ \E d \in DoorThreads : DoorStep(d)
         \/ MasterStep
         \/ \E s \in Srcs : PollStep(s)
  PROVE  up
<1>1. ASSUME NEW d \in DoorThreads, DoorStep(d) PROVE up
  BY <1>1 DEF DoorStep, DoorContinue, RequestAdd, RequestRemoval, RequestShow, NextZone, WatchFd,
     SpawnPollThread, InsertSource, RemovalStep, StopSource, UnwatchFd, CloseFd, FreeSource,
     UnlinkNode, ShowStep, At
<1>2. ASSUME MasterStep PROVE up
  BY <1>2 DEF MasterStep, MasterStart, MasterLoop, MasterLock, SelectFails, SelectTimesOut,
     SelectReady, ReadFd, ScanDone, MasterWakes, MasterGoto, MasterAt
<1>3. ASSUME NEW s \in Srcs, PollStep(s) PROVE up
  BY <1>3 DEF PollStep, PollStart, PollEnable, PollWakes, PollDisable, PollSample, PollCancelled,
     PollGoto
<1> QED BY <1>1, <1>2, <1>3

\* What a step of the daemon does to the registry: a step of its own, nothing, or the end
\* or the beginning of a process.
LEMMA SourceSteps ==
  ASSUME [DaemonNext]_daemonVars
  PROVE  [Next]_vars \/ (FreshMemory /\ up' \in BOOLEAN)
<1> USE DEF sourceVars, lifeVars, pipeVars
<1>1. CASE SmfStep \/ Clear
  BY <1>1 DEF SmfStep, Clear, StartDaemon, StartFails, Respawn, NewProcess
<1>2. CASE ParentStep \/ ParentDies
  BY <1>2 DEF ParentStep, ParentDies, ParentCloses, ParentReads, ParentReadsEnd, ParentKills,
     ParentExit, EndProcess
<1>3. CASE MainStep
  BY <1>3 DEF MainStep, Detach, MaskSignals, CreateSignalThread, InitSender, NoAgentAddress,
     InitThreads, CreateDoor, DetachDoor, AttachDoor, Inform, CannotInform, CloseEnd, MainReturns,
     MainGoto, Refused, Exits, EndProcess
<1>4. CASE SignalUnblocked \/ SignalBlocked \/ TakeSignal \/ SignalExit
  BY <1>4 DEF SignalUnblocked, SignalBlocked, TakeSignal, SignalExit, EndProcess
<1>5. CASE \/ \E d \in DoorThreads : ServeDoor(d)
           \/ RunMaster
           \/ \E s \in Srcs : RunPoll(s)
  BY <1>5 DEF ServeDoor, RunMaster, RunPoll, Next
<1>6. CASE Crash BY <1>6 DEF Crash, EndProcess
<1>7. CASE UNCHANGED daemonVars BY <1>7 DEF daemonVars
<1> QED BY <1>1, <1>2, <1>3, <1>4, <1>5, <1>6, <1>7 DEF DaemonNext

(***************************************************************************)
(* The life of the process.                                                *)
(***************************************************************************)

Mains == {"detach", "mask", "sigthread", "sender", "threads", "door_file", "door_detach",
          "door_attach", "report_ok", "report_failed", "close_ok", "close_failed", "pause",
          "return"}

LifeTypes ==
  /\ service \in {"offline", "starting", "online", "maintenance"}
  /\ parent \in {"close", "read", "kill", "exit_ok", "exit_failed"} \cup Statuses
  /\ main \in Mains
  /\ sig \in {"none", "wait", "exit"} /\ term \in BOOLEAN
  /\ pipe \in {<<>>, <<"ok">>, <<"failed">>}
  /\ readers \subseteq {"parent", "child"} /\ writers \subseteq {"parent", "child"}
  /\ doorFile \in {"none", "old", "new"}
  /\ masterMade \in BOOLEAN /\ disturbed \in BOOLEAN

\* The steps of main's start-up that come after the signal thread's creation has
\* succeeded, those after the door's attachment has, and those of a failed start.
Signalled == {"sender", "threads", "door_file", "door_detach", "door_attach", "report_ok",
              "close_ok", "pause"}
Attached == {"report_ok", "close_ok", "pause"}
Failed == {"report_failed", "close_failed", "return"}

StartInv ==
  /\ main \in Signalled => sig # "none"
  /\ main \in Attached => doorFile = "new"
  /\ main = "door_attach" => doorFile = "none"
  /\ up /\ (service = "online" \/ pipe = <<"ok">> \/ parent = "exit_ok") => Answered
  /\ main \in Failed => disturbed

LifeInv == LifeTypes /\ StartInv

LEMMA LifeInit == DaemonInit => LifeInv
<1>1. DaemonInit => LifeTypes BY DEF DaemonInit, LifeTypes, Mains
<1>2. DaemonInit => StartInv
  BY DEF DaemonInit, StartInv, Signalled, Attached, Answered, Failed
<1> QED BY <1>1, <1>2 DEF LifeInv

\* The child is at one of its start-up steps, which it takes one at a time.
LEMMA MainLife ==
  ASSUME LifeInv, MainStep
  PROVE  LifeInv'
<1> USE DEF LifeInv, LifeTypes, StartInv, Statuses, Mains, Signalled, Attached, Answered, Failed,
            MainGoto, pipeVars
<1>0. UNCHANGED sourceVars => up' = up BY DEF sourceVars, vars
<1>1. CASE Detach BY <1>0, <1>1 DEF Detach
<1>2. CASE MaskSignals BY <1>0, <1>2 DEF MaskSignals
<1>3. CASE CreateSignalThread
  <2>1. CASE Refused("sigthread") BY <1>0, <2>1 DEF Refused
  <2>2. CASE ~Refused("sigthread")
    <3>1. LifeTypes' BY <1>0, <1>3, <2>2, ZenonT(30) DEF CreateSignalThread, Refused
    <3>2. StartInv' BY <1>0, <1>3, <2>2 DEF CreateSignalThread, Refused
    <3> QED BY <3>1, <3>2
  <2> QED BY <2>1, <2>2
<1>4. CASE InitSender
  <2>1. CASE Refused("sender") BY <1>0, <2>1 DEF Refused
  <2>2. CASE ~Refused("sender")
    <3>1. LifeTypes' BY <1>0, <1>4, <2>2, ZenonT(30) DEF InitSender, Refused
    <3>2. StartInv' BY <1>0, <1>4, <2>2 DEF InitSender, Refused
    <3> QED BY <3>1, <3>2
  <2> QED BY <2>1, <2>2
<1>5. CASE NoAgentAddress BY <1>0, <1>5 DEF NoAgentAddress, EndProcess
<1>6. CASE InitThreads BY <1>0, <1>6 DEF InitThreads
<1>7. CASE CreateDoor
  <2>1. CASE Refused("door_file") BY <1>0, <2>1 DEF Refused
  <2>2. CASE ~Refused("door_file")
    <3>1. LifeTypes' BY <1>0, <1>7, <2>2, ZenonT(30) DEF CreateDoor, Refused
    <3>2. StartInv' BY <1>0, <1>7, <2>2 DEF CreateDoor, Refused
    <3> QED BY <3>1, <3>2
  <2> QED BY <2>1, <2>2
<1>8. CASE DetachDoor BY <1>0, <1>8 DEF DetachDoor
<1>9. CASE AttachDoor BY <1>0, <1>9, ZenonT(30) DEF AttachDoor
<1>10. CASE Inform
  <2>1. LifeTypes' BY <1>0, <1>10 DEF Inform
  <2>2. StartInv' BY <1>0, <1>10 DEF Inform
  <2> QED BY <2>1, <2>2
<1>11. CASE CannotInform BY <1>0, <1>11 DEF CannotInform, Exits, EndProcess, lifeVars
<1>12. CASE CloseEnd BY <1>0, <1>12 DEF CloseEnd
<1>13. CASE MainReturns BY <1>0, <1>13 DEF MainReturns, Exits, EndProcess, lifeVars
<1> QED
  BY <1>1, <1>2, <1>3, <1>4, <1>5, <1>6, <1>7, <1>8, <1>9, <1>10, <1>11, <1>12, <1>13 DEF MainStep

\* The parent, the service manager and the signal thread around it.
LEMMA AroundLife ==
  ASSUME LifeInv,
         \/ SmfStep \/ Clear \/ ParentStep \/ ParentDies
         \/ SignalUnblocked \/ SignalBlocked \/ TakeSignal \/ SignalExit
  PROVE  LifeInv'
<1> USE DEF LifeInv, LifeTypes, StartInv, Statuses, Mains, Signalled, Attached, Answered, Failed,
            pipeVars
<1>0. UNCHANGED sourceVars => up' = up BY DEF sourceVars, vars
<1>1. CASE StartDaemon BY <1>0, <1>1 DEF StartDaemon, NewProcess
<1>2. CASE StartFails BY <1>0, <1>2 DEF StartFails
<1>3. CASE Respawn BY <1>0, <1>3 DEF Respawn
<1>4. CASE Clear BY <1>0, <1>4 DEF Clear
<1>5. CASE ParentCloses BY <1>0, <1>5 DEF ParentCloses
<1>6. CASE ParentReads BY <1>0, <1>6 DEF ParentReads
<1>7. CASE ParentReadsEnd BY <1>0, <1>7 DEF ParentReadsEnd
<1>8. CASE ParentKills BY <1>0, <1>8 DEF ParentKills, EndProcess
<1>9. CASE ParentDies BY <1>0, <1>9 DEF ParentDies, ParentExits
<1>10. CASE ParentExit BY <1>0, <1>10 DEF ParentExit, ParentExits
<1>11. CASE SignalUnblocked BY <1>0, <1>11 DEF SignalUnblocked, EndProcess
<1>12. CASE SignalBlocked BY <1>0, <1>12 DEF SignalBlocked
<1>13. CASE TakeSignal
  <2>1. LifeTypes' BY <1>13, ZenonT(30) DEF TakeSignal
  <2>2. StartInv' BY <1>0, <1>13 DEF TakeSignal
  <2> QED BY <2>1, <2>2
<1>14. CASE SignalExit BY <1>0, <1>14 DEF SignalExit, EndProcess, lifeVars
<1> QED
  BY <1>1, <1>2, <1>3, <1>4, <1>5, <1>6, <1>7, <1>8, <1>9, <1>10, <1>11, <1>12, <1>13, <1>14
  DEF SmfStep, ParentStep

LEMMA LifeNext == LifeInv /\ [DaemonNext]_daemonVars => LifeInv'
<1> SUFFICES ASSUME LifeInv, [DaemonNext]_daemonVars PROVE LifeInv' OBVIOUS
<1>1. CASE MainStep BY <1>1, MainLife
<1>2. CASE \/ SmfStep \/ Clear \/ ParentStep \/ ParentDies
           \/ SignalUnblocked \/ SignalBlocked \/ TakeSignal \/ SignalExit
  BY <1>2, AroundLife
<1>3. CASE UNCHANGED lifeVars /\ (up' => up)
  BY <1>3 DEF lifeVars, pipeVars, LifeInv, LifeTypes, StartInv, Answered
<1>4. CASE \/ \E d \in DoorThreads : ServeDoor(d)
           \/ RunMaster
           \/ \E s \in Srcs : RunPoll(s)
  BY <1>3, <1>4, StepsNeedProcess DEF ServeDoor, RunMaster, RunPoll
<1>5. CASE Crash BY <1>3, <1>5 DEF Crash, EndProcess
<1>6. CASE UNCHANGED daemonVars
  <2>1. UNCHANGED sourceVars /\ UNCHANGED lifeVars BY <1>6 DEF daemonVars
  <2>2. up' = up BY <2>1 DEF sourceVars, vars
  <2> QED BY <1>3, <2>1, <2>2
<1> QED BY <1>1, <1>2, <1>4, <1>5, <1>6 DEF DaemonNext

(***************************************************************************)
(* What follows.                                                           *)
(***************************************************************************)

\* The registry's types survive the daemon's restarts.
THEOREM LifeTypeCorrect == DaemonSpec => []LifeTypeOK
<1>1. DaemonInit => TypeInv /\ MaxInv
  BY TypeInit DEF DaemonInit, Init, MaxInv
<1>2. TypeInv /\ MaxInv /\ [DaemonNext]_daemonVars => TypeInv' /\ MaxInv'
  BY SourceSteps, FreshTypes, TypeNext
<1>3. TypeInv /\ LifeInv => LifeTypeOK
  <2> SUFFICES ASSUME TypeInv, LifeInv PROVE LifeTypeOK OBVIOUS
  <2>1. TypeOK BY DEF TypeInv
  <2>2. LifeTypes BY DEF LifeInv
  <2>3. <<>> \in Seq(Statuses) /\ Len(<<>>) <= 1 OBVIOUS
  <2>4. <<"ok">> \in Seq(Statuses) /\ Len(<<"ok">>) <= 1 BY DEF Statuses
  <2>5. <<"failed">> \in Seq(Statuses) /\ Len(<<"failed">>) <= 1 BY DEF Statuses
  <2>6. pipe \in Seq(Statuses) /\ Len(pipe) <= 1 BY <2>2, <2>3, <2>4, <2>5 DEF LifeTypes
  <2> QED BY <2>1, <2>2, <2>6 DEF LifeTypes, LifeTypeOK, Mains
<1> QED BY <1>1, <1>2, <1>3, LifeInit, LifeNext, PTL DEF DaemonSpec

\* A service that is online, or about to be, has a running daemon only if that daemon's own
\* door is attached and its signal thread exists (sflow_driver.c:380-383).
THEOREM OnlineIsServingHolds == DaemonSpec => []OnlineIsServing
<1>1. LifeInv => OnlineIsServing
  BY DEF LifeInv, StartInv, OnlineIsServing, Answered, Attached, Signalled
<1> QED BY <1>1, LifeInit, LifeNext, PTL DEF DaemonSpec

\* A start fails for a reason: a refused system call, or a signal.
THEOREM FailureHasCauseHolds == DaemonSpec => []FailureHasCause
<1>1. LifeInv => FailureHasCause
  BY DEF LifeInv, StartInv, FailureHasCause, Failed
<1> QED BY <1>1, LifeInit, LifeNext, PTL DEF DaemonSpec

================================================================================
