------------------------------- MODULE SflowDaemon -------------------------------
(***************************************************************************)
(* The life of the daemon's process around SflowSources: the service       *)
(* manager starts sflowd, whose parent process waits on a pipe for the     *)
(* child's answer (sflowd_daemonize, main), the child initialises its      *)
(* parts one by one and attaches its door (sflowd_init, sflow_open_door),  *)
(* serves, and dies of a signal, of a fault or of a failed start.  The     *)
(* door file outlives it.                                                  *)
(*                                                                         *)
(* `up' is the child process.  sflowd -f, which has no parent to inform,   *)
(* is left out.                                                            *)
(***************************************************************************)
EXTENDS SflowSources

VARIABLES
  service,    \* the service's state, as the service manager sees it
  parent,     \* the parent: its next step, or the status it has exited with
  main,       \* the child's main thread: its next step
  sig,        \* the signal thread
  term,       \* a terminating signal is pending
  pipe,       \* sflow_pfds: what is written and not read,
  readers,    \* who has not closed the reading end,
  writers,    \* and the writing end
  doorFile,   \* what is attached to SFLOW_DOOR: nothing, this process's door, or
              \* that of a process before it
  masterMade, \* the master thread has been created
  disturbed   \* ghost: this start has met a failed system call, or a signal

pipeVars == <<pipe, readers, writers>>
lifeVars == <<service, parent, main, sig, term, pipeVars, doorFile, masterMade, disturbed>>
sourceVars == vars
daemonVars == <<sourceVars, lifeVars>>

Statuses == {"ok", "failed"}

DaemonInit ==
  /\ Init
  /\ service = "starting" /\ parent = "close" /\ main = "detach"
  /\ sig = "none" /\ term = FALSE
  /\ pipe = <<>>
  /\ readers = {"parent", "child"} /\ writers = {"parent", "child"}
  /\ doorFile = "none"
  /\ masterMade = FALSE /\ disturbed = FALSE

(***************************************************************************)
(* The service manager.                                                    *)
(***************************************************************************)

\* A new process finds its variables as Init says; a dead one has lost them.
FreshMemory ==
  /\ obj' = [s \in Srcs |-> Unborn]
  /\ list' = <<>>
  /\ toWatch' = {} /\ maxfd' = -1
  /\ fdSources' = [fd \in FDs |-> NULL]
  /\ openFds' = {} /\ inter' = NULL
  /\ door' = [d \in DoorThreads |-> [at |-> "idle", src |-> NULL, pre |-> NULL,
               used |-> NoRequest, zones |-> 0]]
  /\ master' = [at |-> "start", toRead |-> {}]
  /\ poll' = [s \in Srcs |-> [at |-> "none", cancel |-> FALSE, enabled |-> TRUE]]
NewProcess == ~up /\ up' = TRUE /\ FreshMemory
EndProcess == up /\ up' = FALSE /\ FreshMemory

\* The method of the service runs sflowd when no process of it is left: pipe and fork
\* succeed.
StartDaemon ==
  /\ service = "offline"
  /\ service' = "starting" /\ parent' = "close" /\ main' = "detach"
  /\ sig' = "none" /\ term' = FALSE
  /\ pipe' = <<>>
  /\ readers' = {"parent", "child"} /\ writers' = {"parent", "child"}
  /\ doorFile' = IF doorFile = "none" THEN "none" ELSE "old"
  /\ masterMade' = FALSE /\ disturbed' = FALSE
  /\ NewProcess

\* One of them fails: the parent exits, and SMF_EXIT_ERR_FATAL means maintenance.
StartFails ==
  /\ service = "offline" /\ ~up
  /\ service' = "maintenance" /\ parent' = "failed" /\ disturbed' = TRUE
  /\ UNCHANGED <<sourceVars, main, sig, term, pipeVars, doorFile, masterMade>>

\* The service manager restarts a service whose processes have all died,
Respawn ==
  /\ service = "online" /\ ~up
  /\ service' = "offline"
  /\ UNCHANGED <<sourceVars, parent, main, sig, term, pipeVars, doorFile, masterMade, disturbed>>

\* and one in maintenance when an administrator says so (bound: not while a process of
\* it is left, so there are never two daemons: one that has outlived its failed start
\* keeps the service in maintenance until it dies).
Clear ==
  /\ service = "maintenance" /\ ~up
  /\ service' = "offline"
  /\ UNCHANGED <<sourceVars, parent, main, sig, term, pipeVars, doorFile, masterMade, disturbed>>

(***************************************************************************)
(* The parent process (sflowd_daemonize).                                  *)
(***************************************************************************)

ParentLives == parent \in {"close", "read", "kill", "exit_ok", "exit_failed"}
\* The child has written that it is up.
Answered == main \in {"close_ok", "pause"}
Alive(p) == IF p = "parent" THEN ParentLives ELSE up

\* svc-sflowd exits with the status of its sflowd.
ParentExits(status) ==
  /\ parent' = status
  /\ service' = IF status = "ok" THEN "online" ELSE "maintenance"

\* Mutant of ParentCloses: its own writing end stays open.
ParentClosesNot ==
  /\ parent = "close"
  /\ parent' = "read"
  /\ UNCHANGED <<sourceVars, service, main, sig, term, pipeVars, doorFile, masterMade, disturbed>>

ParentCloses ==
  /\ parent = "close"
  /\ parent' = "read"
  /\ writers' = writers \ {"parent"}
  /\ UNCHANGED <<sourceVars, service, main, sig, term, pipe, readers, doorFile, masterMade,
                 disturbed>>

ParentReads ==
  /\ parent = "read" /\ pipe # <<>>
  /\ parent' = IF Head(pipe) = "ok" THEN "exit_ok" ELSE "exit_failed"
  /\ pipe' = <<>>
  /\ UNCHANGED <<sourceVars, service, main, sig, term, readers, writers, doorFile, masterMade,
                 disturbed>>

\* read returns 0: nobody can write any more.
ParentReadsEnd ==
  /\ parent = "read" /\ pipe = <<>>
  /\ \A p \in writers : ~Alive(p)
  /\ parent' = "kill"
  /\ UNCHANGED <<sourceVars, service, main, sig, term, pipeVars, doorFile, masterMade, disturbed>>

ParentKills ==
  /\ parent = "kill"
  /\ EndProcess \/ (~up /\ UNCHANGED sourceVars)
  /\ parent' = "exit_failed"
  /\ UNCHANGED <<service, main, sig, term, pipeVars, doorFile, masterMade, disturbed>>

ParentExit ==
  /\ \/ parent = "exit_ok" /\ ParentExits("ok")
     \/ parent = "exit_failed" /\ ParentExits("failed")
  /\ UNCHANGED <<sourceVars, main, sig, term, pipeVars, doorFile, masterMade, disturbed>>

\* A signal kills the parent, at any step: also when the child's answer is in the pipe,
\* or read and not passed on.
ParentDies ==
  /\ ParentLives
  /\ ParentExits("failed")
  /\ disturbed' = (disturbed \/ ~Answered)
  /\ UNCHANGED <<sourceVars, main, sig, term, pipeVars, doorFile, masterMade>>

(***************************************************************************)
(* The child's main thread.                                                *)
(***************************************************************************)

MainGoto(from, to) ==
  /\ up /\ main = from
  /\ main' = to
  /\ UNCHANGED <<sourceVars, service, parent, term>>

\* A step that the system may refuse: the child will report a failure.
Refused(from) ==
  /\ MainGoto(from, "report_failed")
  /\ disturbed' = TRUE
  /\ UNCHANGED <<sig, pipeVars, doorFile, masterMade>>

\* Mutant of Detach: fdwalk spares both ends of the pipe.
DetachKeepsPipe ==
  /\ MainGoto("detach", "mask")
  /\ UNCHANGED <<sig, pipeVars, doorFile, masterMade, disturbed>>

\* setsid, and closefunc on all descriptors but sflow_pfds[1].
Detach ==
  /\ MainGoto("detach", "mask")
  /\ readers' = readers \ {"child"}
  /\ UNCHANGED <<sig, pipe, writers, doorFile, masterMade, disturbed>>

\* sflowd_init_signal_handling blocks all signals, and creates the signal thread.
MaskSignals ==
  /\ MainGoto("mask", "sigthread")
  /\ UNCHANGED <<sig, pipeVars, doorFile, masterMade, disturbed>>

CreateSignalThread ==
  \/ /\ MainGoto("sigthread", "sender")
     /\ sig' = "wait"
     /\ UNCHANGED <<pipeVars, doorFile, masterMade, disturbed>>
  \/ Refused("sigthread")

\* sflow_init_data and sflow_init_sender, which tests for a negative socket.
InitSender ==
  \/ /\ MainGoto("sender", "threads")
     /\ UNCHANGED <<sig, pipeVars, doorFile, masterMade, disturbed>>
  \/ Refused("sender")

\* sflow_get_agent_ip finds no address: assert(0), or exit(-1).
NoAgentAddress ==
  /\ main = "sender"
  /\ EndProcess
  /\ disturbed' = TRUE
  /\ UNCHANGED <<service, parent, main, sig, term, pipeVars, doorFile, masterMade>>

\* sflow_init_threads: an error of pthread_create is positive, and passes for success.
InitThreads ==
  /\ MainGoto("threads", "door_file")
  /\ \E made \in BOOLEAN :
       masterMade' = made /\ disturbed' = (disturbed \/ ~made)
  /\ UNCHANGED <<sig, pipeVars, doorFile>>

\* sflow_open_door: open and door_create,
CreateDoor ==
  \/ /\ MainGoto("door_file", "door_detach")
     /\ UNCHANGED <<sig, pipeVars, doorFile, masterMade, disturbed>>
  \/ Refused("door_file")

\* Mutant of DetachDoor: whatever is attached stays.
DetachDoorNot ==
  /\ MainGoto("door_detach", "door_attach")
  /\ UNCHANGED <<sig, pipeVars, doorFile, masterMade, disturbed>>

\* "fdetach first in case a previous daemon instance exited ungracefully",
DetachDoor ==
  /\ MainGoto("door_detach", "door_attach")
  /\ doorFile' = "none"
  /\ UNCHANGED <<sig, pipeVars, masterMade, disturbed>>

\* Mutant of AttachDoor: errno is tested for a negative value, like the other errors.
AttachDoorUnchecked ==
  /\ MainGoto("door_attach", "report_ok")
  /\ \/ doorFile = "none" /\ doorFile' = "new" /\ UNCHANGED disturbed
     \/ disturbed' = TRUE /\ UNCHANGED doorFile
  /\ UNCHANGED <<sig, pipeVars, masterMade>>

\* and fattach, which refuses a file that has something attached, or fails otherwise:
\* main tests the errno it returns for zero.
AttachDoor ==
  \/ /\ MainGoto("door_attach", "report_ok")
     /\ doorFile = "none"
     /\ doorFile' = "new"
     /\ UNCHANGED <<sig, pipeVars, masterMade, disturbed>>
  \/ /\ MainGoto("door_attach", "report_failed")
     /\ disturbed' = (disturbed \/ doorFile = "none")
     /\ UNCHANGED <<sig, pipeVars, doorFile, masterMade>>

\* sflowd_inform_parent_exit.  All signals are blocked: a write that nobody can read
\* returns an error, and so does one to an end the signal thread has closed.
CanInform == "child" \in writers /\ \E p \in readers : Alive(p)

Inform ==
  /\ CanInform
  /\ \/ MainGoto("report_ok", "close_ok") /\ pipe' = <<"ok">> /\ disturbed' = FALSE
     \/ MainGoto("report_failed", "close_failed") /\ pipe' = <<"failed">> /\ UNCHANGED disturbed
  /\ UNCHANGED <<sig, readers, writers, doorFile, masterMade>>

Exits(from) ==
  /\ main \in from
  /\ EndProcess
  /\ UNCHANGED lifeVars

CannotInform == ~CanInform /\ Exits({"report_ok", "report_failed"})

CloseEnd ==
  /\ MainGoto("close_ok", "pause") \/ MainGoto("close_failed", "return")
  /\ writers' = writers \ {"child"}
  /\ UNCHANGED <<sig, pipe, readers, doorFile, masterMade, disturbed>>

\* "return from main() forcibly exits an MT process"
MainReturns == Exits({"return"})

(***************************************************************************)
(* Signals that end the daemon: the stop method's, or anybody's.           *)
(***************************************************************************)

\* Until main blocks them, they kill at once.
SignalUnblocked ==
  /\ main \in {"detach", "mask"}
  /\ EndProcess
  /\ disturbed' = TRUE
  /\ UNCHANGED <<service, parent, main, sig, term, pipeVars, doorFile, masterMade>>

\* then they are pending until there is a thread to take them.
SignalBlocked ==
  /\ up /\ main \notin {"detach", "mask"} /\ sig = "none"
  /\ term' = TRUE /\ disturbed' = TRUE
  /\ UNCHANGED <<sourceVars, service, parent, main, sig, pipeVars, doorFile, masterMade>>

\* sigwait returns, and sighandler's default branch closes the pipe,
TakeSignal ==
  /\ up /\ sig = "wait"
  /\ sig' = "exit" /\ term' = FALSE
  /\ disturbed' = (disturbed \/ ~Answered)
  /\ writers' = writers \ {"child"}
  /\ UNCHANGED <<sourceVars, service, parent, main, pipe, readers, doorFile, masterMade>>

\* and exits.
SignalExit ==
  /\ sig = "exit"
  /\ EndProcess
  /\ UNCHANGED lifeVars

(***************************************************************************)
(* The threads of SflowSources, each from when it exists.                  *)
(***************************************************************************)

ServeDoor(d) == doorFile = "new" /\ DoorStep(d) /\ UNCHANGED lifeVars
RunMaster == masterMade /\ MasterStep /\ UNCHANGED lifeVars
RunPoll(s) == PollStep(s) /\ UNCHANGED lifeVars
Crash == UsesFreed /\ EndProcess /\ UNCHANGED lifeVars

SmfStep == StartDaemon \/ StartFails \/ Respawn
ParentStep == ParentCloses \/ ParentReads \/ ParentReadsEnd \/ ParentKills \/ ParentExit
MainStep ==
  \/ Detach \/ MaskSignals \/ CreateSignalThread \/ InitSender \/ NoAgentAddress
  \/ InitThreads \/ CreateDoor \/ DetachDoor \/ AttachDoor
  \/ Inform \/ CannotInform \/ CloseEnd \/ MainReturns
SignalStep == (term /\ TakeSignal) \/ SignalExit

DaemonNext ==
  \/ SmfStep \/ Clear
  \/ ParentStep \/ ParentDies
  \/ MainStep
  \/ SignalUnblocked \/ SignalBlocked \/ TakeSignal \/ SignalExit
  \/ \E d \in DoorThreads : ServeDoor(d)
  \/ RunMaster
  \/ \E s \in Srcs : RunPoll(s)
  \/ Crash

\* Processes and threads run, and the service manager does its part; nobody has to
\* send a signal, make a door call or clear the maintenance state.
DaemonFairness ==
  /\ WF_daemonVars(SmfStep) /\ WF_daemonVars(ParentStep)
  /\ WF_daemonVars(MainStep) /\ WF_daemonVars(SignalStep)
  /\ \A d \in DoorThreads :
       /\ WF_daemonVars(DoorContinue(d) /\ UNCHANGED lifeVars)
       /\ SF_daemonVars(TakeWhileMasterSleeps(d) /\ UNCHANGED lifeVars)
  /\ WF_daemonVars(RunMaster)
  /\ \A s \in Srcs : WF_daemonVars(RunPoll(s))

DaemonSpec == DaemonInit /\ [][DaemonNext]_daemonVars /\ DaemonFairness

(***************************************************************************)
(* Properties.                                                             *)
(***************************************************************************)

LifeTypeOK ==
  /\ TypeOK
  /\ service \in {"offline", "starting", "online", "maintenance"}
  /\ parent \in {"close", "read", "kill", "exit_ok", "exit_failed"} \cup Statuses
  /\ main \in {"detach", "mask", "sigthread", "sender", "threads", "door_file",
               "door_detach", "door_attach", "report_ok", "report_failed",
               "close_ok", "close_failed", "pause", "return"}
  /\ sig \in {"none", "wait", "exit"} /\ term \in BOOLEAN
  /\ pipe \in Seq(Statuses) /\ Len(pipe) <= 1
  /\ readers \subseteq {"parent", "child"} /\ writers \subseteq {"parent", "child"}
  /\ doorFile \in {"none", "old", "new"}
  /\ masterMade \in BOOLEAN /\ disturbed \in BOOLEAN

\* The service is never online, nor about to be, with a running daemon that nobody can
\* call or stop: its own door is attached and its signal thread waits ("a false notion
\* to SMF that 'sflowd' is up and running, which is incorrect", sflow_driver.c:380-383).
OnlineIsServing ==
  (up /\ (service = "online" \/ pipe = <<"ok">> \/ parent = "exit_ok"))
    => doorFile = "new" /\ sig # "none"

\* A start that no refused call and no signal disturbs is not reported as failed, even
\* after a daemon that left its door attached (sflow_door.c:93-97).
FailureHasCause ==
  main \in {"report_failed", "close_failed", "return"} => disturbed

\* Every start is answered: whatever kills the child or the parent, and whenever, the
\* service leaves the starting state (sflow_driver.c:402-415).
StartIsAnswered == service = "starting" ~> service # "starting"

\* A failed start leaves a daemon running behind it only if that daemon had written that
\* it was up, and its parent was killed before it could pass that on: a child that
\* reports a failure, is killed by its parent, or has lost its parent before its answer,
\* ends (sflow_driver.c:356-361, 410, 477-481).
FailedStartLeavesNone ==
  (service = "maintenance" /\ ~Answered) ~> (~up \/ service # "maintenance")

================================================================================
