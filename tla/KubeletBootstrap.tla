-------------------------- MODULE KubeletBootstrap --------------------------
(***************************************************************************)
(* wmcb, the Windows Machine Config Bootstrapper: the commands             *)
(* initialize-kubelet and configure-cni (cmd/bootstrapper) as they act,    *)
(* call by call, on the Windows services (pkg/bootstrapper/bootstrapper.go *)
(* and kubelet.go).  Each process in Processes is one wmcb process at a    *)
(* time; when it exits, the operator may run wmcb in its place again.      *)
(*                                                                         *)
(* A label of pc names the next call the process makes.  Every call is one *)
(* step, because the services change state between any two of them.        *)
(***************************************************************************)
EXTENDS ServiceManager

CONSTANTS
  Commands,        \* the commands the operator runs
  PatientOperator  \* the operator lets the services settle before running wmcb

ASSUME OperatorAssumption ==
  /\ Commands \subseteq {"initialize-kubelet", "configure-cni"}
  /\ PatientOperator \in BOOLEAN

VARIABLES
  pc,       \* the next call of each process, or "idle"
  cmd,      \* the command a process runs, or last ran
  caller,   \* who called kubeletService.stop()
  deps,     \* whether kubeletService.dependents holds the overlay service
  conf,     \* the command line this run is about to register
  outcome   \* how the last command ended, as the operator sees it

wmcbVars == <<pc, cmd, caller, deps, conf, outcome>>
vars     == <<scmVars, wmcbVars>>

StopLabels  == {"stop", "stopOverlay", "stopOverlayCall", "awaitOverlay",
                "stopKubelet", "awaitKubelet"}
StartLabels == {"start", "startKubelet", "startOverlay", "startOverlayCall"}
InitLabels  == {"remove", "refreshManager", "reconnect", "files", "create",
                "setRecovery"}
CNILabels   == {"readConfig", "configureCNI", "updateConfig"}
Labels      == {"idle", "report"} \cup StopLabels \cup StartLabels
                 \cup InitLabels \cup CNILabels

TypeOK ==
  /\ SCMTypeOK
  /\ pc \in [Processes -> Labels]
  /\ cmd \in [Processes -> {"initialize-kubelet", "configure-cni"}]
  /\ caller \in [Processes -> {"Configure", "refresh", "stopAndRemove"}]
  /\ deps \in [Processes -> BOOLEAN]
  /\ conf \in [Processes -> CommandLine \cup {NoCommand}]
  /\ outcome \in [Processes -> {"none", "success", "error", "killed"}]

Init ==
  /\ SCMInit
  /\ pc = [p \in Processes |-> "idle"]
  /\ cmd = [p \in Processes |-> "initialize-kubelet"]
  /\ caller = [p \in Processes |-> "stopAndRemove"]
  /\ deps = [p \in Processes |-> FALSE]
  /\ conf = [p \in Processes |-> NoCommand]
  /\ outcome = [p \in Processes |-> "none"]

-----------------------------------------------------------------------------
(* Control flow *)

Goto(p, label) == pc' = [pc EXCEPT ![p] = label]

\* The process ends: whatever it had open is closed by Disconnect or by Windows.
Exit(p, result) ==
  /\ Goto(p, "idle")
  /\ outcome' = [outcome EXCEPT ![p] = result]
  /\ handles' = handles \ {p}
  /\ deps' = [deps EXCEPT ![p] = FALSE]
  /\ conf' = [conf EXCEPT ![p] = NoCommand]
  /\ caller' = [caller EXCEPT ![p] = "stopAndRemove"]
  /\ UNCHANGED cmd

\* Goes on at a label, having changed nothing the process remembers.
Continue(p, label) ==
  /\ Goto(p, label)
  /\ UNCHANGED <<cmd, caller, deps, conf, outcome, handles>>

\* stop() returned nil: each caller goes on with its next statement.
AfterStop(p) ==
  CASE caller[p] = "Configure"     -> "readConfig"
    [] caller[p] = "refresh"       -> "updateConfig"
    [] caller[p] = "stopAndRemove" -> "remove"

\* stop() returned an error: stopAndRemove does not look at it.
StopFails(p) ==
  IF caller[p] = "stopAndRemove" THEN Continue(p, "remove") ELSE Exit(p, "error")

\* What an impatient operator does not wait for.
Settled == kubelet \in {"Stopped", "Running"} /\ overlay # "StartPending" /\ ~restartDue

-----------------------------------------------------------------------------
(* NewWinNodeBootstrapper: the kubelet and its dependent are looked up once. *)

\* Defective variant: the handle is closed again after the look-up.
OpenServicesUnheld(p, c) ==
  /\ Registered
  /\ deps' = [deps EXCEPT ![p] = (overlay # "Absent")]
  /\ caller' = [caller EXCEPT ![p] = IF c = "configure-cni" THEN "Configure"
                                                            ELSE "stopAndRemove"]
  /\ Goto(p, "stop")
  /\ outcome' = [outcome EXCEPT ![p] = "none"]
  /\ UNCHANGED <<handles, conf, faults>>

\* wmcb finds a kubelet service.  Failing to open the dependent goes unnoticed.
OpenServices(p, c) ==
  /\ Registered
  /\ handles' = handles \cup {p}
  /\ \/ deps' = [deps EXCEPT ![p] = (overlay # "Absent")] /\ UNCHANGED faults
     \/ deps' = [deps EXCEPT ![p] = FALSE] /\ Fault("api")
  /\ caller' = [caller EXCEPT ![p] = IF c = "configure-cni" THEN "Configure"
                                                            ELSE "stopAndRemove"]
  /\ Goto(p, "stop")
  /\ outcome' = [outcome EXCEPT ![p] = "none"]
  /\ UNCHANGED conf

\* wmcb finds none, or cannot open it, which it takes to mean the same:
\* initialize-kubelet goes on, configure-cni refuses.
NoService(p, c) ==
  /\ \/ ~Registered /\ UNCHANGED faults
     \/ Registered /\ Fault("api")
  /\ Goto(p, IF c = "configure-cni" THEN "idle" ELSE "files")
  /\ outcome' = [outcome EXCEPT ![p] = IF c = "configure-cni" THEN "error" ELSE "none"]
  /\ UNCHANGED <<handles, deps, caller, conf>>

\* The inputs are rejected or the SCM is out of reach.
NoBootstrapper(p) ==
  /\ Fault("api")
  /\ outcome' = [outcome EXCEPT ![p] = "error"]
  /\ UNCHANGED <<pc, handles, deps, caller, conf>>

NewWinNodeBootstrapper(p) ==
  /\ pc[p] = "idle"
  /\ PatientOperator => Settled
  /\ \E c \in Commands :
       /\ cmd' = [cmd EXCEPT ![p] = c]
       /\ OpenServices(p, c) \/ NoService(p, c) \/ NoBootstrapper(p)
  /\ UNCHANGED <<registration, services>>

-----------------------------------------------------------------------------
(* kubeletService.stop() *)

\* Defective variant: the comparison of isRunning is inverted.
StopQueryInverted(p) ==
  /\ pc[p] = "stop"
  /\ Continue(p, IF kubelet = "Running" THEN AfterStop(p)
                 ELSE IF deps[p] THEN "stopOverlay" ELSE "stopKubelet")
  /\ UNCHANGED <<registration, services, faults>>

\* Defective variant: to stop a service that does not run is an error.
StopQueryRefused(p) ==
  /\ pc[p] = "stop"
  /\ IF kubelet # "Running" THEN StopFails(p)
     ELSE Continue(p, IF deps[p] THEN "stopOverlay" ELSE "stopKubelet")
  /\ UNCHANGED <<registration, services, faults>>

\* Only a service that is Running is stopped; any other state is taken for stopped.
StopQuery(p) ==
  /\ pc[p] = "stop"
  /\ Continue(p, IF kubelet # "Running" THEN AfterStop(p)
                 ELSE IF deps[p] THEN "stopOverlay" ELSE "stopKubelet")
  /\ UNCHANGED <<registration, services, faults>>

StopOverlayQuery(p) ==
  /\ pc[p] = "stopOverlay"
  /\ Continue(p, IF overlay = "Running" THEN "stopOverlayCall" ELSE "stopKubelet")
  /\ UNCHANGED <<registration, services, faults>>

StopOverlayCall(p) ==
  /\ pc[p] = "stopOverlayCall"
  /\ IF overlay = "Running"
       THEN Continue(p, "awaitOverlay") /\ overlay' = "StopPending"
       ELSE StopFails(p) /\ UNCHANGED overlay
  /\ UNCHANGED <<registration, kubelet, proc, restartDue, faults>>

AwaitOverlay(p) ==
  /\ pc[p] = "awaitOverlay"
  /\ overlay = "Stopped"
  /\ Continue(p, "stopKubelet")
  /\ UNCHANGED <<registration, services, faults>>

StopKubelet(p) ==
  /\ pc[p] = "stopKubelet"
  /\ IF CanStopKubelet
       THEN Continue(p, "awaitKubelet") /\ kubelet' = "StopPending"
       ELSE StopFails(p) /\ UNCHANGED kubelet
  /\ UNCHANGED <<registration, proc, overlay, restartDue, faults>>

AwaitKubelet(p) ==
  /\ pc[p] = "awaitKubelet"
  /\ kubelet = "Stopped"
  /\ Continue(p, AfterStop(p))
  /\ UNCHANGED <<registration, services, faults>>

\* Defective variant: when the time is over, the wait starts again.
StopWaitsAgain(p) ==
  /\ pc[p] \in {"awaitOverlay", "awaitKubelet"}
  /\ "timeout" \in FaultKinds
  /\ UNCHANGED vars

\* serviceWaitTime is over before the service is Stopped.
StopTimesOut(p) ==
  /\ pc[p] \in {"awaitOverlay", "awaitKubelet"}
  /\ "timeout" \in FaultKinds
  /\ StopFails(p)
  /\ UNCHANGED <<registration, services, faults>>

-----------------------------------------------------------------------------
(* kubeletService.start() *)

StartQuery(p) ==
  /\ pc[p] = "start"
  /\ Continue(p, IF kubelet = "Running" THEN "report" ELSE "startKubelet")
  /\ UNCHANGED <<registration, services, faults>>

\* Defective variant: the dependents are not started after the kubelet.
StartKubeletAlone(p) ==
  /\ pc[p] = "startKubelet"
  /\ IF CanStartKubelet
       THEN LaunchKubelet /\ Continue(p, "report")
       ELSE Exit(p, "error") /\ UNCHANGED <<kubelet, proc>>
  /\ UNCHANGED <<registration, overlay, restartDue, faults>>

StartKubelet(p) ==
  /\ pc[p] = "startKubelet"
  /\ IF CanStartKubelet
       THEN LaunchKubelet /\ Continue(p, IF deps[p] THEN "startOverlay" ELSE "report")
       ELSE Exit(p, "error") /\ UNCHANGED <<kubelet, proc>>
  /\ UNCHANGED <<registration, overlay, restartDue, faults>>

StartOverlayQuery(p) ==
  /\ pc[p] = "startOverlay"
  /\ Continue(p, IF overlay = "Running" THEN "report" ELSE "startOverlayCall")
  /\ UNCHANGED <<registration, services, faults>>

\* Starting the dependent makes the SCM start a kubelet that is down.
StartOverlayCall(p) ==
  /\ pc[p] = "startOverlayCall"
  /\ IF overlay = "Stopped" /\ (kubelet = "Stopped" => CanStartKubelet)
       THEN /\ Continue(p, "report")
            /\ overlay' = "StartPending"
            /\ IF kubelet = "Stopped" THEN LaunchKubelet ELSE UNCHANGED <<kubelet, proc>>
       ELSE Exit(p, "error") /\ UNCHANGED <<kubelet, proc, overlay>>
  /\ UNCHANGED <<registration, restartDue, faults>>

-----------------------------------------------------------------------------
(* InitializeKubelet *)

\* Delete fails on a registration that is already marked.
Remove(p) ==
  /\ pc[p] = "remove"
  /\ IF marked THEN Exit(p, "error") /\ UNCHANGED marked
               ELSE Continue(p, "refreshManager") /\ marked' = TRUE
  /\ UNCHANGED <<image, recovery, services, faults>>

\* Disconnect, the first half of refreshServiceManager.
RefreshManager(p) ==
  /\ pc[p] = "refreshManager"
  /\ handles' = handles \ {p}
  /\ Goto(p, "reconnect")
  /\ UNCHANGED <<registration, services, faults, cmd, caller, deps, conf, outcome>>

\* serviceWaitTime is enough for the SCM to drop what it can drop.
Reconnect(p) ==
  /\ pc[p] = "reconnect"
  /\ ~CanReap
  /\ Continue(p, "files")
  /\ UNCHANGED <<registration, services, faults>>

\* kubelet.exe cannot be overwritten while it runs.  The ignition file decides
\* the base command line.
InitializeKubeletFiles(p) ==
  /\ pc[p] = "files"
  /\ IF proc # NoCommand
       THEN Exit(p, "error")
       ELSE /\ \E i \in Ignitions :
                 conf' = [conf EXCEPT ![p] = [ign |-> i, cni |-> FALSE]]
            /\ Goto(p, "create")
            /\ UNCHANGED <<cmd, caller, deps, outcome, handles>>
  /\ UNCHANGED <<registration, services, faults>>

\* Defective variant: an existing registration is taken over, not refused.
CreateServiceOver(p) ==
  /\ pc[p] = "create"
  /\ image' = conf[p]
  /\ marked' = FALSE
  /\ recovery' = FALSE
  /\ handles' = handles \cup {p}
  /\ Goto(p, "setRecovery")
  /\ UNCHANGED <<cmd, caller, deps, conf, outcome>>
  /\ UNCHANGED <<services, faults>>

\* CreateService fails while a registration of that name exists, marked or not.
CreateService(p) ==
  /\ pc[p] = "create"
  /\ IF Registered
       THEN Exit(p, "error") /\ UNCHANGED registration
       ELSE /\ image' = conf[p]
            /\ marked' = FALSE
            /\ recovery' = FALSE
            /\ handles' = handles \cup {p}
            /\ Goto(p, "setRecovery")
            /\ UNCHANGED <<cmd, caller, deps, conf, outcome>>
  /\ UNCHANGED <<services, faults>>

\* The rest of createKubeletService.  Again a dependent that cannot be opened
\* goes unnoticed.
SetRecoveryActions(p) ==
  /\ pc[p] = "setRecovery"
  /\ IF marked
       THEN Exit(p, "error") /\ UNCHANGED <<recovery, faults>>
       ELSE /\ \/ deps' = [deps EXCEPT ![p] = (overlay # "Absent")] /\ UNCHANGED faults
               \/ deps' = [deps EXCEPT ![p] = FALSE] /\ Fault("api")
            /\ recovery' = TRUE
            /\ Goto(p, "start")
            /\ UNCHANGED <<cmd, caller, conf, outcome, handles>>
  /\ UNCHANGED <<image, marked, services>>

-----------------------------------------------------------------------------
(* Configure *)

ReadConfig(p) ==
  /\ pc[p] = "readConfig"
  /\ conf' = [conf EXCEPT ![p] = image]
  /\ Goto(p, "configureCNI")
  /\ UNCHANGED <<registration, services, faults, cmd, caller, deps, outcome, handles>>

\* Defective variant: the options that are not about CNI are lost.
OnlyCNI(line) == [cni |-> TRUE]

\* The command line with the CNI options added or replaced.
WithCNI(line) == [line EXCEPT !.cni = TRUE]

\* cni.configure and the call of refresh.  A live kubelet may have the plugin
\* files open, and then they cannot be copied.
ConfigureCNI(p) ==
  /\ pc[p] = "configureCNI"
  /\ \/ proc # NoCommand /\ Exit(p, "error")
     \/ /\ conf' = [conf EXCEPT ![p] = WithCNI(conf[p])]
        /\ caller' = [caller EXCEPT ![p] = "refresh"]
        /\ Goto(p, "stop")
        /\ UNCHANGED <<cmd, deps, outcome, handles>>
  /\ UNCHANGED <<registration, services, faults>>

\* Defective variant: the service keeps the configuration it has.
UpdateNothing(p) ==
  /\ pc[p] = "updateConfig"
  /\ Continue(p, "start")
  /\ UNCHANGED <<registration, services, faults>>

\* Defective variant: refresh does not start the service again.
UpdateWithoutRestart(p) ==
  /\ pc[p] = "updateConfig"
  /\ image' = conf[p]
  /\ Continue(p, "report")
  /\ UNCHANGED <<marked, recovery, services, faults>>

\* ChangeServiceConfig fails on a marked service; the calls that UpdateConfig
\* makes after it may fail once the command line is already changed.
UpdateConfig(p) ==
  /\ pc[p] = "updateConfig"
  /\ \/ marked /\ Exit(p, "error") /\ UNCHANGED <<image, faults>>
     \/ ~marked /\ image' = conf[p] /\ Continue(p, "start") /\ UNCHANGED faults
     \/ ~marked /\ image' = conf[p] /\ Exit(p, "error") /\ Fault("api")
  /\ UNCHANGED <<marked, recovery, services>>

-----------------------------------------------------------------------------
(* How a command ends *)

\* The success message, then Disconnect, whose failure is only logged.
Report(p) ==
  /\ pc[p] = "report"
  /\ Exit(p, "success")
  /\ UNCHANGED <<registration, services, faults>>

\* Any call may fail without effect.
CallFails(p) ==
  /\ pc[p] \notin {"idle", "report"}
  /\ Fault("api")
  /\ IF pc[p] \in StopLabels THEN StopFails(p) ELSE Exit(p, "error")
  /\ UNCHANGED <<registration, services>>

\* The process is killed, or the session that runs it is cut.
Killed(p) ==
  /\ pc[p] # "idle"
  /\ Fault("kill")
  /\ Exit(p, "killed")
  /\ UNCHANGED <<registration, services>>

\* The host reboots, under every process that runs.
Reboot ==
  /\ SCMReboots
  /\ pc' = [p \in Processes |-> "idle"]
  /\ outcome' = [p \in Processes |-> IF pc[p] = "idle" THEN outcome[p] ELSE "killed"]
  /\ deps' = [p \in Processes |-> FALSE]
  /\ conf' = [p \in Processes |-> NoCommand]
  /\ caller' = [p \in Processes |-> "stopAndRemove"]
  /\ UNCHANGED cmd

-----------------------------------------------------------------------------

StopStep(p) ==
  \/ StopQuery(p)
  \/ StopOverlayQuery(p)
  \/ StopOverlayCall(p)
  \/ AwaitOverlay(p)
  \/ StopKubelet(p)
  \/ AwaitKubelet(p)
  \/ StopTimesOut(p)

StartStep(p) ==
  \/ StartQuery(p)
  \/ StartKubelet(p)
  \/ StartOverlayQuery(p)
  \/ StartOverlayCall(p)

InitializeStep(p) ==
  \/ Remove(p)
  \/ RefreshManager(p)
  \/ Reconnect(p)
  \/ InitializeKubeletFiles(p)
  \/ CreateService(p)
  \/ SetRecoveryActions(p)

ConfigureStep(p) ==
  \/ ReadConfig(p)
  \/ ConfigureCNI(p)
  \/ UpdateConfig(p)

\* What a wmcb process does once it runs, unless it is killed.
WMCBStep(p) ==
  \/ StopStep(p)
  \/ StartStep(p)
  \/ InitializeStep(p)
  \/ ConfigureStep(p)
  \/ Report(p)
  \/ CallFails(p)

SCMStep == SCMNext /\ UNCHANGED wmcbVars

Next ==
  \/ \E p \in Processes : NewWinNodeBootstrapper(p) \/ WMCBStep(p) \/ Killed(p)
  \/ SCMStep
  \/ Reboot

Spec == Init /\ [][Next]_vars

\* A wmcb process that runs keeps running, the SCM completes what is pending,
\* and the operator runs wmcb again in the end.
Fairness ==
  /\ SCMFairness
  /\ \A p \in Processes : WF_vars(WMCBStep(p)) /\ WF_vars(NewWinNodeBootstrapper(p))

FairSpec == Spec /\ Fairness

\* The operator comes back to either command, whatever became of the last one.
BothAgain ==
  \A p \in Processes, c \in Commands : SF_vars(NewWinNodeBootstrapper(p) /\ cmd'[p] = c)

BothFairSpec == FairSpec /\ BothAgain

-----------------------------------------------------------------------------
(* What wmcb promises: NodeService *)

\* The refinement mapping: a process has reported the command it ran last if
\* that ended in success and it has not been run again since.
Reported ==
  [p \in Processes |->
     IF pc[p] = "idle" /\ outcome[p] = "success" THEN cmd[p] ELSE "none"]

Promise == INSTANCE NodeService WITH service <- image, report <- Reported

\* wmcb implements NodeService: the call-by-call behaviour of any number of
\* wmcb processes, with every fault, is that of one registration that is only
\* installed, completed and withdrawn, and of success messages that are true.
ImplementsNodeService == Promise!Spec

-----------------------------------------------------------------------------
(* Safety *)

\* No kubelet of an earlier initialize-kubelet outlives the registration it came
\* from: a live process was started from a command line of the same ignition
\* file as the one registered.  stopAndRemove, the wait for the deletion, and
\* CreateService together must ensure it, stop() having been allowed to fail.
NoStrayKubelet ==
  proc # NoCommand => Registered /\ proc.ign = image.ign

\* What configure-cni read with config() before it copied the files is still
\* about the service that is registered when it calls UpdateConfig, even if
\* another wmcb removes and recreates the service meanwhile: the open handle
\* keeps the registration it read from being replaced.
ConfigNotStale ==
  \A p \in Processes :
    cmd[p] = "configure-cni" /\ conf[p] # NoCommand =>
      Registered /\ conf[p].ign = image.ign

\* A registration changes its command line only by gaining the CNI options; to
\* lose them, or to take up another ignition file, it has to be deleted first.
OnlyGainsCNI ==
  [][Registered /\ Registered' => image' \in {image, WithCNI(image)}]_vars

\* What the success messages mean: initialize-kubelet has registered the
\* command line of the ignition file it read, with recovery actions;
\* configure-cni has registered the one it found plus the CNI options.
SuccessIsTruthful ==
  [][\A p \in Processes : pc[p] = "report" /\ outcome'[p] = "success" =>
       /\ Registered
       /\ conf[p].ign = image.ign
       /\ IF cmd[p] = "configure-cni" THEN image.cni ELSE recovery]_vars

\* wmcb never takes a working service away from a node without saying so: when
\* no wmcb runs and the last one reported success, the kubelet is up (or coming
\* up) with the registered command line.
SuccessMeansServing ==
  \A p \in Processes :
    pc[p] = "idle" /\ outcome[p] = "success" =>
      kubelet \in {"StartPending", "Running"} /\ proc = image

\* The dependent service that stop() had to stop is started again by the time
\* wmcb reports success.
OverlayRestarted ==
  \A p \in Processes :
    pc[p] = "idle" /\ outcome[p] = "success" => overlay # "Stopped"

-----------------------------------------------------------------------------
(* The inductive invariant *)

\* Labels at which a process has no handle to the kubelet service.
Unheld == {"idle", "reconnect", "files", "create"}

\* An open handle pins the registration.
HandlesPin == handles # {} => Registered

ProcessMatchesState == proc = NoCommand <=> kubelet = "Stopped"

HoldsHandle(p) == pc[p] \notin Unheld => p \in handles

\* Where each command can be; between commands a process carries nothing over.
OnTrack(p) ==
  /\ pc[p] = "idle" => conf[p] = NoCommand
  /\ pc[p] \in InitLabels => cmd[p] = "initialize-kubelet"
  /\ pc[p] \in CNILabels => cmd[p] = "configure-cni"
  /\ pc[p] \in StopLabels => (caller[p] = "stopAndRemove" <=> cmd[p] = "initialize-kubelet")

\* Labels from which configure-cni holds a command line that it read or made.
ConfRead(p) ==
  \/ pc[p] \in {"configureCNI", "updateConfig", "report"} \cup StartLabels
  \/ pc[p] \in StopLabels /\ caller[p] = "refresh"

\* The command line a configure-cni run carries, and what it has achieved.
ConfigurePrepared(p) ==
  cmd[p] = "configure-cni" =>
    /\ conf[p] # NoCommand => ConfRead(p)
    /\ ConfRead(p) => conf[p] # NoCommand /\ conf[p].ign = image.ign
    /\ ConfRead(p) /\ pc[p] # "configureCNI" => conf[p].cni
    /\ pc[p] \in StartLabels \cup {"report"} => image.cni

\* The same for an initialize-kubelet run.
InitializePrepared(p) ==
  cmd[p] = "initialize-kubelet" =>
    /\ pc[p] \in {"create", "setRecovery", "report"} \cup StartLabels => conf[p] # NoCommand
    /\ pc[p] = "create" => ~conf[p].cni
    /\ pc[p] \in {"setRecovery", "report"} \cup StartLabels => conf[p].ign = image.ign
    /\ pc[p] \in {"report"} \cup StartLabels => recovery

ProcessInv(p) ==
  /\ HoldsHandle(p)
  /\ OnTrack(p)
  /\ ConfigurePrepared(p)
  /\ InitializePrepared(p)

Inv ==
  /\ HandlesPin
  /\ ProcessMatchesState
  /\ NoStrayKubelet
  /\ \A p \in Processes : ProcessInv(p)

-----------------------------------------------------------------------------
(* Liveness *)

\* Every command ends, although the services it waits for may never get there.
CommandTerminates ==
  \A p \in Processes : pc[p] # "idle" ~> pc[p] = "idle"

\* initialize-kubelet may be repeated after any failure, kill or reboot, and in
\* the end it succeeds: no sequence of interrupted runs leaves a node that
\* later runs cannot bootstrap.
RetriesSucceed ==
  \A p \in Processes : []<>(pc[p] = "idle" /\ outcome[p] = "success")

\* Each command succeeds again and again for the operator who runs both, in any
\* order, and lets the services settle in between, if these stop in time from some
\* day on: a configure-cni that failed, or was killed, after it had stopped the
\* kubelet does not leave a node on which neither a later configure-cni nor a later
\* initialize-kubelet gets through.
BothSucceed ==
  (\A p \in Processes : <>[][~StopTimesOut(p)]_vars) =>
    \A p \in Processes, c \in Commands :
      []<>(pc[p] = "idle" /\ outcome[p] = "success" /\ cmd[p] = c)

-----------------------------------------------------------------------------
(* What a comment of the code claims *)

\* "refresh updates the kubelet service with the given config and restarts the
\* service" (kubelet.go): once configure-cni has reported success, a running
\* kubelet runs with the registered command line.
RefreshRestarts ==
  \A p \in Processes :
    pc[p] = "idle" /\ outcome[p] = "success" /\ cmd[p] = "configure-cni"
      /\ kubelet = "Running" => proc = image
=============================================================================
