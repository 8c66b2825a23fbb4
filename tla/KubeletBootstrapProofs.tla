----------------------- MODULE KubeletBootstrapProofs -----------------------
(***************************************************************************)
(* Proofs about KubeletBootstrap, for any number of wmcb processes, any    *)
(* set of ignition files, any faults and any operator.                     *)
(***************************************************************************)
EXTENDS KubeletBootstrap, TLAPS

USE DEF registration, services, scmVars, wmcbVars, vars, States, Labels,
        StopLabels, StartLabels, InitLabels, CNILabels

-----------------------------------------------------------------------------
(* Facts about command lines *)

\* Adding the CNI options gives a command line of the same ignition file.
LEMMA WithCNIType ==
  ASSUME NEW line \in CommandLine
  PROVE  /\ WithCNI(line) \in CommandLine
         /\ WithCNI(line).ign = line.ign
         /\ WithCNI(line).cni = TRUE
BY DEF WithCNI, CommandLine

\* Two command lines that agree on the ignition file differ at most by the CNI
\* options.
LEMMA SameIgnition ==
  ASSUME NEW line \in CommandLine, NEW other \in CommandLine,
         line.ign = other.ign, line.cni
  PROVE  line = WithCNI(other)
BY DEF WithCNI, CommandLine

\* NoCommand is no command line.
LEMMA NoCommandIsNone == NoCommand \notin CommandLine
BY NoCommandAssumption

-----------------------------------------------------------------------------
(* Type correctness *)

\* The types of what the wmcb processes keep, and of who holds a handle.
ProcessTypes ==
  /\ pc \in [Processes -> Labels]
  /\ cmd \in [Processes -> {"initialize-kubelet", "configure-cni"}]
  /\ caller \in [Processes -> {"Configure", "refresh", "stopAndRemove"}]
  /\ deps \in [Processes -> BOOLEAN]
  /\ conf \in [Processes -> CommandLine \cup {NoCommand}]
  /\ outcome \in [Processes -> {"none", "success", "error", "killed"}]
  /\ handles \subseteq Processes \cup {Outsider}

\* The types of what the SCM keeps.
ServiceTypes ==
  /\ image \in CommandLine \cup {NoCommand}
  /\ proc \in CommandLine \cup {NoCommand}
  /\ marked \in BOOLEAN
  /\ recovery \in BOOLEAN
  /\ restartDue \in BOOLEAN
  /\ kubelet \in States
  /\ overlay \in States \cup {"Absent"}
  /\ faults \in Nat

\* Ending a command keeps what the processes remember well typed.
LEMMA ExitType ==
  ASSUME ProcessTypes, NEW p \in Processes,
         NEW r \in {"success", "error", "killed"}, Exit(p, r)
  PROVE  ProcessTypes'
BY DEF ProcessTypes, Exit, Goto

\* Going on to a label keeps what the processes remember well typed.
LEMMA ContinueType ==
  ASSUME ProcessTypes, NEW p \in Processes, NEW label \in Labels, Continue(p, label)
  PROVE  ProcessTypes'
BY DEF ProcessTypes, Continue, Goto

\* stop() returns to a label, whoever called it.
LEMMA AfterStopLabel ==
  ASSUME ProcessTypes, NEW p \in Processes
  PROVE  AfterStop(p) \in {"readConfig", "updateConfig", "remove"}
BY DEF ProcessTypes, AfterStop

\* When stop() fails, the types stay right whether its caller looks at the error or not.
LEMMA StopFailsType ==
  ASSUME ProcessTypes, NEW p \in Processes, StopFails(p)
  PROVE  ProcessTypes'
BY ExitType, ContinueType DEF StopFails

\* A fault is counted.
LEMMA FaultType ==
  ASSUME NEW kind, faults \in Nat, Fault(kind)
  PROVE  faults' \in Nat
BY DEF Fault

\* Each call of stop() keeps every variable within its type.
LEMMA StopStepType ==
  ASSUME TypeOK, NEW p \in Processes, StopStep(p)
  PROVE  TypeOK'
<1> SUFFICES ASSUME ProcessTypes, ServiceTypes
             PROVE  ProcessTypes' /\ ServiceTypes'
  BY DEF TypeOK, SCMTypeOK, ProcessTypes, ServiceTypes
<1>1. CASE StopQuery(p)
  <2>1. Continue(p, AfterStop(p)) \/ Continue(p, "stopOverlay") \/ Continue(p, "stopKubelet")
    BY <1>1 DEF StopQuery
  <2>2. ProcessTypes'
    BY <2>1, AfterStopLabel, ContinueType
  <2> QED
    BY <1>1, <2>2 DEF StopQuery, ServiceTypes
<1>2. CASE StopOverlayQuery(p)
  BY <1>2, ContinueType DEF StopOverlayQuery, ServiceTypes
<1>3. CASE StopOverlayCall(p)
  BY <1>3, ContinueType, StopFailsType DEF StopOverlayCall, ServiceTypes
<1>4. CASE AwaitOverlay(p)
  BY <1>4, ContinueType DEF AwaitOverlay, ServiceTypes
<1>5. CASE StopKubelet(p)
  BY <1>5, ContinueType, StopFailsType DEF StopKubelet, ServiceTypes
<1>6. CASE AwaitKubelet(p)
  BY <1>6, AfterStopLabel, ContinueType DEF AwaitKubelet, ServiceTypes
<1>7. CASE StopTimesOut(p)
  BY <1>7, StopFailsType DEF StopTimesOut, ServiceTypes
<1> QED
  BY <1>1, <1>2, <1>3, <1>4, <1>5, <1>6, <1>7 DEF StopStep

\* Each call of start() keeps every variable within its type.
LEMMA StartStepType ==
  ASSUME TypeOK, NEW p \in Processes, StartStep(p)
  PROVE  TypeOK'
<1> SUFFICES ASSUME ProcessTypes, ServiceTypes
             PROVE  ProcessTypes' /\ ServiceTypes'
  BY DEF TypeOK, SCMTypeOK, ProcessTypes, ServiceTypes
<1>1. CASE StartQuery(p)
  BY <1>1, ContinueType DEF StartQuery, ServiceTypes
<1>2. CASE StartKubelet(p)
  <2>1. ProcessTypes'
    BY <1>2, ContinueType, ExitType DEF StartKubelet
  <2> QED
    BY <1>2, <2>1 DEF StartKubelet, ServiceTypes, LaunchKubelet
<1>3. CASE StartOverlayQuery(p)
  BY <1>3, ContinueType DEF StartOverlayQuery, ServiceTypes
<1>4. CASE StartOverlayCall(p)
  <2>1. ProcessTypes'
    BY <1>4, ContinueType, ExitType DEF StartOverlayCall
  <2> QED
    BY <1>4, <2>1 DEF StartOverlayCall, ServiceTypes, LaunchKubelet
<1> QED
  BY <1>1, <1>2, <1>3, <1>4 DEF StartStep

\* Each further call of InitializeKubelet keeps every variable within its type.
LEMMA InitializeStepType ==
  ASSUME TypeOK, NEW p \in Processes, InitializeStep(p)
  PROVE  TypeOK'
<1> SUFFICES ASSUME ProcessTypes, ServiceTypes
             PROVE  ProcessTypes' /\ ServiceTypes'
  BY DEF TypeOK, SCMTypeOK, ProcessTypes, ServiceTypes
<1>1. CASE Remove(p)
  BY <1>1, ContinueType, ExitType DEF Remove, ServiceTypes
<1>2. CASE RefreshManager(p)
  BY <1>2 DEF RefreshManager, ServiceTypes, ProcessTypes, Goto
<1>3. CASE Reconnect(p)
  BY <1>3, ContinueType DEF Reconnect, ServiceTypes
<1>4. CASE InitializeKubeletFiles(p)
  <2>1. ProcessTypes'
    <3>1. CASE Exit(p, "error")
      BY <3>1, ExitType
    <3>2. ASSUME NEW i \in Ignitions,
                 conf' = [conf EXCEPT ![p] = [ign |-> i, cni |-> FALSE]],
                 Goto(p, "create"),
                 UNCHANGED <<cmd, caller, deps, outcome, handles>>
          PROVE  ProcessTypes'
      BY <3>2 DEF ProcessTypes, Goto, CommandLine
    <3> QED
      BY <1>4, <3>1, <3>2 DEF InitializeKubeletFiles
  <2> QED
    BY <1>4, <2>1 DEF InitializeKubeletFiles, ServiceTypes
<1>5. CASE CreateService(p)
  <2>1. CASE Registered
    BY <1>5, <2>1, ExitType DEF CreateService, ServiceTypes
  <2>2. CASE ~Registered
    <3>1. conf[p] \in CommandLine \cup {NoCommand}
      BY DEF ProcessTypes
    <3>2. ServiceTypes'
      BY <1>5, <2>2, <3>1 DEF CreateService, ServiceTypes
    <3>3. ProcessTypes'
      BY <1>5, <2>2 DEF CreateService, ProcessTypes, Goto
    <3> QED
      BY <3>2, <3>3
  <2> QED
    BY <2>1, <2>2
<1>6. CASE SetRecoveryActions(p)
  <2>1. CASE marked
    BY <1>6, <2>1, ExitType DEF SetRecoveryActions, ServiceTypes
  <2>2. CASE ~marked
    BY ZenonT(30), <1>6, <2>2, FaultType DEF SetRecoveryActions, ServiceTypes, ProcessTypes, Goto
  <2> QED
    BY <2>1, <2>2
<1> QED
  BY <1>1, <1>2, <1>3, <1>4, <1>5, <1>6 DEF InitializeStep

\* Each further call of Configure keeps every variable within its type: the CNI
\* options are only ever added to a command line that was read.
LEMMA ConfigureStepType ==
  ASSUME TypeOK, Inv, NEW p \in Processes, ConfigureStep(p)
  PROVE  TypeOK'
<1> SUFFICES ASSUME ProcessTypes, ServiceTypes
             PROVE  ProcessTypes' /\ ServiceTypes'
  BY DEF TypeOK, SCMTypeOK, ProcessTypes, ServiceTypes
<1>1. CASE ReadConfig(p)
  BY <1>1 DEF ReadConfig, ServiceTypes, ProcessTypes, Goto
<1>2. CASE ConfigureCNI(p)
  <2>1. CASE Exit(p, "error")
    BY <1>2, <2>1, ExitType DEF ConfigureCNI, ServiceTypes
  <2>2. CASE ~Exit(p, "error")
    <3>1. conf[p] \in CommandLine
      BY <1>2 DEF ConfigureCNI, Inv, ProcessInv, OnTrack, ConfigurePrepared, ConfRead, ProcessTypes
    <3>2. WithCNI(conf[p]) \in CommandLine
      BY <3>1, WithCNIType
    <3> QED
      BY <1>2, <2>2, <3>2 DEF ConfigureCNI, ServiceTypes, ProcessTypes, Goto
  <2> QED
    BY <2>1, <2>2
<1>3. CASE UpdateConfig(p)
  <2>1. conf[p] \in CommandLine \cup {NoCommand}
    BY DEF ProcessTypes
  <2>2. Exit(p, "error") \/ Continue(p, "start")
    BY <1>3 DEF UpdateConfig
  <2>3. ProcessTypes'
    BY <2>2, ExitType, ContinueType
  <2>4. faults' \in Nat
    BY <1>3, FaultType DEF UpdateConfig, ServiceTypes
  <2> QED
    BY <1>3, <2>1, <2>3, <2>4 DEF UpdateConfig, ServiceTypes
<1> QED
  BY <1>1, <1>2, <1>3 DEF ConfigureStep

\* Starting a command, and every way of ending one, keeps the types.
LEMMA OtherStepType ==
  ASSUME TypeOK, NEW p \in Processes,
         Report(p) \/ CallFails(p) \/ Killed(p) \/ NewWinNodeBootstrapper(p)
  PROVE  TypeOK'
<1> SUFFICES ASSUME ProcessTypes, ServiceTypes
             PROVE  ProcessTypes' /\ ServiceTypes'
  BY DEF TypeOK, SCMTypeOK, ProcessTypes, ServiceTypes
<1>1. CASE Report(p)
  BY <1>1, ExitType DEF Report, ServiceTypes
<1>2. CASE CallFails(p)
  BY <1>2, ExitType, StopFailsType, FaultType DEF CallFails, ServiceTypes
<1>3. CASE Killed(p)
  BY <1>3, ExitType, FaultType DEF Killed, ServiceTypes
<1>4. CASE NewWinNodeBootstrapper(p)
  <2>1. PICK c \in Commands :
          /\ cmd' = [cmd EXCEPT ![p] = c]
          /\ OpenServices(p, c) \/ NoService(p, c) \/ NoBootstrapper(p)
    BY <1>4 DEF NewWinNodeBootstrapper
  <2>2. c \in {"initialize-kubelet", "configure-cni"}
    BY OperatorAssumption
  <2>3. faults' \in Nat
    BY <2>1, FaultType DEF OpenServices, NoService, NoBootstrapper, ServiceTypes
  <2>4. CASE OpenServices(p, c)
    BY ZenonT(30), <1>4, <2>1, <2>2, <2>3, <2>4
    DEF NewWinNodeBootstrapper, OpenServices, Goto, ProcessTypes, ServiceTypes
  <2>5. CASE NoService(p, c)
    BY <1>4, <2>1, <2>2, <2>3, <2>5 DEF NewWinNodeBootstrapper, NoService, Goto, ProcessTypes, ServiceTypes
  <2>6. CASE NoBootstrapper(p)
    BY <1>4, <2>1, <2>2, <2>3, <2>6 DEF NewWinNodeBootstrapper, NoBootstrapper, ProcessTypes, ServiceTypes
  <2> QED
    BY <2>1, <2>4, <2>5, <2>6
<1> QED
  BY <1>1, <1>2, <1>3, <1>4

\* What the SCM and the services do on their own keeps the types.
LEMMA SCMStepType ==
  ASSUME TypeOK, SCMStep
  PROVE  TypeOK'
<1> SUFFICES ASSUME ProcessTypes, ServiceTypes
             PROVE  ProcessTypes' /\ ServiceTypes'
  BY DEF TypeOK, SCMTypeOK, ProcessTypes, ServiceTypes
<1>1. faults' \in Nat
  BY FaultType DEF SCMStep, SCMNext, ServiceTypes, KubeletComesUp, KubeletEnds,
     KubeletDies, RecoveryRestart, Reap, InstallOverlay, OverlayComesUp,
     OverlayGivesUp, OverlayEnds, OverlayDies, OutsiderOpens, OutsiderCloses
<1>2. ProcessTypes'
  BY DEF SCMStep, SCMNext, ProcessTypes, KubeletComesUp, KubeletEnds,
     KubeletDies, RecoveryRestart, Reap, InstallOverlay, OverlayComesUp,
     OverlayGivesUp, OverlayEnds, OverlayDies, OutsiderOpens, OutsiderCloses
<1>3. ServiceTypes'
  BY ZenonT(30), <1>1 DEF SCMStep, SCMNext, ServiceTypes, KubeletComesUp, KubeletEnds,
     KubeletDies, RecoveryRestart, LaunchKubelet, Reap, InstallOverlay, OverlayComesUp,
     OverlayGivesUp, OverlayEnds, OverlayDies, OutsiderOpens, OutsiderCloses
<1> QED
  BY <1>2, <1>3

\* A reboot keeps the types.
LEMMA RebootType ==
  ASSUME TypeOK, Reboot
  PROVE  TypeOK'
<1> SUFFICES ASSUME ProcessTypes, ServiceTypes
             PROVE  ProcessTypes' /\ ServiceTypes'
  BY DEF TypeOK, SCMTypeOK, ProcessTypes, ServiceTypes
<1>1. ProcessTypes'
  BY DEF Reboot, SCMReboots, ProcessTypes
<1>2. faults' \in Nat
  BY FaultType DEF Reboot, SCMReboots, ServiceTypes
<1>3. ServiceTypes'
  BY <1>2 DEF Reboot, SCMReboots, ServiceTypes
<1> QED
  BY <1>1, <1>3

-----------------------------------------------------------------------------
(* The inductive invariant *)

\* What a step of process p leaves alone about the other processes.
Untouched(p) ==
  \A q \in Processes \ {p} :
    /\ pc'[q] = pc[q]
    /\ cmd'[q] = cmd[q]
    /\ caller'[q] = caller[q]
    /\ conf'[q] = conf[q]
    /\ q \in handles => q \in handles'

\* What no step does to a registration somebody has a handle to.
Pinned ==
  handles # {} =>
    /\ image'.ign = image.ign
    /\ image.cni => image'.cni
    /\ recovery => recovery'

\* The registration as it is when a step does not touch it.
SameRegistration == image' = image /\ recovery' = recovery

\* A step that leaves the registration alone leaves it pinned.
LEMMA SameIsPinned ==
  ASSUME ServiceTypes, SameRegistration
  PROVE  Pinned
BY DEF SameRegistration, Pinned

\* A process keeps its invariant while others step, as long as the registration
\* is pinned by its handle.
LEMMA OthersKeep ==
  ASSUME Inv, Pinned, NEW q \in Processes,
         pc'[q] = pc[q], cmd'[q] = cmd[q], caller'[q] = caller[q],
         conf'[q] = conf[q], q \in handles => q \in handles'
  PROVE  ProcessInv(q)'
<1>1. ProcessInv(q)
  BY DEF Inv
<1>2. CASE pc[q] \in Unheld
  BY <1>1, <1>2 DEF ProcessInv, HoldsHandle, OnTrack, ConfigurePrepared, ConfRead,
     InitializePrepared, Unheld
<1>3. CASE pc[q] \notin Unheld
  <2>1. q \in handles
    BY <1>1, <1>3 DEF ProcessInv, HoldsHandle
  <2>2. /\ image'.ign = image.ign
        /\ image.cni => image'.cni
        /\ recovery => recovery'
    BY <2>1 DEF Pinned
  <2>3. HoldsHandle(q)' /\ OnTrack(q)'
    BY <1>1, <2>1 DEF ProcessInv, HoldsHandle, OnTrack
  <2>4. ConfigurePrepared(q)'
    BY <1>1, <2>2 DEF ProcessInv, ConfigurePrepared, ConfRead
  <2>5. InitializePrepared(q)'
    BY <1>1, <2>2 DEF ProcessInv, InitializePrepared
  <2> QED
    BY <2>3, <2>4, <2>5 DEF ProcessInv
<1> QED
  BY <1>2, <1>3

\* So a step of p only has to re-establish the invariant of p.
LEMMA OneSteps ==
  ASSUME Inv, Pinned, NEW p \in Processes, Untouched(p), ProcessInv(p)'
  PROVE  \A q \in Processes : ProcessInv(q)'
BY OthersKeep DEF Untouched

\* Exit drops what the process remembered, and its handle.
LEMMA ExitInv ==
  ASSUME TypeOK, Inv, NEW p \in Processes, NEW r, Exit(p, r), SameRegistration
  PROVE  /\ HandlesPin'
         /\ \A q \in Processes : ProcessInv(q)'
<1> ProcessTypes /\ ServiceTypes
  BY DEF TypeOK, SCMTypeOK, ProcessTypes, ServiceTypes
<1>1. HandlesPin'
  BY DEF Inv, HandlesPin, Registered, Exit, SameRegistration
<1>2. Untouched(p)
  BY DEF Untouched, Exit, Goto, ProcessTypes
<1>3. pc'[p] = "idle" /\ conf'[p] = NoCommand
  BY DEF Exit, Goto, ProcessTypes
<1>4. ProcessInv(p)'
  BY <1>3 DEF ProcessInv, HoldsHandle, OnTrack, ConfigurePrepared, ConfRead,
     InitializePrepared, Unheld
<1> QED
  BY <1>1, <1>2, <1>4, SameIsPinned, OneSteps

\* Continue keeps the invariant when the label fits what the process remembers.
LEMMA ContinueInv ==
  ASSUME TypeOK, Inv, NEW p \in Processes, NEW label \in Labels, Continue(p, label),
         Pinned, HandlesPin', pc[p] \notin Unheld, label \notin Unheld,
         label \in InitLabels => cmd[p] = "initialize-kubelet",
         label \in CNILabels => cmd[p] = "configure-cni",
         label \in StopLabels =>
           (caller[p] = "stopAndRemove" <=> cmd[p] = "initialize-kubelet"),
         ProcessInv(p) => ConfigurePrepared(p)' /\ InitializePrepared(p)'
  PROVE  \A q \in Processes : ProcessInv(q)'
<1> ProcessTypes /\ ServiceTypes
  BY DEF TypeOK, SCMTypeOK, ProcessTypes, ServiceTypes
<1>1. Untouched(p)
  BY DEF Untouched, Continue, Goto, ProcessTypes
<1>2. pc'[p] = label /\ UNCHANGED <<cmd, caller, handles>>
  BY DEF Continue, Goto, ProcessTypes
<1>3. ProcessInv(p)
  BY DEF Inv
<1>4. HoldsHandle(p)'
  BY <1>2, <1>3 DEF ProcessInv, HoldsHandle
<1>5. OnTrack(p)'
  BY <1>2 DEF OnTrack, Unheld
<1>6. ProcessInv(p)'
  BY <1>3, <1>4, <1>5 DEF ProcessInv
<1> QED
  BY <1>1, <1>6, OneSteps

\* The part of the invariant about the services, when a step leaves them alone.
LEMMA ServicesKeep ==
  ASSUME Inv, UNCHANGED <<image, kubelet, proc>>
  PROVE  ProcessMatchesState' /\ NoStrayKubelet'
BY DEF Inv, ProcessMatchesState, NoStrayKubelet, Registered

\* stop() goes from call to call, and back to whoever called it.
LEMMA StopContinueInv ==
  ASSUME TypeOK, Inv, NEW p \in Processes, pc[p] \in StopLabels,
         NEW label \in StopLabels \cup {AfterStop(p)}, Continue(p, label),
         SameRegistration
  PROVE  /\ HandlesPin'
         /\ \A q \in Processes : ProcessInv(q)'
<1> ProcessTypes /\ ServiceTypes
  BY DEF TypeOK, SCMTypeOK, ProcessTypes, ServiceTypes
<1>1. Pinned
  BY SameIsPinned
<1>2. HandlesPin'
  BY DEF Inv, HandlesPin, Registered, Continue, SameRegistration
<1>3. pc'[p] = label /\ UNCHANGED <<cmd, caller, conf, image, recovery>>
  BY DEF Continue, Goto, ProcessTypes, SameRegistration
<1>4. ProcessInv(p)
  BY DEF Inv
<1>5. caller[p] = "stopAndRemove" <=> cmd[p] = "initialize-kubelet"
  BY <1>4 DEF ProcessInv, OnTrack
<1>6. cmd[p] \in {"initialize-kubelet", "configure-cni"}
      /\ caller[p] \in {"Configure", "refresh", "stopAndRemove"}
  BY DEF ProcessTypes
<1>7. CASE label \in StopLabels
  <2>1. ConfigurePrepared(p)'
    BY <1>3, <1>4, <1>7 DEF ProcessInv, ConfigurePrepared, ConfRead
  <2>2. InitializePrepared(p)'
    BY <1>3, <1>7 DEF InitializePrepared
  <2> QED
    BY <1>1, <1>2, <1>5, <1>7, <2>1, <2>2, ContinueInv DEF Unheld
<1>8. CASE label = AfterStop(p)
  <2>1. \/ label = "readConfig" /\ caller[p] = "Configure"
        \/ label = "updateConfig" /\ caller[p] = "refresh"
        \/ label = "remove" /\ caller[p] = "stopAndRemove"
    BY <1>6, <1>8 DEF AfterStop
  <2>2. ConfigurePrepared(p)'
    BY <1>3, <1>4, <1>5, <2>1 DEF ProcessInv, ConfigurePrepared, ConfRead
  <2>3. InitializePrepared(p)'
    BY <1>3, <2>1 DEF InitializePrepared
  <2> QED
    BY <1>1, <1>2, <1>5, <1>6, <2>1, <2>2, <2>3, ContinueInv DEF Unheld
<1> QED
  BY <1>7, <1>8

\* A failing stop() ends the command, or is ignored by stopAndRemove.
LEMMA StopFailsInv ==
  ASSUME TypeOK, Inv, NEW p \in Processes, pc[p] \in StopLabels, StopFails(p),
         SameRegistration
  PROVE  /\ HandlesPin'
         /\ \A q \in Processes : ProcessInv(q)'
<1>1. CASE caller[p] = "stopAndRemove"
  BY <1>1, StopContinueInv DEF StopFails, AfterStop
<1>2. CASE caller[p] # "stopAndRemove"
  BY <1>2, ExitInv DEF StopFails
<1> QED
  BY <1>1, <1>2

\* stop() preserves the invariant: a kubelet that is told to stop keeps its process.
LEMMA StopStepInv ==
  ASSUME TypeOK, Inv, NEW p \in Processes, StopStep(p)
  PROVE  Inv'
<1>0. SameRegistration
  BY DEF StopStep, StopQuery, StopOverlayQuery, StopOverlayCall, AwaitOverlay, StopKubelet,
     AwaitKubelet, StopTimesOut, SameRegistration
<1>1. HandlesPin' /\ \A q \in Processes : ProcessInv(q)'
  <2>1. CASE StopQuery(p)
    BY <1>0, <2>1, StopContinueInv DEF StopQuery
  <2>2. CASE StopOverlayQuery(p)
    BY <1>0, <2>2, StopContinueInv DEF StopOverlayQuery
  <2>3. CASE StopOverlayCall(p)
    BY <1>0, <2>3, StopContinueInv, StopFailsInv DEF StopOverlayCall
  <2>4. CASE AwaitOverlay(p)
    BY <1>0, <2>4, StopContinueInv DEF AwaitOverlay
  <2>5. CASE StopKubelet(p)
    BY <1>0, <2>5, StopContinueInv, StopFailsInv DEF StopKubelet
  <2>6. CASE AwaitKubelet(p)
    BY <1>0, <2>6, StopContinueInv DEF AwaitKubelet
  <2>7. CASE StopTimesOut(p)
    BY <1>0, <2>7, StopFailsInv DEF StopTimesOut
  <2> QED
    BY <2>1, <2>2, <2>3, <2>4, <2>5, <2>6, <2>7 DEF StopStep
<1>2. ProcessMatchesState' /\ NoStrayKubelet'
  <2>1. CASE StopKubelet(p)
    BY <2>1 DEF StopKubelet, CanStopKubelet, Inv, ProcessMatchesState, NoStrayKubelet, Registered
  <2>2. CASE ~StopKubelet(p)
    BY <2>2, ServicesKeep DEF StopStep, StopQuery, StopOverlayQuery, StopOverlayCall,
       AwaitOverlay, AwaitKubelet, StopTimesOut
  <2> QED
    BY <2>1, <2>2
<1> QED
  BY <1>1, <1>2 DEF Inv

\* start() goes from call to call, and on to the success message.
LEMMA StartContinueInv ==
  ASSUME TypeOK, Inv, NEW p \in Processes, pc[p] \in StartLabels,
         NEW label \in StartLabels \cup {"report"}, Continue(p, label),
         SameRegistration
  PROVE  /\ HandlesPin'
         /\ \A q \in Processes : ProcessInv(q)'
<1> ProcessTypes /\ ServiceTypes
  BY DEF TypeOK, SCMTypeOK, ProcessTypes, ServiceTypes
<1>1. Pinned
  BY SameIsPinned
<1>2. HandlesPin'
  BY DEF Inv, HandlesPin, Registered, Continue, SameRegistration
<1>3. pc'[p] = label /\ UNCHANGED <<cmd, caller, conf, image, recovery>>
  BY DEF Continue, Goto, ProcessTypes, SameRegistration
<1>4. ProcessInv(p)
  BY DEF Inv
<1>5. ConfigurePrepared(p)'
  BY <1>3, <1>4 DEF ProcessInv, ConfigurePrepared, ConfRead
<1>6. InitializePrepared(p)'
  BY <1>3, <1>4 DEF ProcessInv, InitializePrepared
<1> QED
  BY <1>1, <1>2, <1>5, <1>6, ContinueInv DEF Unheld

\* A kubelet that is launched is launched from what is registered.
LEMMA LaunchInv ==
  ASSUME Inv, CanStartKubelet, LaunchKubelet, image' = image
  PROVE  ProcessMatchesState' /\ NoStrayKubelet'
BY DEF Inv, CanStartKubelet, LaunchKubelet, ProcessMatchesState, NoStrayKubelet, Registered

\* start() preserves the invariant: what it launches is what is registered.
LEMMA StartStepInv ==
  ASSUME TypeOK, Inv, NEW p \in Processes, StartStep(p)
  PROVE  Inv'
<1>0. SameRegistration
  BY DEF StartStep, StartQuery, StartKubelet, StartOverlayQuery, StartOverlayCall,
     SameRegistration
<1>1. HandlesPin' /\ \A q \in Processes : ProcessInv(q)'
  <2>1. CASE StartQuery(p)
    BY <1>0, <2>1, StartContinueInv DEF StartQuery
  <2>2. CASE StartKubelet(p)
    BY <1>0, <2>2, StartContinueInv, ExitInv DEF StartKubelet
  <2>3. CASE StartOverlayQuery(p)
    BY <1>0, <2>3, StartContinueInv DEF StartOverlayQuery
  <2>4. CASE StartOverlayCall(p)
    BY <1>0, <2>4, StartContinueInv, ExitInv DEF StartOverlayCall
  <2> QED
    BY <2>1, <2>2, <2>3, <2>4 DEF StartStep
<1>2. \/ CanStartKubelet /\ LaunchKubelet
      \/ UNCHANGED <<kubelet, proc>>
  BY DEF StartStep, StartQuery, StartKubelet, StartOverlayQuery, StartOverlayCall
<1>3. ProcessMatchesState' /\ NoStrayKubelet'
  BY <1>0, <1>2, LaunchInv, ServicesKeep DEF SameRegistration
<1> QED
  BY <1>1, <1>3 DEF Inv

\* InitializeKubelet preserves the invariant: the registration it creates is
\* new, nobody holds it, and no kubelet of the old one is left.
LEMMA InitializeStepInv ==
  ASSUME TypeOK, Inv, NEW p \in Processes, InitializeStep(p)
  PROVE  Inv'
<1> ProcessTypes /\ ServiceTypes
  BY DEF TypeOK, SCMTypeOK, ProcessTypes, ServiceTypes
<1>0. ProcessInv(p)
  BY DEF Inv
<1>1. CASE Remove(p)
  <2>1. SameRegistration /\ UNCHANGED <<kubelet, proc>>
    BY <1>1 DEF Remove, SameRegistration
  <2>2. HandlesPin' /\ \A q \in Processes : ProcessInv(q)'
    <3>1. CASE Exit(p, "error")
      BY <2>1, <3>1, ExitInv
    <3>2. CASE Continue(p, "refreshManager")
      <4>1. pc[p] = "remove" /\ cmd[p] = "initialize-kubelet"
        BY <1>1, <1>0 DEF Remove, ProcessInv, OnTrack
      <4>2. HandlesPin' /\ Pinned
        BY <2>1, <3>2, SameIsPinned
        DEF Inv, HandlesPin, Registered, Continue, SameRegistration
      <4>3. ConfigurePrepared(p)' /\ InitializePrepared(p)'
        BY <3>2, <4>1 DEF Continue, Goto, ProcessTypes, ConfigurePrepared, InitializePrepared
      <4> QED
        BY <3>2, <4>1, <4>2, <4>3, ContinueInv DEF Unheld
    <3> QED
      BY <1>1, <3>1, <3>2 DEF Remove
  <2> QED
    BY <2>1, <2>2, ServicesKeep DEF Inv, SameRegistration
<1>2. CASE RefreshManager(p)
  <2>1. SameRegistration /\ UNCHANGED <<kubelet, proc>>
    BY <1>2 DEF RefreshManager, SameRegistration
  <2>2. pc[p] = "refreshManager" /\ cmd[p] = "initialize-kubelet"
    BY <1>2, <1>0 DEF RefreshManager, ProcessInv, OnTrack
  <2>3. ProcessInv(p)'
    BY <1>2, <2>2 DEF RefreshManager, Goto, ProcessTypes, ProcessInv, HoldsHandle, OnTrack,
       ConfigurePrepared, InitializePrepared, Unheld
  <2>4. Untouched(p)
    BY <1>2 DEF RefreshManager, Goto, ProcessTypes, Untouched
  <2>5. HandlesPin'
    BY <1>2 DEF RefreshManager, Inv, HandlesPin, Registered
  <2> QED
    BY <2>1, <2>3, <2>4, <2>5, OneSteps, SameIsPinned, ServicesKeep DEF Inv, SameRegistration
<1>3. CASE Reconnect(p)
  <2>1. SameRegistration /\ UNCHANGED <<kubelet, proc>>
    BY <1>3 DEF Reconnect, SameRegistration
  <2>2. pc[p] = "reconnect" /\ cmd[p] = "initialize-kubelet"
    BY <1>3, <1>0 DEF Reconnect, ProcessInv, OnTrack
  <2>3. ProcessInv(p)'
    BY <1>3, <2>2 DEF Reconnect, Continue, Goto, ProcessTypes, ProcessInv, HoldsHandle,
       OnTrack, ConfigurePrepared, InitializePrepared, Unheld
  <2>4. Untouched(p)
    BY <1>3 DEF Reconnect, Continue, Goto, ProcessTypes, Untouched
  <2>5. HandlesPin'
    BY <1>3 DEF Reconnect, Continue, Inv, HandlesPin, Registered
  <2> QED
    BY <2>1, <2>3, <2>4, <2>5, OneSteps, SameIsPinned, ServicesKeep DEF Inv, SameRegistration
<1>4. CASE InitializeKubeletFiles(p)
  <2>1. SameRegistration /\ UNCHANGED <<kubelet, proc>>
    BY <1>4 DEF InitializeKubeletFiles, SameRegistration
  <2>2. HandlesPin' /\ \A q \in Processes : ProcessInv(q)'
    <3>1. CASE Exit(p, "error")
      BY <2>1, <3>1, ExitInv
    <3>2. ASSUME NEW i \in Ignitions,
                 conf' = [conf EXCEPT ![p] = [ign |-> i, cni |-> FALSE]],
                 Goto(p, "create"),
                 UNCHANGED <<cmd, caller, deps, outcome, handles>>
          PROVE  HandlesPin' /\ \A q \in Processes : ProcessInv(q)'
      <4>1. pc[p] = "files" /\ cmd[p] = "initialize-kubelet"
        BY <1>4, <1>0 DEF InitializeKubeletFiles, ProcessInv, OnTrack
      <4>2. [ign |-> i, cni |-> FALSE] \in CommandLine
        BY DEF CommandLine
      <4>3. conf'[p] # NoCommand /\ ~conf'[p].cni
        BY <3>2, <4>2, NoCommandIsNone DEF ProcessTypes
      <4>4. ProcessInv(p)'
        BY <3>2, <4>1, <4>3 DEF Goto, ProcessTypes, ProcessInv, HoldsHandle, OnTrack,
           ConfigurePrepared, InitializePrepared, Unheld
      <4>5. Untouched(p)
        BY <3>2 DEF Goto, ProcessTypes, Untouched
      <4>6. HandlesPin'
        BY <2>1, <3>2 DEF Inv, HandlesPin, Registered, SameRegistration
      <4> QED
        BY <2>1, <4>4, <4>5, <4>6, OneSteps, SameIsPinned
    <3> QED
      BY <1>4, <3>1, <3>2 DEF InitializeKubeletFiles
  <2> QED
    BY <2>1, <2>2, ServicesKeep DEF Inv, SameRegistration
<1>5. CASE CreateService(p)
  <2>1. CASE Registered
    <3>1. SameRegistration /\ UNCHANGED <<kubelet, proc>> /\ Exit(p, "error")
      BY <1>5, <2>1 DEF CreateService, SameRegistration
    <3> QED
      BY <3>1, ExitInv, ServicesKeep DEF Inv, SameRegistration
  <2>2. CASE ~Registered
    <3>1. handles = {} /\ proc = NoCommand /\ image = NoCommand
      BY <2>2 DEF Inv, HandlesPin, NoStrayKubelet, Registered
    <3>2. pc[p] = "create" /\ cmd[p] = "initialize-kubelet" /\ conf[p] # NoCommand
      BY <1>5, <1>0 DEF CreateService, ProcessInv, OnTrack, InitializePrepared
    <3>3. image' = conf[p] /\ handles' = handles \cup {p} /\ Goto(p, "setRecovery")
          /\ UNCHANGED <<cmd, caller, conf, kubelet, proc>>
      BY <1>5, <2>2 DEF CreateService
    <3>4. ProcessInv(p)'
      BY <3>2, <3>3 DEF Goto, ProcessTypes, ProcessInv, HoldsHandle, OnTrack,
         ConfigurePrepared, InitializePrepared, Unheld
    <3>5. Untouched(p) /\ Pinned
      BY <3>1, <3>3 DEF Goto, ProcessTypes, Untouched, Pinned
    <3>6. HandlesPin' /\ NoStrayKubelet' /\ ProcessMatchesState'
      BY <3>1, <3>2, <3>3 DEF Inv, HandlesPin, NoStrayKubelet, ProcessMatchesState, Registered
    <3> QED
      BY <3>4, <3>5, <3>6, OneSteps DEF Inv
  <2> QED
    BY <2>1, <2>2
<1>6. CASE SetRecoveryActions(p)
  <2>1. UNCHANGED <<image, kubelet, proc>>
    BY <1>6 DEF SetRecoveryActions
  <2>2. CASE marked
    <3>1. SameRegistration /\ Exit(p, "error")
      BY <1>6, <2>2 DEF SetRecoveryActions, SameRegistration
    <3> QED
      BY <2>1, <3>1, ExitInv, ServicesKeep DEF Inv
  <2>3. CASE ~marked
    <3>1. pc[p] = "setRecovery" /\ cmd[p] = "initialize-kubelet"
          /\ conf[p] # NoCommand /\ conf[p].ign = image.ign /\ p \in handles
      BY <1>6, <1>0 DEF SetRecoveryActions, ProcessInv, HoldsHandle, OnTrack,
         InitializePrepared, Unheld
    <3>2. recovery' = TRUE /\ Goto(p, "start")
          /\ UNCHANGED <<image, cmd, caller, conf, handles>>
      BY <1>6, <2>3 DEF SetRecoveryActions
    <3>3. ProcessInv(p)'
      BY <3>1, <3>2 DEF Goto, ProcessTypes, ProcessInv, HoldsHandle, OnTrack,
         ConfigurePrepared, InitializePrepared, Unheld
    <3>4. Untouched(p) /\ Pinned /\ HandlesPin'
      BY <3>2 DEF Goto, ProcessTypes, Untouched, Pinned, Inv, HandlesPin, Registered
    <3> QED
      BY <2>1, <3>3, <3>4, OneSteps, ServicesKeep DEF Inv
  <2> QED
    BY <2>2, <2>3
<1> QED
  BY <1>1, <1>2, <1>3, <1>4, <1>5, <1>6 DEF InitializeStep

\* Configure preserves the invariant: what it updates is what it read.
LEMMA ConfigureStepInv ==
  ASSUME TypeOK, Inv, NEW p \in Processes, ConfigureStep(p)
  PROVE  Inv'
<1> ProcessTypes /\ ServiceTypes
  BY DEF TypeOK, SCMTypeOK, ProcessTypes, ServiceTypes
<1>0. ProcessInv(p)
  BY DEF Inv
<1>1. CASE ReadConfig(p)
  <2>1. SameRegistration /\ UNCHANGED <<kubelet, proc>>
    BY <1>1 DEF ReadConfig, SameRegistration
  <2>2. pc[p] = "readConfig" /\ cmd[p] = "configure-cni" /\ p \in handles
    BY <1>0, <1>1 DEF ReadConfig, ProcessInv, HoldsHandle, OnTrack, Unheld
  <2>3. image # NoCommand
    BY <2>2 DEF Inv, HandlesPin, Registered
  <2>4. ProcessInv(p)'
    BY <1>1, <2>2, <2>3 DEF ReadConfig, Goto, ProcessTypes, ProcessInv, HoldsHandle,
       OnTrack, ConfigurePrepared, ConfRead, InitializePrepared, Unheld
  <2>5. Untouched(p) /\ HandlesPin'
    BY <1>1 DEF ReadConfig, Goto, ProcessTypes, Untouched, Inv, HandlesPin, Registered
  <2> QED
    BY <2>1, <2>4, <2>5, OneSteps, SameIsPinned, ServicesKeep DEF Inv, SameRegistration
<1>2. CASE ConfigureCNI(p)
  <2>1. SameRegistration /\ UNCHANGED <<kubelet, proc>>
    BY <1>2 DEF ConfigureCNI, SameRegistration
  <2>2. HandlesPin' /\ \A q \in Processes : ProcessInv(q)'
    <3>1. CASE Exit(p, "error")
      BY <2>1, <3>1, ExitInv
    <3>2. CASE ~Exit(p, "error")
      <4>1. /\ pc[p] = "configureCNI" /\ cmd[p] = "configure-cni" /\ p \in handles
            /\ conf[p] # NoCommand /\ conf[p].ign = image.ign
        BY <1>0, <1>2 DEF ConfigureCNI, ProcessInv, HoldsHandle, OnTrack,
           ConfigurePrepared, ConfRead, Unheld
      <4>2. conf[p] \in CommandLine
        BY <4>1 DEF ProcessTypes
      <4>3. /\ conf' = [conf EXCEPT ![p] = WithCNI(conf[p])]
            /\ caller' = [caller EXCEPT ![p] = "refresh"]
            /\ Goto(p, "stop")
            /\ UNCHANGED <<cmd, handles, image>>
        BY <1>2, <3>2 DEF ConfigureCNI
      <4>4. /\ conf'[p] = WithCNI(conf[p])
            /\ caller'[p] = "refresh"
            /\ pc'[p] = "stop"
            /\ cmd'[p] = "configure-cni"
        BY <4>1, <4>3 DEF Goto, ProcessTypes
      <4>5. conf'[p] \in CommandLine /\ conf'[p].ign = image'.ign /\ conf'[p].cni = TRUE
        BY <4>1, <4>2, <4>3, <4>4, WithCNIType
      <4>6. conf'[p] # NoCommand
        BY <4>5, NoCommandIsNone
      <4>7. ProcessInv(p)'
        BY <4>1, <4>3, <4>4, <4>5, <4>6 DEF ProcessInv, HoldsHandle, OnTrack,
           ConfigurePrepared, ConfRead, InitializePrepared, Unheld
      <4>8. Untouched(p) /\ HandlesPin'
        BY <4>3 DEF Goto, ProcessTypes, Untouched, Inv, HandlesPin, Registered
      <4> QED
        BY <2>1, <4>7, <4>8, OneSteps, SameIsPinned
    <3> QED
      BY <3>1, <3>2
  <2> QED
    BY <2>1, <2>2, ServicesKeep DEF Inv, SameRegistration
<1>3. CASE UpdateConfig(p)
  <2>1. /\ pc[p] = "updateConfig" /\ cmd[p] = "configure-cni" /\ p \in handles
        /\ conf[p] # NoCommand /\ conf[p].ign = image.ign /\ conf[p].cni
    BY <1>0, <1>3 DEF UpdateConfig, ProcessInv, HoldsHandle, OnTrack, ConfigurePrepared,
       ConfRead, Unheld
  <2>2. Registered
    BY <2>1 DEF Inv, HandlesPin
  <2>3. UNCHANGED <<recovery, kubelet, proc>>
    BY <1>3 DEF UpdateConfig
  <2>4. \/ Exit(p, "error") /\ image' = image
        \/ Exit(p, "error") /\ image' = conf[p]
        \/ Continue(p, "start") /\ image' = conf[p]
    BY <1>3 DEF UpdateConfig
  <2>5. Registered' /\ image'.ign = image.ign /\ (image.cni => image'.cni)
    BY <2>1, <2>2, <2>4 DEF Registered
  <2>6. Pinned
    BY <2>3, <2>5 DEF Pinned
  <2>7. HandlesPin' /\ NoStrayKubelet' /\ ProcessMatchesState'
    BY <2>2, <2>3, <2>5 DEF Inv, HandlesPin, NoStrayKubelet, ProcessMatchesState
  <2>8. Untouched(p)
    BY <2>4 DEF Exit, Continue, Goto, ProcessTypes, Untouched
  <2>9. ProcessInv(p)'
    <3>1. CASE Exit(p, "error")
      BY <3>1 DEF Exit, Goto, ProcessTypes, ProcessInv, HoldsHandle, OnTrack,
         ConfigurePrepared, ConfRead, InitializePrepared, Unheld
    <3>2. CASE Continue(p, "start") /\ image' = conf[p]
      BY <2>1, <3>2 DEF Continue, Goto, ProcessTypes, ProcessInv, HoldsHandle, OnTrack,
         ConfigurePrepared, ConfRead, InitializePrepared, Unheld
    <3> QED
      BY <2>4, <3>1, <3>2
  <2> QED
    BY <2>6, <2>7, <2>8, <2>9, OneSteps DEF Inv
<1> QED
  BY <1>1, <1>2, <1>3 DEF ConfigureStep

\* Starting a command, and every way of ending one, preserves the invariant.
LEMMA OtherStepInv ==
  ASSUME TypeOK, Inv, NEW p \in Processes,
         Report(p) \/ CallFails(p) \/ Killed(p) \/ NewWinNodeBootstrapper(p)
  PROVE  Inv'
<1> ProcessTypes /\ ServiceTypes
  BY DEF TypeOK, SCMTypeOK, ProcessTypes, ServiceTypes
<1>0. SameRegistration /\ UNCHANGED <<kubelet, proc>>
  BY DEF Report, CallFails, Killed, NewWinNodeBootstrapper, SameRegistration
<1>1. CASE Report(p)
  BY <1>0, <1>1, ExitInv, ServicesKeep DEF Report, Inv, SameRegistration
<1>2. CASE CallFails(p)
  BY <1>0, <1>2, ExitInv, StopFailsInv, ServicesKeep DEF CallFails, Inv, SameRegistration
<1>3. CASE Killed(p)
  BY <1>0, <1>3, ExitInv, ServicesKeep DEF Killed, Inv, SameRegistration
<1>4. CASE NewWinNodeBootstrapper(p)
  <2>1. PICK c \in Commands :
          /\ cmd' = [cmd EXCEPT ![p] = c]
          /\ OpenServices(p, c) \/ NoService(p, c) \/ NoBootstrapper(p)
    BY <1>4 DEF NewWinNodeBootstrapper
  <2>2. c \in {"initialize-kubelet", "configure-cni"}
    BY OperatorAssumption
  <2>3. pc[p] = "idle" /\ conf[p] = NoCommand /\ conf' = conf /\ cmd'[p] = c
    BY <1>4, <2>1, <2>2 DEF NewWinNodeBootstrapper, OpenServices, NoService,
       NoBootstrapper, Inv, ProcessInv, OnTrack, ProcessTypes
  <2>4. HandlesPin' /\ Untouched(p)
    BY <1>0, <2>1 DEF OpenServices, NoService, NoBootstrapper, Goto, ProcessTypes, Inv,
       HandlesPin, Registered, Untouched, SameRegistration
  <2>5. ProcessInv(p)'
    <3>1. CASE OpenServices(p, c)
      BY <2>2, <2>3, <3>1 DEF OpenServices, Goto, ProcessTypes, ProcessInv, HoldsHandle,
         OnTrack, ConfigurePrepared, ConfRead, InitializePrepared, Unheld
    <3>2. CASE NoService(p, c)
      BY <2>2, <2>3, <3>2 DEF NoService, Goto, ProcessTypes, ProcessInv, HoldsHandle,
         OnTrack, ConfigurePrepared, ConfRead, InitializePrepared, Unheld
    <3>3. CASE NoBootstrapper(p)
      BY <2>2, <2>3, <3>3 DEF NoBootstrapper, ProcessTypes, ProcessInv, HoldsHandle,
         OnTrack, ConfigurePrepared, ConfRead, InitializePrepared, Unheld
    <3> QED
      BY <2>1, <3>1, <3>2, <3>3
  <2> QED
    BY <1>0, <2>4, <2>5, OneSteps, SameIsPinned, ServicesKeep DEF Inv, SameRegistration
<1> QED
  BY <1>1, <1>2, <1>3, <1>4

\* The SCM preserves the invariant: it drops a registration only when no handle
\* and no process is left.
LEMMA SCMStepInv ==
  ASSUME TypeOK, Inv, SCMStep
  PROVE  Inv'
<1> ProcessTypes /\ ServiceTypes
  BY DEF TypeOK, SCMTypeOK, ProcessTypes, ServiceTypes
<1> USE OutsiderAssumption
<1>1. \A q \in Processes : q \in handles => q \in handles'
  BY DEF SCMStep, SCMNext, KubeletComesUp, KubeletEnds, KubeletDies, RecoveryRestart, Reap,
     InstallOverlay, OverlayComesUp, OverlayGivesUp, OverlayEnds, OverlayDies,
     OutsiderOpens, OutsiderCloses
<1>2. CASE Reap
  <2>1. handles = {} /\ kubelet = "Stopped"
    BY <1>2 DEF Reap, CanReap
  <2>2. Pinned
    BY <2>1 DEF Pinned
  <2>3. proc = NoCommand
    BY <2>1 DEF Inv, ProcessMatchesState
  <2>4. HandlesPin' /\ ProcessMatchesState' /\ NoStrayKubelet'
    BY <1>2, <2>1, <2>3 DEF Reap, Inv, HandlesPin, ProcessMatchesState, NoStrayKubelet
  <2> QED
    BY <1>1, <2>2, <2>4, OthersKeep DEF SCMStep, Inv
<1>3. CASE ~Reap
  <2>1. SameRegistration
    BY <1>3 DEF SCMStep, SCMNext, SameRegistration, KubeletComesUp, KubeletEnds,
       KubeletDies, RecoveryRestart, InstallOverlay, OverlayComesUp, OverlayGivesUp,
       OverlayEnds, OverlayDies, OutsiderOpens, OutsiderCloses
  <2>2. \A q \in Processes : ProcessInv(q)'
    BY <1>1, <2>1, OthersKeep, SameIsPinned DEF SCMStep
  <2>3. HandlesPin'
    BY <1>3, <2>1 DEF SCMStep, SCMNext, SameRegistration, Inv, HandlesPin, Registered,
       KubeletComesUp, KubeletEnds,
       KubeletDies, RecoveryRestart, InstallOverlay, OverlayComesUp, OverlayGivesUp,
       OverlayEnds, OverlayDies, OutsiderOpens, OutsiderCloses
  <2>4. \/ CanStartKubelet /\ LaunchKubelet
        \/ kubelet' = "Stopped" /\ proc' = NoCommand
        \/ KubeletComesUp
        \/ UNCHANGED <<kubelet, proc>>
    BY <1>3 DEF SCMStep, SCMNext, KubeletEnds, KubeletDies, RecoveryRestart, InstallOverlay,
       OverlayComesUp, OverlayGivesUp, OverlayEnds, OverlayDies, OutsiderOpens, OutsiderCloses
  <2>5. ProcessMatchesState' /\ NoStrayKubelet'
    <3>1. CASE CanStartKubelet /\ LaunchKubelet
      BY <2>1, <3>1, LaunchInv DEF SameRegistration
    <3>2. CASE kubelet' = "Stopped" /\ proc' = NoCommand
      BY <3>2 DEF ProcessMatchesState, NoStrayKubelet
    <3>3. CASE KubeletComesUp
      BY <3>3 DEF KubeletComesUp, Inv, ProcessMatchesState, NoStrayKubelet, Registered
    <3>4. CASE UNCHANGED <<kubelet, proc>>
      BY <2>1, <3>4, ServicesKeep DEF SameRegistration
    <3> QED
      BY <2>4, <3>1, <3>2, <3>3, <3>4
  <2> QED
    BY <2>2, <2>3, <2>5 DEF Inv
<1> QED
  BY <1>2, <1>3

\* A reboot preserves the invariant: it ends every process.
LEMMA RebootInv ==
  ASSUME TypeOK, Inv, Reboot
  PROVE  Inv'
<1> ProcessTypes /\ ServiceTypes
  BY DEF TypeOK, SCMTypeOK, ProcessTypes, ServiceTypes
<1>1. \A q \in Processes : pc'[q] = "idle" /\ conf'[q] = NoCommand
  BY DEF Reboot
<1>2. \A q \in Processes : ProcessInv(q)'
  BY <1>1 DEF ProcessInv, HoldsHandle, OnTrack, ConfigurePrepared, ConfRead,
     InitializePrepared, Unheld
<1>3. /\ handles' = {}
      /\ proc' = image'
      /\ kubelet' = IF image' = NoCommand THEN "Stopped" ELSE "StartPending"
  BY DEF Reboot, SCMReboots
<1>4. HandlesPin' /\ ProcessMatchesState' /\ NoStrayKubelet'
  BY <1>3 DEF HandlesPin, ProcessMatchesState, NoStrayKubelet, Registered
<1> QED
  BY <1>2, <1>4 DEF Inv

-----------------------------------------------------------------------------
(* The theorems about safety *)

IInv == TypeOK /\ Inv

\* A fresh host satisfies the inductive invariant.
LEMMA InitIInv == Init => IInv
<1> SUFFICES ASSUME Init PROVE IInv
  OBVIOUS
<1>1. TypeOK
  BY DEF Init, SCMInit, TypeOK, SCMTypeOK
<1>2. \A p \in Processes : pc[p] = "idle" /\ conf[p] = NoCommand
  BY DEF Init
<1>3. \A p \in Processes : ProcessInv(p)
  BY <1>2 DEF ProcessInv, HoldsHandle, OnTrack, ConfigurePrepared, ConfRead,
     InitializePrepared, Unheld
<1>4. HandlesPin /\ ProcessMatchesState /\ NoStrayKubelet
  BY DEF Init, SCMInit, HandlesPin, ProcessMatchesState, NoStrayKubelet
<1> QED
  BY <1>1, <1>3, <1>4 DEF IInv, Inv

\* Every action preserves the inductive invariant.
LEMMA NextIInv == IInv /\ Next => IInv'
<1> SUFFICES ASSUME TypeOK, Inv, Next PROVE TypeOK' /\ Inv'
  BY DEF IInv
<1>1. ASSUME NEW p \in Processes, NewWinNodeBootstrapper(p) PROVE TypeOK' /\ Inv'
  BY <1>1, OtherStepType, OtherStepInv
<1>2. ASSUME NEW p \in Processes, WMCBStep(p) PROVE TypeOK' /\ Inv'
  BY <1>2, StopStepType, StopStepInv, StartStepType, StartStepInv, InitializeStepType,
     InitializeStepInv, ConfigureStepType, ConfigureStepInv, OtherStepType, OtherStepInv
  DEF WMCBStep
<1>3. ASSUME NEW p \in Processes, Killed(p) PROVE TypeOK' /\ Inv'
  BY <1>3, OtherStepType, OtherStepInv
<1>4. CASE SCMStep
  BY <1>4, SCMStepType, SCMStepInv
<1>5. CASE Reboot
  BY <1>5, RebootType, RebootInv
<1> QED
  BY <1>1, <1>2, <1>3, <1>4, <1>5 DEF Next

\* Nor does a step that changes nothing break it.
LEMMA StutterIInv == IInv /\ UNCHANGED vars => IInv'
BY DEF IInv, TypeOK, SCMTypeOK, Inv, HandlesPin, ProcessMatchesState, NoStrayKubelet,
   Registered, ProcessInv, HoldsHandle, OnTrack, ConfigurePrepared, ConfRead,
   InitializePrepared

\* The inductive invariant holds in every state of every behaviour.
THEOREM AlwaysIInv == Spec => []IInv
<1>1. IInv /\ [Next]_vars => IInv'
  BY NextIInv, StutterIInv
<1> QED
  BY <1>1, InitIInv, PTL DEF Spec

\* An open handle pins the registration, a live kubelet belongs to it, and what a
\* wmcb process knows of it is true, whatever fails or interleaves.
THEOREM InvHolds == Spec => []Inv
BY AlwaysIInv, PTL DEF IInv

\* Type correctness: every variable of wmcb and of the SCM keeps to its type,
\* which for conf means that configure-cni never adds options to no command line.
THEOREM TypeCorrect == Spec => []TypeOK
BY AlwaysIInv, PTL DEF IInv

\* However the runs of wmcb, their failures and the services interleave, no
\* kubelet of an earlier initialize-kubelet outlives the registration it came from.
THEOREM NoStrayKubeletHolds == Spec => []NoStrayKubelet
<1>1. IInv => NoStrayKubelet
  BY DEF IInv, Inv
<1> QED
  BY <1>1, AlwaysIInv, PTL

\* What configure-cni read stays about the service that is registered, whatever
\* other wmcb processes do between its config() and its UpdateConfig.
THEOREM ConfigNotStaleHolds == Spec => []ConfigNotStale
<1>1. IInv => ConfigNotStale
  BY DEF IInv, Inv, ProcessInv, HoldsHandle, HandlesPin, ConfigurePrepared, ConfRead,
     ConfigNotStale, Unheld
<1> QED
  BY <1>1, AlwaysIInv, PTL

-----------------------------------------------------------------------------
(* How a step may change the registration *)

\* The four things a step can do to the registered command line.
RegistrationStep ==
  \/ image' = image
  \/ image = NoCommand /\ \E i \in Ignitions : image' = [ign |-> i, cni |-> FALSE]
  \/ image # NoCommand /\ image' = WithCNI(image)
  \/ image # NoCommand /\ image' = NoCommand

\* Every step does one of these four.
LEMMA RegistrationSteps == IInv /\ Next => RegistrationStep
<1> SUFFICES ASSUME TypeOK, Inv, Next PROVE RegistrationStep
  BY DEF IInv
<1> ProcessTypes /\ ServiceTypes
  BY DEF TypeOK, SCMTypeOK, ProcessTypes, ServiceTypes
<1> USE DEF RegistrationStep
<1>1. ASSUME NEW p \in Processes, CreateService(p) PROVE RegistrationStep
  <2>1. CASE Registered
    BY <1>1, <2>1 DEF CreateService
  <2>2. CASE ~Registered
    <3>1. pc[p] = "create" /\ image' = conf[p] /\ image = NoCommand
      BY <1>1, <2>2 DEF CreateService, Registered
    <3>2. ProcessInv(p)
      BY DEF Inv
    <3>3. cmd[p] = "initialize-kubelet"
      BY <3>1, <3>2 DEF ProcessInv, OnTrack
    <3>4. conf[p] # NoCommand /\ ~conf[p].cni
      BY <3>1, <3>2, <3>3 DEF ProcessInv, InitializePrepared
    <3>5. conf[p] \in CommandLine
      BY <3>4 DEF ProcessTypes
    <3>6. PICK i \in Ignitions : conf[p] = [ign |-> i, cni |-> FALSE]
      BY <3>4, <3>5 DEF CommandLine
    <3> QED
      BY <3>1, <3>6
  <2> QED
    BY <2>1, <2>2
<1>2. ASSUME NEW p \in Processes, UpdateConfig(p) PROVE RegistrationStep
  <2>1. pc[p] = "updateConfig" /\ (image' = image \/ image' = conf[p])
    BY <1>2 DEF UpdateConfig
  <2>2. ProcessInv(p)
    BY DEF Inv
  <2>3. /\ p \in handles
        /\ conf[p] # NoCommand /\ conf[p].ign = image.ign /\ conf[p].cni
    BY <2>1, <2>2 DEF ProcessInv, HoldsHandle, OnTrack, ConfigurePrepared, ConfRead, Unheld
  <2>4. image # NoCommand
    BY <2>3 DEF Inv, HandlesPin, Registered
  <2>5. conf[p] \in CommandLine /\ image \in CommandLine
    BY <2>3, <2>4 DEF ProcessTypes, ServiceTypes
  <2>6. conf[p] = WithCNI(image)
    BY <2>3, <2>5, SameIgnition
  <2> QED
    BY <2>1, <2>4, <2>6
<1>3. ASSUME NEW p \in Processes, WMCBStep(p), ~CreateService(p), ~UpdateConfig(p)
      PROVE  image' = image
  BY <1>3 DEF WMCBStep, StopStep, StopQuery, StopOverlayQuery, StopOverlayCall, AwaitOverlay,
     StopKubelet, AwaitKubelet, StopTimesOut, StartStep, StartQuery, StartKubelet,
     StartOverlayQuery, StartOverlayCall, InitializeStep, Remove, RefreshManager, Reconnect,
     InitializeKubeletFiles, SetRecoveryActions, ConfigureStep, ReadConfig, ConfigureCNI,
     Report, CallFails
<1>4. ASSUME NEW p \in Processes, NewWinNodeBootstrapper(p) \/ Killed(p)
      PROVE  image' = image
  BY <1>4 DEF NewWinNodeBootstrapper, Killed
<1>5. CASE SCMStep
  BY <1>5 DEF SCMStep, SCMNext, KubeletComesUp, KubeletEnds, KubeletDies, RecoveryRestart,
     Reap, CanReap, Registered, InstallOverlay, OverlayComesUp, OverlayGivesUp, OverlayEnds,
     OverlayDies, OutsiderOpens, OutsiderCloses
<1>6. CASE Reboot
  BY <1>6 DEF Reboot, SCMReboots
<1> QED
  BY <1>1, <1>2, <1>3, <1>4, <1>5, <1>6 DEF Next

\* A registration changes its command line only by gaining the CNI options.
THEOREM OnlyGainsCNIHolds == Spec => OnlyGainsCNI
<1>1. IInv /\ [Next]_vars => [Registered /\ Registered' => image' \in {image, WithCNI(image)}]_vars
  BY RegistrationSteps DEF RegistrationStep, Registered
<1> QED
  BY <1>1, AlwaysIInv, PTL DEF Spec, OnlyGainsCNI

\* What holds when a process is about to print its success message.
LEMMA TruthAtReport ==
  ASSUME IInv, NEW p \in Processes, pc[p] = "report"
  PROVE  /\ Registered
         /\ conf[p].ign = image.ign
         /\ cmd[p] = "configure-cni" => image.cni
         /\ cmd[p] = "initialize-kubelet" => recovery
         /\ cmd[p] \in {"initialize-kubelet", "configure-cni"}
<1>1. ProcessInv(p) /\ HandlesPin
  BY DEF IInv, Inv
<1>2. cmd[p] \in {"initialize-kubelet", "configure-cni"}
  BY DEF IInv, TypeOK
<1>3. Registered
  BY <1>1 DEF ProcessInv, HoldsHandle, HandlesPin, Unheld
<1> QED
  BY <1>1, <1>2, <1>3 DEF ProcessInv, ConfigurePrepared, ConfRead, InitializePrepared

\* Whatever failed, raced or was ignored on the way, a success message is true:
\* the registration is the one this command made or completed.
THEOREM SuccessIsTruthfulHolds == Spec => SuccessIsTruthful
<1> DEFINE A ==
      \A p \in Processes : pc[p] = "report" /\ outcome'[p] = "success" =>
        /\ Registered
        /\ conf[p].ign = image.ign
        /\ IF cmd[p] = "configure-cni" THEN image.cni ELSE recovery
<1>1. IInv => A
  BY TruthAtReport
<1>2. IInv /\ [Next]_vars => [A]_vars
  BY <1>1
<1> HIDE DEF A
<1>3. Spec => [][A]_vars
  BY <1>2, AlwaysIInv, PTL DEF Spec
<1> QED
  BY <1>3 DEF A, SuccessIsTruthful

-----------------------------------------------------------------------------
(* wmcb implements NodeService *)

\* A step of p that neither starts nor successfully ends a command.
Silent(p) ==
  /\ pc[p] # "idle"
  /\ pc'[p] = "idle" => outcome'[p] # "success"
  /\ \A q \in Processes \ {p} :
       pc'[q] = pc[q] /\ outcome'[q] = outcome[q] /\ cmd'[q] = cmd[q]

\* A silent step leaves what has been reported as it was.
LEMMA SilentReports ==
  ASSUME NEW p \in Processes, Silent(p)
  PROVE  Reported' = Reported
BY DEF Silent, Reported

\* A command that fails or is killed reports nothing.
LEMMA ExitIsSilent ==
  ASSUME TypeOK, NEW p \in Processes, pc[p] # "idle", NEW r \in {"error", "killed"},
         Exit(p, r)
  PROVE  Silent(p)
BY DEF TypeOK, Exit, Goto, Silent

\* A command that goes on reports nothing.
LEMMA ContinueIsSilent ==
  ASSUME TypeOK, NEW p \in Processes, pc[p] # "idle", NEW label \in Labels \ {"idle"},
         Goto(p, label), UNCHANGED <<cmd, outcome>>
  PROVE  Silent(p)
BY DEF TypeOK, Goto, Silent

\* Nor does one whose stop() fails.
LEMMA StopFailsIsSilent ==
  ASSUME TypeOK, NEW p \in Processes, pc[p] # "idle", StopFails(p)
  PROVE  Silent(p)
BY ExitIsSilent, ContinueIsSilent DEF StopFails, Continue

\* Nor does one whose stop() returns nil.
LEMMA AfterStopIsSilent ==
  ASSUME TypeOK, NEW p \in Processes, pc[p] # "idle", Continue(p, AfterStop(p))
  PROVE  Silent(p)
<1>1. ProcessTypes
  BY DEF TypeOK, SCMTypeOK, ProcessTypes
<1>2. AfterStop(p) \in {"readConfig", "updateConfig", "remove"}
  BY <1>1, AfterStopLabel
<1> QED
  BY <1>2, ContinueIsSilent DEF Continue

\* Only the success message and the start of a command are visible in Reported.
LEMMA WMCBStepIsSilent ==
  ASSUME TypeOK, NEW p \in Processes, WMCBStep(p) \/ Killed(p), ~Report(p)
  PROVE  Silent(p)
<1>1. CASE StopStep(p)
  <2>1. CASE StopQuery(p)
    BY <2>1, ContinueIsSilent, AfterStopIsSilent DEF StopQuery, Continue
  <2>2. CASE StopOverlayQuery(p)
    BY <2>2, ContinueIsSilent DEF StopOverlayQuery, Continue
  <2>3. CASE StopOverlayCall(p)
    BY <2>3, ContinueIsSilent, StopFailsIsSilent DEF StopOverlayCall, Continue
  <2>4. CASE AwaitOverlay(p)
    BY <2>4, ContinueIsSilent DEF AwaitOverlay, Continue
  <2>5. CASE StopKubelet(p)
    BY <2>5, ContinueIsSilent, StopFailsIsSilent DEF StopKubelet, Continue
  <2>6. CASE AwaitKubelet(p)
    BY <2>6, AfterStopIsSilent DEF AwaitKubelet
  <2>7. CASE StopTimesOut(p)
    BY <2>7, StopFailsIsSilent DEF StopTimesOut
  <2> QED
    BY <1>1, <2>1, <2>2, <2>3, <2>4, <2>5, <2>6, <2>7 DEF StopStep
<1>2. CASE StartStep(p)
  <2>1. pc[p] # "idle"
    BY <1>2 DEF StartStep, StartQuery, StartKubelet, StartOverlayQuery, StartOverlayCall
  <2>2. \/ Exit(p, "error")
        \/ \E label \in {"report"} \cup StartLabels : Continue(p, label)
    BY <1>2 DEF StartStep, StartQuery, StartKubelet, StartOverlayQuery, StartOverlayCall
  <2> QED
    BY <2>1, <2>2, ExitIsSilent, ContinueIsSilent DEF Continue
<1>3. CASE InitializeStep(p)
  <2>1. pc[p] # "idle"
    BY <1>3 DEF InitializeStep, Remove, RefreshManager, Reconnect, InitializeKubeletFiles,
       CreateService, SetRecoveryActions
  <2>2. \/ Exit(p, "error")
        \/ \E label \in {"start"} \cup InitLabels : Goto(p, label) /\ UNCHANGED <<cmd, outcome>>
    BY <1>3 DEF InitializeStep, Remove, RefreshManager, Reconnect, InitializeKubeletFiles,
       CreateService, SetRecoveryActions, Continue
  <2> QED
    BY <2>1, <2>2, ExitIsSilent, ContinueIsSilent
<1>4. CASE ConfigureStep(p)
  <2>1. pc[p] # "idle"
    BY <1>4 DEF ConfigureStep, ReadConfig, ConfigureCNI, UpdateConfig
  <2>2. \/ Exit(p, "error")
        \/ \E label \in {"configureCNI", "stop", "start"} :
             Goto(p, label) /\ UNCHANGED <<cmd, outcome>>
    BY <1>4 DEF ConfigureStep, ReadConfig, ConfigureCNI, UpdateConfig, Continue
  <2> QED
    BY <2>1, <2>2, ExitIsSilent, ContinueIsSilent
<1>5. CASE CallFails(p)
  BY <1>5, ExitIsSilent, StopFailsIsSilent DEF CallFails
<1>6. CASE Killed(p)
  BY <1>6, ExitIsSilent DEF Killed
<1> QED
  BY <1>1, <1>2, <1>3, <1>4, <1>5, <1>6 DEF WMCBStep

\* Every step of wmcb and of the SCM is a step of NodeService or a stutter.
LEMMA StepImplements == IInv /\ [Next]_vars => [Promise!Next]_(Promise!vars)
<1> SUFFICES ASSUME IInv, TypeOK, Inv, [Next]_vars PROVE [Promise!Next]_(Promise!vars)
  BY DEF IInv
<1> USE DEF Promise!vars
<1>1. ASSUME NEW p \in Processes, NewWinNodeBootstrapper(p) PROVE Promise!Restart(p)
  <2>1. PICK c \in Commands :
          /\ cmd' = [cmd EXCEPT ![p] = c]
          /\ OpenServices(p, c) \/ NoService(p, c) \/ NoBootstrapper(p)
    BY <1>1 DEF NewWinNodeBootstrapper
  <2>2. /\ image' = image
        /\ pc[p] = "idle"
        /\ pc'[p] = "idle" => outcome'[p] # "success"
        /\ \A q \in Processes \ {p} :
             pc'[q] = pc[q] /\ outcome'[q] = outcome[q] /\ cmd'[q] = cmd[q]
    BY <1>1, <2>1 DEF NewWinNodeBootstrapper, OpenServices, NoService, NoBootstrapper,
       Goto, TypeOK
  <2>3. Reported' = [Reported EXCEPT ![p] = "none"]
    BY <2>2 DEF Reported
  <2> QED
    BY <2>2, <2>3 DEF Promise!Restart
<1>2. ASSUME NEW p \in Processes, Report(p)
      PROVE  Promise!AnnounceInitialized(p) \/ Promise!AnnounceConfigured(p)
  <2>1. pc[p] = "report" /\ image' = image
    BY <1>2 DEF Report
  <2>2. /\ image # NoCommand
        /\ cmd[p] = "configure-cni" => image.cni
        /\ cmd[p] \in {"initialize-kubelet", "configure-cni"}
    BY <2>1, TruthAtReport DEF Registered
  <2>3. /\ pc'[p] = "idle" /\ outcome'[p] = "success" /\ cmd' = cmd
        /\ \A q \in Processes \ {p} : pc'[q] = pc[q] /\ outcome'[q] = outcome[q]
    BY <1>2 DEF Report, Exit, Goto, TypeOK
  <2>4. Reported' = [Reported EXCEPT ![p] = cmd[p]]
    BY <2>3 DEF Reported
  <2> QED
    BY <2>1, <2>2, <2>4 DEF Promise!AnnounceInitialized, Promise!AnnounceConfigured
<1>3. RegistrationStep /\ Reported' = Reported => [Promise!Next]_(Promise!vars)
  BY DEF RegistrationStep, WithCNI, Promise!Next, Promise!Install, Promise!AddCNI,
     Promise!Withdraw
<1>4. ASSUME NEW p \in Processes, WMCBStep(p) \/ Killed(p), ~Report(p)
      PROVE  Reported' = Reported
  BY <1>4, WMCBStepIsSilent, SilentReports
<1>5. CASE SCMStep
  <2>1. Reported' = Reported
    BY <1>5 DEF SCMStep, Reported
  <2> QED
    BY <1>3, <1>5, <2>1, RegistrationSteps DEF Next
<1>6. CASE Reboot
  <2>1. Reported' = Reported
    BY <1>6 DEF Reboot, Reported
  <2> QED
    BY <1>3, <1>6, <2>1, RegistrationSteps DEF Next
<1>7. CASE UNCHANGED vars
  BY <1>7 DEF Reported
<1>8. CASE \E p \in Processes : NewWinNodeBootstrapper(p)
  BY <1>1, <1>8 DEF Promise!Next
<1>9. CASE \E p \in Processes : WMCBStep(p) \/ Killed(p)
  <2>1. PICK p \in Processes : WMCBStep(p) \/ Killed(p)
    BY <1>9
  <2>2. CASE Report(p)
    BY <1>2, <2>2 DEF Promise!Next
  <2>3. CASE ~Report(p)
    BY <1>3, <1>4, <2>1, <2>3, RegistrationSteps DEF Next
  <2> QED
    BY <2>2, <2>3
<1> QED
  BY <1>5, <1>6, <1>7, <1>8, <1>9 DEF Next

\* wmcb implements NodeService: the initial states map to its initial state and
\* every step to one of its steps or to a stutter.
THEOREM Implements == Spec => ImplementsNodeService
<1>1. Init => Promise!Init
  BY DEF Init, SCMInit, Promise!Init, Reported
<1> QED
  BY <1>1, StepImplements, AlwaysIInv, PTL DEF Spec, ImplementsNodeService, Promise!Spec

-----------------------------------------------------------------------------
(* The patient operator *)

\* The operator of tools/ansible/tasks/wsu/main.yaml: one wmcb at a time, which is
\* not run before the services are settled.
PatientlyAlone == PatientOperator /\ \A p, q \in Processes : p = q

\* By where a command is: the kubelet is down, and nothing but this command starts
\* it; the kubelet is up, and nobody stops it.
Succeeded(p) == pc[p] = "idle" /\ outcome[p] = "success"

Down(p) ==
  \/ pc[p] \in CNILabels \cup {"create", "setRecovery", "start", "startKubelet"}
  \/ pc[p] \in StopLabels /\ caller[p] = "refresh"

Up(p) == pc[p] \in {"startOverlay", "startOverlayCall", "report"} \/ Succeeded(p)

\* stop() meets no service between two states, and the one that refresh calls finds
\* it stopped already.
ServingOK(p) ==
  /\ pc[p] = "stop" => kubelet \in {"Stopped", "Running"}
  /\ pc[p] \in StopLabels /\ caller[p] = "refresh" => pc[p] = "stop"
  /\ Down(p) => kubelet = "Stopped"
  /\ Up(p) => kubelet \in {"StartPending", "Running"} /\ proc = image
  /\ pc[p] \in {"setRecovery", "start", "startKubelet"} \/ Up(p) => ~marked

Serving == ~restartDue /\ \A p \in Processes : ServingOK(p)

\* stop() of a patient operator's wmcb.
LEMMA StopServing ==
  ASSUME TypeOK, Inv, NEW p \in Processes, ServingOK(p), StopStep(p)
  PROVE  ServingOK(p)'
<1> ProcessTypes /\ ServiceTypes
  BY DEF TypeOK, SCMTypeOK, ProcessTypes, ServiceTypes
<1> USE DEF ServingOK, Down, Up, Succeeded, ProcessTypes
<1>1. CASE StopQuery(p)
  BY <1>1 DEF StopQuery, Continue, Goto, AfterStop
<1>2. CASE StopOverlayQuery(p)
  BY <1>2 DEF StopOverlayQuery, Continue, Goto
<1>3. CASE StopOverlayCall(p)
  BY <1>3 DEF StopOverlayCall, StopFails, Continue, Exit, Goto
<1>4. CASE AwaitOverlay(p)
  BY <1>4 DEF AwaitOverlay, Continue, Goto
<1>5. CASE StopKubelet(p)
  BY <1>5 DEF StopKubelet, StopFails, Continue, Exit, Goto
<1>6. CASE AwaitKubelet(p)
  BY <1>6 DEF AwaitKubelet, Continue, Goto, AfterStop
<1>7. CASE StopTimesOut(p)
  BY <1>7 DEF StopTimesOut, StopFails, Continue, Exit, Goto
<1> QED
  BY <1>1, <1>2, <1>3, <1>4, <1>5, <1>6, <1>7 DEF StopStep

\* start(), which finds the kubelet stopped and leaves it coming up.
LEMMA StartServing ==
  ASSUME TypeOK, Inv, NEW p \in Processes, ServingOK(p), StartStep(p)
  PROVE  ServingOK(p)'
<1> ProcessTypes /\ ServiceTypes
  BY DEF TypeOK, SCMTypeOK, ProcessTypes, ServiceTypes
<1> USE DEF ServingOK, Down, Up, Succeeded, ProcessTypes
<1>1. CASE StartQuery(p)
  BY <1>1 DEF StartQuery, Continue, Goto
<1>2. CASE StartKubelet(p)
  BY <1>2 DEF StartKubelet, LaunchKubelet, Continue, Exit, Goto
<1>3. CASE StartOverlayQuery(p)
  BY <1>3 DEF StartOverlayQuery, Continue, Goto
<1>4. CASE StartOverlayCall(p)
  BY <1>4 DEF StartOverlayCall, Continue, Exit, Goto
<1> QED
  BY <1>1, <1>2, <1>3, <1>4 DEF StartStep

\* initialize-kubelet registers a service only when no kubelet is alive.
LEMMA InitializeServing ==
  ASSUME TypeOK, Inv, NEW p \in Processes, ServingOK(p), InitializeStep(p)
  PROVE  ServingOK(p)'
<1> ProcessTypes /\ ServiceTypes
  BY DEF TypeOK, SCMTypeOK, ProcessTypes, ServiceTypes
<1> USE DEF ServingOK, Down, Up, Succeeded, ProcessTypes
<1>1. CASE Remove(p)
  BY <1>1 DEF Remove, Continue, Exit, Goto
<1>2. CASE RefreshManager(p)
  BY <1>2 DEF RefreshManager, Goto
<1>3. CASE Reconnect(p)
  BY <1>3 DEF Reconnect, Continue, Goto
<1>4. CASE InitializeKubeletFiles(p)
  BY <1>4 DEF InitializeKubeletFiles, Exit, Goto, Inv, ProcessMatchesState
<1>5. CASE CreateService(p)
  BY <1>5 DEF CreateService, Exit, Goto
<1>6. CASE SetRecoveryActions(p)
  BY <1>6 DEF SetRecoveryActions, Exit, Goto
<1> QED
  BY <1>1, <1>2, <1>3, <1>4, <1>5, <1>6 DEF InitializeStep

\* configure-cni writes the configuration of a service that is stopped.
LEMMA ConfigureServing ==
  ASSUME TypeOK, Inv, NEW p \in Processes, ServingOK(p), ConfigureStep(p)
  PROVE  ServingOK(p)'
<1> ProcessTypes /\ ServiceTypes
  BY DEF TypeOK, SCMTypeOK, ProcessTypes, ServiceTypes
<1> USE DEF ServingOK, Down, Up, Succeeded, ProcessTypes
<1>1. CASE ReadConfig(p)
  BY <1>1 DEF ReadConfig, Goto
<1>2. CASE ConfigureCNI(p)
  BY <1>2 DEF ConfigureCNI, Exit, Goto
<1>3. CASE UpdateConfig(p)
  BY <1>3 DEF UpdateConfig, Continue, Exit, Goto
<1> QED
  BY <1>1, <1>2, <1>3 DEF ConfigureStep

\* How commands begin, if the services are settled, and end.
LEMMA OtherServing ==
  ASSUME TypeOK, Inv, NEW p \in Processes, ServingOK(p),
         \/ PatientOperator /\ NewWinNodeBootstrapper(p)
         \/ Report(p) \/ CallFails(p) \/ Killed(p)
  PROVE  ServingOK(p)'
<1> ProcessTypes /\ ServiceTypes
  BY DEF TypeOK, SCMTypeOK, ProcessTypes, ServiceTypes
<1> USE DEF ServingOK, Down, Up, Succeeded, ProcessTypes
<1>1. CASE PatientOperator /\ NewWinNodeBootstrapper(p)
  <2>1. PICK c \in Commands : OpenServices(p, c) \/ NoService(p, c) \/ NoBootstrapper(p)
    BY <1>1 DEF NewWinNodeBootstrapper
  <2>2. /\ pc[p] = "idle" /\ kubelet \in {"Stopped", "Running"}
        /\ UNCHANGED <<image, marked, recovery, kubelet, proc, overlay, restartDue>>
    BY <1>1 DEF NewWinNodeBootstrapper, Settled
  <2>3. CASE OpenServices(p, c)
    BY <2>2, <2>3 DEF OpenServices, Goto
  <2>4. CASE NoService(p, c)
    BY <2>2, <2>4 DEF NoService, Goto
  <2>5. CASE NoBootstrapper(p)
    BY <2>2, <2>5 DEF NoBootstrapper
  <2> QED
    BY <2>1, <2>3, <2>4, <2>5
<1>2. CASE Report(p)
  BY <1>2 DEF Report, Exit, Goto
<1>3. CASE CallFails(p)
  BY <1>3 DEF CallFails, StopFails, Continue, Exit, Goto
<1>4. CASE Killed(p)
  BY <1>4 DEF Killed, Exit, Goto
<1> QED
  BY <1>1, <1>2, <1>3, <1>4

\* What the services do by themselves, if none dies.
LEMMA SCMServing ==
  ASSUME TypeOK, Inv, Serving, "crash" \notin FaultKinds, SCMStep
  PROVE  Serving'
<1> ProcessTypes /\ ServiceTypes
  BY DEF TypeOK, SCMTypeOK, ProcessTypes, ServiceTypes
<1>1. ~restartDue'
  BY DEF Serving, SCMStep, SCMNext, KubeletComesUp, KubeletEnds, KubeletDies, RecoveryRestart,
     Reap, InstallOverlay, OverlayComesUp, OverlayGivesUp, OverlayEnds, OverlayDies,
     OutsiderOpens, OutsiderCloses, Fault
<1>2. \/ KubeletComesUp \/ KubeletEnds \/ Reap
      \/ UNCHANGED <<kubelet, proc, image, marked>>
  BY DEF Serving, SCMStep, SCMNext, KubeletDies, RecoveryRestart, InstallOverlay,
     OverlayComesUp, OverlayGivesUp, OverlayEnds, OverlayDies, OutsiderOpens, OutsiderCloses,
     Fault
<1>3. ASSUME NEW p \in Processes
      PROVE  ServingOK(p)'
  <2> USE DEF ServingOK, Down, Up, Succeeded
  <2>1. ServingOK(p) /\ UNCHANGED <<pc, caller, outcome>>
    BY DEF Serving, SCMStep
  <2>2. CASE KubeletComesUp
    BY <2>1, <2>2 DEF KubeletComesUp
  <2>3. CASE KubeletEnds
    BY <2>1, <2>3 DEF KubeletEnds
  <2>4. CASE Reap
    BY <2>1, <2>4 DEF Reap, CanReap
  <2>5. CASE UNCHANGED <<kubelet, proc, image, marked>>
    BY <2>1, <2>5
  <2> QED
    BY <1>2, <2>2, <2>3, <2>4, <2>5
<1> QED
  BY <1>1, <1>3 DEF Serving

\* After a reboot the SCM starts what is registered.
LEMMA RebootServing ==
  ASSUME TypeOK, Inv, Serving, Reboot
  PROVE  Serving'
<1> ProcessTypes /\ ServiceTypes
  BY DEF TypeOK, SCMTypeOK, ProcessTypes, ServiceTypes
<1>1. ~restartDue' /\ proc' = image' /\ ~marked'
      /\ (~marked => image' = image)
      /\ (image' # NoCommand => kubelet' = "StartPending")
  BY DEF Reboot, SCMReboots
<1>2. ASSUME NEW p \in Processes
      PROVE  ServingOK(p)'
  <2>1. pc'[p] = "idle" /\ (outcome'[p] = "success" => Succeeded(p))
    BY DEF Reboot, Succeeded
  <2>2. Succeeded(p) => ~marked /\ image # NoCommand
    BY DEF Serving, ServingOK, Up, Inv, ProcessMatchesState
  <2> QED
    BY <1>1, <2>1, <2>2 DEF ServingOK, Down, Up, Succeeded
<1> QED
  BY <1>1, <1>2 DEF Serving

\* Every step of a patient operator's wmcb keeps the kubelet where the label says.
LEMMA NextServing ==
  ASSUME PatientlyAlone, "crash" \notin FaultKinds, IInv, Serving, [Next]_vars
  PROVE  Serving'
<1> TypeOK /\ Inv
  BY DEF IInv
<1>1. ASSUME NEW p \in Processes, NewWinNodeBootstrapper(p) \/ WMCBStep(p) \/ Killed(p)
      PROVE  Serving'
  <2>1. ServingOK(p) /\ \A q \in Processes : q = p
    BY DEF Serving, PatientlyAlone
  <2>2. ServingOK(p)'
    BY <1>1, <2>1, StopServing, StartServing, InitializeServing, ConfigureServing, OtherServing
    DEF WMCBStep, PatientlyAlone
  <2>3. UNCHANGED restartDue
    BY <1>1 DEF NewWinNodeBootstrapper, WMCBStep, StopStep, StopQuery, StopOverlayQuery,
       StopOverlayCall, AwaitOverlay, StopKubelet, AwaitKubelet, StopTimesOut, StartStep,
       StartQuery, StartKubelet, StartOverlayQuery, StartOverlayCall, InitializeStep, Remove,
       RefreshManager, Reconnect, InitializeKubeletFiles, CreateService, SetRecoveryActions,
       ConfigureStep, ReadConfig, ConfigureCNI, UpdateConfig, Report, CallFails, Killed
  <2> QED
    BY <2>1, <2>2, <2>3 DEF Serving
<1>2. CASE UNCHANGED vars
  BY <1>2 DEF Serving, ServingOK, Down, Up, Succeeded
<1> QED
  BY <1>1, <1>2, SCMServing, RebootServing DEF Next

\* As long as one wmcb at a time is run on settled services, and no kubelet dies,
\* success means a kubelet that is up, or coming up, with the registered command
\* line, whatever calls fail or time out, and whenever wmcb is killed or the host is
\* rebooted.
THEOREM SuccessServes ==
  ASSUME PatientlyAlone, "crash" \notin FaultKinds
  PROVE  Spec => []SuccessMeansServing
<1>1. Init => Serving
  BY DEF Init, SCMInit, Serving, ServingOK, Down, Up, Succeeded
<1>2. IInv /\ Serving /\ [Next]_vars => Serving'
  BY NextServing
<1>3. Serving => SuccessMeansServing
  BY DEF Serving, ServingOK, Up, Succeeded, SuccessMeansServing
<1> QED
  BY <1>1, <1>2, <1>3, AlwaysIInv, PTL DEF Spec

\* The dependent service is not down unknown to the command: one that was there when
\* the command looked is started again by it, and what is installed later is refused
\* to be stopped, or finds the kubelet running.
OverlayOK(p) ==
  /\ pc[p] \in {"stopOverlay", "stopOverlayCall", "awaitOverlay"} => deps[p]
  /\ cmd[p] = "configure-cni" /\ pc[p] \in StopLabels \cup CNILabels /\ ~deps[p] =>
       overlay = "Absent" \/ (kubelet = "Running" /\ overlay \in {"StartPending", "Running"})
  /\ pc[p] \in {"start", "startKubelet"} /\ ~deps[p] => overlay = "Absent"
  /\ pc[p] = "report" \/ Succeeded(p) => overlay \in {"Absent", "StartPending", "Running"}

\* stop() of a patient operator's wmcb: only what it knows of is stopped.
LEMMA StopOverlayOK ==
  ASSUME TypeOK, Inv, NEW p \in Processes, ServingOK(p), OverlayOK(p), StopStep(p)
  PROVE  OverlayOK(p)'
<1> ProcessTypes /\ ServiceTypes
  BY DEF TypeOK, SCMTypeOK, ProcessTypes, ServiceTypes
<1> OnTrack(p)
  BY DEF Inv, ProcessInv
<1> USE DEF ServingOK, OverlayOK, Down, Up, Succeeded, ProcessTypes, OnTrack
<1>1. CASE StopQuery(p)
  BY <1>1 DEF StopQuery, Continue, Goto, AfterStop
<1>2. CASE StopOverlayQuery(p)
  BY <1>2 DEF StopOverlayQuery, Continue, Goto
<1>3. CASE StopOverlayCall(p)
  BY <1>3 DEF StopOverlayCall, StopFails, Continue, Exit, Goto
<1>4. CASE AwaitOverlay(p)
  BY <1>4 DEF AwaitOverlay, Continue, Goto
<1>5. CASE StopKubelet(p)
  BY <1>5 DEF StopKubelet, CanStopKubelet, StopFails, Continue, Exit, Goto
<1>6. CASE AwaitKubelet(p)
  BY <1>6 DEF AwaitKubelet, Continue, Goto, AfterStop
<1>7. CASE StopTimesOut(p)
  BY <1>7 DEF StopTimesOut, StopFails, Continue, Exit, Goto
<1> QED
  BY <1>1, <1>2, <1>3, <1>4, <1>5, <1>6, <1>7 DEF StopStep

\* start() and what comes between stop() and start().
LEMMA MiddleOverlayOK ==
  ASSUME TypeOK, Inv, NEW p \in Processes, ServingOK(p), OverlayOK(p), "api" \notin FaultKinds,
         StartStep(p) \/ InitializeStep(p) \/ ConfigureStep(p)
  PROVE  OverlayOK(p)'
<1> ProcessTypes /\ ServiceTypes
  BY DEF TypeOK, SCMTypeOK, ProcessTypes, ServiceTypes
<1> OnTrack(p)
  BY DEF Inv, ProcessInv
<1> USE DEF ServingOK, OverlayOK, Down, Up, Succeeded, ProcessTypes, OnTrack
<1>1. CASE StartQuery(p)
  BY <1>1 DEF StartQuery, Continue, Goto
<1>2. CASE StartKubelet(p)
  BY <1>2 DEF StartKubelet, LaunchKubelet, Continue, Exit, Goto
<1>3. CASE StartOverlayQuery(p)
  BY <1>3 DEF StartOverlayQuery, Continue, Goto
<1>4. CASE StartOverlayCall(p)
  BY <1>4 DEF StartOverlayCall, Continue, Exit, Goto
<1>5. CASE Remove(p)
  BY <1>5 DEF Remove, Continue, Exit, Goto
<1>6. CASE RefreshManager(p)
  BY <1>6 DEF RefreshManager, Goto
<1>7. CASE Reconnect(p)
  BY <1>7 DEF Reconnect, Continue, Goto
<1>8. CASE InitializeKubeletFiles(p)
  BY <1>8 DEF InitializeKubeletFiles, Exit, Goto
<1>9. CASE CreateService(p)
  BY <1>9 DEF CreateService, Exit, Goto
<1>10. CASE SetRecoveryActions(p)
  BY <1>10 DEF SetRecoveryActions, Exit, Goto, Fault
<1>11. CASE ReadConfig(p)
  BY <1>11 DEF ReadConfig, Goto
<1>12. CASE ConfigureCNI(p)
  BY <1>12 DEF ConfigureCNI, Exit, Goto
<1>13. CASE UpdateConfig(p)
  BY <1>13 DEF UpdateConfig, Continue, Exit, Goto, Fault
<1> QED
  BY <1>1, <1>2, <1>3, <1>4, <1>5, <1>6, <1>7, <1>8, <1>9, <1>10, <1>11, <1>12, <1>13
  DEF StartStep, InitializeStep, ConfigureStep

\* How commands begin and end; without failing calls, the dependent that is there is
\* found.
LEMMA OtherOverlayOK ==
  ASSUME TypeOK, Inv, NEW p \in Processes, OverlayOK(p), "api" \notin FaultKinds,
         NewWinNodeBootstrapper(p) \/ Report(p) \/ CallFails(p) \/ Killed(p)
  PROVE  OverlayOK(p)'
<1> ProcessTypes /\ ServiceTypes
  BY DEF TypeOK, SCMTypeOK, ProcessTypes, ServiceTypes
<1> USE DEF OverlayOK, Succeeded, ProcessTypes
<1>1. CASE NewWinNodeBootstrapper(p)
  <2>1. PICK c \in Commands : OpenServices(p, c) \/ NoService(p, c)
    BY <1>1 DEF NewWinNodeBootstrapper, NoBootstrapper, Fault
  <2>2. /\ pc[p] = "idle" /\ UNCHANGED <<kubelet, overlay>>
    BY <1>1 DEF NewWinNodeBootstrapper
  <2>3. CASE OpenServices(p, c)
    <3>1. pc'[p] = "stop" /\ deps'[p] = (overlay # "Absent") /\ outcome'[p] = "none"
      BY <2>3 DEF OpenServices, Goto, Fault
    <3> QED
      BY <2>2, <3>1
  <2>4. CASE NoService(p, c)
    BY <2>2, <2>4 DEF NoService, Goto, Fault
  <2> QED
    BY <2>1, <2>3, <2>4
<1>2. CASE Report(p)
  BY <1>2 DEF Report, Exit, Goto
<1>3. CASE CallFails(p)
  BY <1>3 DEF CallFails, Fault
<1>4. CASE Killed(p)
  BY <1>4 DEF Killed, Exit, Goto
<1> QED
  BY <1>1, <1>2, <1>3, <1>4

\* What the services do by themselves, if none dies: the dependent gives up only
\* while the kubelet is down.
LEMMA SCMOverlayOK ==
  ASSUME TypeOK, Inv, Serving, "crash" \notin FaultKinds, SCMStep, NEW p \in Processes,
         OverlayOK(p)
  PROVE  OverlayOK(p)'
<1> ProcessTypes /\ ServiceTypes
  BY DEF TypeOK, SCMTypeOK, ProcessTypes, ServiceTypes
<1> ServingOK(p)
  BY DEF Serving
<1> USE DEF ServingOK, OverlayOK, Down, Up, Succeeded
<1>1. UNCHANGED <<pc, cmd, caller, deps, outcome>>
  BY DEF SCMStep
<1>2. \/ KubeletComesUp \/ KubeletEnds \/ InstallOverlay \/ OverlayComesUp
      \/ OverlayGivesUp \/ OverlayEnds \/ UNCHANGED <<kubelet, overlay>>
  BY DEF Serving, SCMStep, SCMNext, KubeletDies, RecoveryRestart, Reap, OverlayDies,
     OutsiderOpens, OutsiderCloses, Fault
<1>3. CASE KubeletComesUp
  BY <1>1, <1>3 DEF KubeletComesUp
<1>4. CASE KubeletEnds
  BY <1>1, <1>4 DEF KubeletEnds
<1>5. CASE InstallOverlay
  BY <1>1, <1>5 DEF InstallOverlay
<1>6. CASE OverlayComesUp
  BY <1>1, <1>6 DEF OverlayComesUp
<1>7. CASE OverlayGivesUp
  BY <1>1, <1>7 DEF OverlayGivesUp
<1>8. CASE OverlayEnds
  BY <1>1, <1>8 DEF OverlayEnds
<1>9. CASE UNCHANGED <<kubelet, overlay>>
  BY <1>1, <1>9
<1> QED
  BY <1>2, <1>3, <1>4, <1>5, <1>6, <1>7, <1>8, <1>9

LEMMA NextOverlayOK ==
  ASSUME PatientlyAlone, FaultKinds \cap {"api", "crash"} = {}, IInv, Serving, [Next]_vars,
         NEW p \in Processes, OverlayOK(p)
  PROVE  OverlayOK(p)'
<1> TypeOK /\ Inv
  BY DEF IInv
<1> ServingOK(p)
  BY DEF Serving
<1>1. CASE \E q \in Processes : NewWinNodeBootstrapper(q) \/ WMCBStep(q) \/ Killed(q)
  <2>1. NewWinNodeBootstrapper(p) \/ WMCBStep(p) \/ Killed(p)
    BY <1>1 DEF PatientlyAlone
  <2> QED
    BY <2>1, StopOverlayOK, MiddleOverlayOK, OtherOverlayOK DEF WMCBStep
<1>2. CASE Reboot
  <2>1. pc'[p] = "idle" /\ (outcome'[p] = "success" => Succeeded(p))
    BY <1>2 DEF Reboot, Succeeded
  <2>2. overlay' \in {"Absent", "StartPending"}
    BY <1>2 DEF Reboot, SCMReboots
  <2> QED
    BY <2>1, <2>2 DEF OverlayOK, Succeeded
<1>3. CASE UNCHANGED vars
  BY <1>3 DEF OverlayOK, Succeeded
<1> QED
  BY <1>1, <1>2, <1>3, SCMOverlayOK DEF Next

\* If no call fails either, the dependent service that stop() had to stop is started
\* again by the time of a success, whatever times out, is killed or rebooted.
THEOREM OverlayIsRestarted ==
  ASSUME PatientlyAlone, FaultKinds \cap {"api", "crash"} = {}
  PROVE  Spec => []OverlayRestarted
<1> DEFINE AllOverlayOK == \A p \in Processes : OverlayOK(p)
<1>1. Init => Serving /\ AllOverlayOK
  BY DEF Init, SCMInit, Serving, ServingOK, OverlayOK, Down, Up, Succeeded
<1>2. IInv /\ Serving /\ [Next]_vars => Serving'
  BY NextServing
<1>3. IInv /\ Serving /\ AllOverlayOK /\ [Next]_vars => AllOverlayOK'
  BY NextOverlayOK
<1>4. AllOverlayOK => OverlayRestarted
  BY DEF OverlayOK, Succeeded, OverlayRestarted
<1> QED
  BY <1>1, <1>2, <1>3, <1>4, AlwaysIInv, PTL DEF Spec

=============================================================================
