--------------------------- MODULE ServiceManager ---------------------------
(***************************************************************************)
(* The part of the Windows Service Control Manager (SCM) that wmcb drives: *)
(* one "kubelet" service, and one service that depends on it, named        *)
(* "hybrid-overlay-node" in pkg/bootstrapper/bootstrapper.go.  It is       *)
(* external to src/ and is modelled from the calls made through            *)
(* vendor/golang.org/x/sys/windows/svc/mgr and from how pkg/bootstrapper   *)
(* relies on them:                                                         *)
(*  - a service that is started is StartPending, then Running; one that is *)
(*    told to stop is StopPending, then Stopped; both changes are          *)
(*    asynchronous to the caller;                                          *)
(*  - DeleteService only marks the registration, which goes away once no   *)
(*    handle is open on it and its process has ended;                      *)
(*  - a running process keeps the command line it was started with,        *)
(*    whatever is registered later;                                        *)
(*  - a process that dies is restarted when recovery actions are set.      *)
(***************************************************************************)
EXTENDS Naturals

CONSTANTS
  Processes,    \* the wmcb processes
  Outsider,     \* another program that may hold a handle (services.msc, a test)
  Ignitions,    \* the worker ignition files a command line can come from
  NoCommand,    \* no command line: nothing registered, no process
  FaultKinds,   \* the faults that may occur
  MaxFaults     \* bound on the faults of a behaviour; timeouts are not counted

ASSUME OutsiderAssumption == Outsider \notin Processes
ASSUME FaultAssumption ==
  /\ FaultKinds \subseteq {"api", "timeout", "kill", "crash", "reboot", "outsider"}
  /\ MaxFaults \in Nat

\* A kubelet command line: the base options derived from an ignition file,
\* with or without the CNI options that configure-cni adds.
CommandLine == [ign : Ignitions, cni : BOOLEAN]

ASSUME NoCommandAssumption == NoCommand \notin CommandLine

States == {"Stopped", "StartPending", "Running", "StopPending"}

VARIABLES
  image,       \* the registered command line of the kubelet (BinaryPathName)
  marked,      \* the kubelet registration is marked for deletion
  recovery,    \* recovery actions are set for the kubelet
  restartDue,  \* the kubelet died and its recovery restart is still to come
  kubelet,     \* state of the kubelet service
  proc,        \* the command line the live kubelet process was started with
  overlay,     \* state of the dependent service, or "Absent"
  handles,     \* who holds a handle to the kubelet service
  faults       \* number of faults so far

registration == <<image, marked, recovery>>
services     == <<kubelet, proc, overlay, restartDue>>
scmVars      == <<registration, services, handles, faults>>

SCMTypeOK ==
  /\ image \in CommandLine \cup {NoCommand}
  /\ proc \in CommandLine \cup {NoCommand}
  /\ marked \in BOOLEAN
  /\ recovery \in BOOLEAN
  /\ restartDue \in BOOLEAN
  /\ kubelet \in States
  /\ overlay \in States \cup {"Absent"}
  /\ handles \subseteq Processes \cup {Outsider}
  /\ faults \in Nat

Registered == image # NoCommand

\* A fresh Windows host: no kubelet service yet.
SCMInit ==
  /\ image = NoCommand
  /\ marked = FALSE
  /\ recovery = FALSE
  /\ restartDue = FALSE
  /\ kubelet = "Stopped"
  /\ proc = NoCommand
  /\ overlay = "Absent"
  /\ handles = {}
  /\ faults = 0

\* One more fault of the given kind, within the budget.
Fault(kind) ==
  /\ kind \in FaultKinds
  /\ faults < MaxFaults
  /\ faults' = faults + 1

-----------------------------------------------------------------------------
(* Calls: when they succeed, and what they change. *)

\* StartService fails on a marked service and on one that is not stopped.
CanStartKubelet == Registered /\ ~marked /\ kubelet = "Stopped"

LaunchKubelet ==
  /\ kubelet' = "StartPending"
  /\ proc' = image

\* ControlService(Stop) is refused unless the service runs and no service
\* that depends on it is active.
CanStopKubelet == kubelet = "Running" /\ overlay \in {"Absent", "Stopped"}

\* The SCM drops a marked registration at the last close after the process ended.
CanReap == Registered /\ marked /\ handles = {} /\ kubelet = "Stopped"

-----------------------------------------------------------------------------
(* What the SCM and the services do on their own. *)

KubeletComesUp ==
  /\ kubelet = "StartPending"
  /\ kubelet' = "Running"
  /\ UNCHANGED <<registration, proc, overlay, restartDue, handles, faults>>

KubeletEnds ==
  /\ kubelet = "StopPending"
  /\ kubelet' = "Stopped"
  /\ proc' = NoCommand
  /\ UNCHANGED <<registration, overlay, restartDue, handles, faults>>

\* The kubelet process dies without reporting that it stopped.
KubeletDies ==
  /\ Fault("crash")
  /\ kubelet # "Stopped"
  /\ kubelet' = "Stopped"
  /\ proc' = NoCommand
  /\ restartDue' = recovery
  /\ UNCHANGED <<registration, overlay, handles>>

RecoveryRestart ==
  /\ restartDue
  /\ restartDue' = FALSE
  /\ IF CanStartKubelet THEN LaunchKubelet ELSE UNCHANGED <<kubelet, proc>>
  /\ UNCHANGED <<registration, overlay, handles, faults>>

Reap ==
  /\ CanReap
  /\ image' = NoCommand
  /\ marked' = FALSE
  /\ recovery' = FALSE
  /\ restartDue' = FALSE
  /\ UNCHANGED <<kubelet, proc, overlay, handles, faults>>

\* The operator registers and starts the dependent service on a running node.
InstallOverlay ==
  /\ overlay = "Absent"
  /\ kubelet = "Running"
  /\ overlay' = "StartPending"
  /\ UNCHANGED <<registration, kubelet, proc, restartDue, handles, faults>>

\* The SCM holds back a service until what it depends on runs.
OverlayComesUp ==
  /\ overlay = "StartPending"
  /\ kubelet = "Running"
  /\ overlay' = "Running"
  /\ UNCHANGED <<registration, kubelet, proc, restartDue, handles, faults>>

OverlayGivesUp ==
  /\ overlay = "StartPending"
  /\ kubelet = "Stopped"
  /\ overlay' = "Stopped"
  /\ UNCHANGED <<registration, kubelet, proc, restartDue, handles, faults>>

OverlayEnds ==
  /\ overlay = "StopPending"
  /\ overlay' = "Stopped"
  /\ UNCHANGED <<registration, kubelet, proc, restartDue, handles, faults>>

OverlayDies ==
  /\ Fault("crash")
  /\ overlay \in {"StartPending", "Running", "StopPending"}
  /\ overlay' = "Stopped"
  /\ UNCHANGED <<registration, kubelet, proc, restartDue, handles>>

OutsiderOpens ==
  /\ Fault("outsider")
  /\ Registered
  /\ Outsider \notin handles
  /\ handles' = handles \cup {Outsider}
  /\ UNCHANGED <<registration, services>>

OutsiderCloses ==
  /\ Outsider \in handles
  /\ handles' = handles \ {Outsider}
  /\ UNCHANGED <<registration, services, faults>>

\* The SCM's share of a reboot: marked registrations are gone, every handle is
\* closed, and the services that start automatically are started.
SCMReboots ==
  /\ Fault("reboot")
  /\ handles' = {}
  /\ restartDue' = FALSE
  /\ marked' = FALSE
  /\ image' = IF marked THEN NoCommand ELSE image
  /\ recovery' = (recovery /\ ~marked)
  /\ proc' = image'
  /\ kubelet' = IF image' = NoCommand THEN "Stopped" ELSE "StartPending"
  /\ overlay' = IF overlay = "Absent" THEN "Absent" ELSE "StartPending"

SCMNext ==
  \/ KubeletComesUp
  \/ KubeletEnds
  \/ KubeletDies
  \/ RecoveryRestart
  \/ Reap
  \/ InstallOverlay
  \/ OverlayComesUp
  \/ OverlayGivesUp
  \/ OverlayEnds
  \/ OverlayDies
  \/ OutsiderOpens
  \/ OutsiderCloses

\* The SCM and the services it runs complete what is pending; an outsider
\* closes its handle; a registration does not stay marked when its last handle
\* is closed over and over.  Nothing forces a fault, or the operator's installation.
SCMFairness ==
  /\ WF_scmVars(KubeletComesUp)
  /\ WF_scmVars(KubeletEnds)
  /\ WF_scmVars(RecoveryRestart)
  /\ SF_scmVars(Reap)
  /\ WF_scmVars(OverlayComesUp)
  /\ WF_scmVars(OverlayGivesUp)
  /\ WF_scmVars(OverlayEnds)
  /\ WF_scmVars(OutsiderCloses)
=============================================================================
