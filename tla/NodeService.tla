----------------------------- MODULE NodeService -----------------------------
(***************************************************************************)
(* What wmcb promises whoever runs it (the WSU playbook, the operator): a  *)
(* node has at most one kubelet registration, made from one ignition file, *)
(* which configure-cni completes and only initialize-kubelet replaces, by  *)
(* taking the old one away first; and a success message is the truth at    *)
(* the time it is printed.                                                 *)
(***************************************************************************)
CONSTANTS Processes, Ignitions, NoCommand

VARIABLES
  service,  \* the registered command line, or NoCommand
  report    \* the command each process has last reported as successful

vars == <<service, report>>

Init ==
  /\ service = NoCommand
  /\ report = [p \in Processes |-> "none"]

Install ==
  /\ service = NoCommand
  /\ \E i \in Ignitions : service' = [ign |-> i, cni |-> FALSE]
  /\ UNCHANGED report

AddCNI ==
  /\ service # NoCommand
  /\ service' = [service EXCEPT !.cni = TRUE]
  /\ UNCHANGED report

Withdraw ==
  /\ service # NoCommand
  /\ service' = NoCommand
  /\ UNCHANGED report

\* Process p starts over.
Restart(p) ==
  /\ report' = [report EXCEPT ![p] = "none"]
  /\ UNCHANGED service

AnnounceInitialized(p) ==
  /\ service # NoCommand
  /\ report' = [report EXCEPT ![p] = "initialize-kubelet"]
  /\ UNCHANGED service

AnnounceConfigured(p) ==
  /\ service # NoCommand
  /\ service.cni
  /\ report' = [report EXCEPT ![p] = "configure-cni"]
  /\ UNCHANGED service

Next ==
  \/ Install
  \/ AddCNI
  \/ Withdraw
  \/ \E p \in Processes :
       Restart(p) \/ AnnounceInitialized(p) \/ AnnounceConfigured(p)

Spec == Init /\ [][Next]_vars
=============================================================================
