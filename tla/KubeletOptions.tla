---------------------------- MODULE KubeletOptions ----------------------------
(***************************************************************************)
(* What configure-cni promises about the kubelet's command line: the       *)
(* options about CNI get their values, and the kubelet sees every other    *)
(* option and switch as before.                                            *)
(***************************************************************************)
EXTENDS TLC

CONSTANT Settings  \* what configure-cni may set: functions from options to values

VARIABLES
  options,   \* option |-> the value the kubelet takes for it
  switches   \* the switches without a value, in order

vars == <<options, switches>>

Set ==
  /\ \E setting \in Settings : options' = setting @@ options
  /\ UNCHANGED switches

\* Whatever the service is registered with.
Spec == [][Set]_vars
=============================================================================
