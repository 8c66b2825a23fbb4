-------------------------- MODULE MCKubeletCommand --------------------------
(***************************************************************************)
(* Model checking of KubeletCommand.  The words stand for the kinds of     *)
(* argument a registered line has: a switch, an option given once or twice *)
(* or with an "=" in its value, a CNI option of an earlier configure-cni,  *)
(* and the empty word between two spaces.                                  *)
(***************************************************************************)
EXTENDS KubeletCommand

MCKubelets == {<<"kubelet.exe">>}
MCPrograms == MCKubelets \cup {<<"other.exe">>}

MCWords == {
  <<"">>,
  <<"--windows-service">>,
  <<"--v", "3">>,
  <<"--v", "5">>,
  <<"--register-with-taints", "os", "Windows:NoSchedule">>,
  <<"--cni-bin-dir", "d:cni">>}

\* --resolv-conf="" and --network-plugin=cni are set to the same values always;
\* one of them stands for both.
MCCNIArgs ==
  {("--resolv-conf" :> <<"\"\"">>) @@ ("--cni-bin-dir" :> <<dir>>) : dir \in {"c:cni", "d:cni"}}
=============================================================================
