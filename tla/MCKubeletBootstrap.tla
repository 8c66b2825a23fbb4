------------------------- MODULE MCKubeletBootstrap -------------------------
(***************************************************************************)
(* Model checking of KubeletBootstrap: wmcb processes are interchangeable, *)
(* and so are ignition files, in the specification and in its safety       *)
(* properties.                                                             *)
(***************************************************************************)
EXTENDS KubeletBootstrap, TLC

Symmetry == Permutations(Processes) \cup Permutations(Ignitions)
=============================================================================
