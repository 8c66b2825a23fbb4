--------------------------- MODULE ResourceTracker ---------------------------
(***************************************************************************)
(* What wni relies on windows-node-installer.json for: a set of instances  *)
(* and a set of security groups that it has created.  What is there cannot *)
(* be added, what is not there cannot be removed, from nothing nothing can *)
(* be removed, and a request that is refused changes nothing.              *)
(***************************************************************************)
CONSTANTS InstanceIDs, GroupIDs

VARIABLES
  instances, groups,
  request,  \* what was asked last, and of which identifiers
  answer

vars == <<instances, groups, request, answer>>

Init ==
  /\ instances = {} /\ groups = {}
  /\ request = [op |-> "none", ids |-> {}, sgs |-> {}]
  /\ answer = "ok"

\* The request is granted with these sets as the result, or refused.
Answer(granted, I, G) ==
  IF granted THEN instances' = I /\ groups' = G /\ answer' = "ok"
             ELSE answer' = "error" /\ UNCHANGED <<instances, groups>>

Add(I, G) ==
  /\ request' = [op |-> "add", ids |-> I, sgs |-> G]
  /\ Answer(I \intersect instances = {} /\ G \intersect groups = {},
            instances \cup I, groups \cup G)

Remove(I, G) ==
  /\ request' = [op |-> "remove", ids |-> I, sgs |-> G]
  /\ Answer(I \subseteq instances /\ G \subseteq groups /\ instances \cup groups # {},
            instances \ I, groups \ G)

Next ==
  \E I \in SUBSET InstanceIDs, G \in SUBSET GroupIDs : Add(I, G) \/ Remove(I, G)

Spec == Init /\ [][Next]_vars
=============================================================================
