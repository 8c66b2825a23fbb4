----------------------------- MODULE TrackerFile -----------------------------
(***************************************************************************)
(* windows-node-installer.json under any sequence of the calls that the    *)
(* cloud providers make, one at a time: AppendInstallerInfo with at most   *)
(* one instance and one group, RemoveInstallerInfo with lists in which     *)
(* nothing occurs twice.  AWSProvider has the calls that are interrupted.  *)
(***************************************************************************)
EXTENDS InstallerInfo

CONSTANTS InstanceIDs, GroupIDs

ASSUME TrackerAssumption ==
  /\ InstanceIDs \subseteq Nat \ {Blank}
  /\ GroupIDs \subseteq Nat \ {Blank}

VARIABLES file, request, answer

vars == <<file, request, answer>>

AtMostOne(ids) == {<<>>} \cup {<<id>> : id \in ids}

\* The lists of finitely many of the identifiers, in any order.
Lists(ids) ==
  UNION {{s \in [1..Cardinality(some) -> some] : Elements(s) = some} :
           some \in {chosen \in SUBSET ids : IsFiniteSet(chosen)}}

Init ==
  /\ file = Absent
  /\ request = [op |-> "none", ids |-> {}, sgs |-> {}]
  /\ answer = "ok"

Replace(result) ==
  /\ file' = IF result.ok THEN result.file ELSE file
  /\ answer' = IF result.ok THEN "ok" ELSE "error"

AppendInstallerInfo(ids, sgs) ==
  /\ request' = [op |-> "add", ids |-> Elements(ids), sgs |-> Elements(sgs)]
  /\ Replace(Appended(file, ids, sgs))

RemoveInstallerInfo(ids, sgs) ==
  /\ request' = [op |-> "remove", ids |-> Elements(ids), sgs |-> Elements(sgs)]
  /\ Replace(Removed(file, ids, sgs))

Next ==
  \/ \E ids \in AtMostOne(InstanceIDs), sgs \in AtMostOne(GroupIDs) :
       ids \o sgs # <<>> /\ AppendInstallerInfo(ids, sgs)
  \/ \E ids \in Lists(InstanceIDs), sgs \in Lists(GroupIDs) : RemoveInstallerInfo(ids, sgs)

Spec == Init /\ [][Next]_vars

-----------------------------------------------------------------------------

Promise == INSTANCE ResourceTracker WITH
  instances <- InstancesIn(file),
  groups    <- GroupsIn(file)

\* Inserting and deleting by binary search in two sorted lists is adding to and
\* removing from two sets, and refuses what the sets refuse.
ImplementsResourceTracker == Promise!Spec

\* "the windows-node-installer.json should be removed after resource is deleted":
\* as long as the file is there it names something.
FileNamesSomething ==
  file # Absent => file.instances \o file.groups # <<>>
=============================================================================
