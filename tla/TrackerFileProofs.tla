-------------------------- MODULE TrackerFileProofs --------------------------
(***************************************************************************)
(* The file is never empty, and the sorted lists in it are the two sets of *)
(* ResourceTracker, for identifiers without bound.                         *)
(***************************************************************************)
EXTENDS TrackerFile, InstallerInfoProofs

\* The file is two lists in order, and one of them is not empty.
Inv ==
  /\ Proper(file)
  /\ file # Absent => InstancesIn(file) \cup GroupsIn(file) # {}

-----------------------------------------------------------------------------

\* The lists that AppendInstallerInfo is called with are in order.
LEMMA AtMostOneIsList ==
  ASSUME NEW ids, ids \subseteq Nat \ {Blank}, NEW s \in AtMostOne(ids)
  PROVE  s \in Seq(Nat \ {Blank}) /\ Ascending(s) /\ Elements(s) \in SUBSET ids
<1>1. CASE s = <<>>
  BY <1>1 DEF Ascending, Elements
<1>2. CASE \E id \in ids : s = <<id>>
  <2>1. PICK id \in ids : s = <<id>>
    BY <1>2
  <2>2. id \in Nat \ {Blank}
    OBVIOUS
  <2> QED
    BY <2>1, <2>2 DEF Ascending, Elements
<1> QED
  BY <1>1, <1>2 DEF AtMostOne

\* In the lists that RemoveInstallerInfo is called with nothing occurs twice.
LEMMA ListIsDistinct ==
  ASSUME NEW ids, ids \subseteq Nat \ {Blank}, NEW s \in Lists(ids)
  PROVE  s \in Seq(Nat \ {Blank}) /\ Distinct(s) /\ Elements(s) \in SUBSET ids
<1>1. PICK some \in SUBSET ids : /\ IsFiniteSet(some)
                                 /\ s \in [1..Cardinality(some) -> some]
                                 /\ Elements(s) = some
  BY DEF Lists
<1> DEFINE n == Cardinality(some)
<1>2. n \in Nat
  BY <1>1, FS_CardinalityType
<1>3. s \in Seq(Nat \ {Blank}) /\ Len(s) = n
  <2> HIDE DEF n
  <2>1. s \in [1..n -> Nat \ {Blank}]
    BY <1>1 DEF n
  <2> QED
    BY <1>2, <2>1
<1>4. s \in Surjection(1..n, some)
  BY <1>1 DEF Surjection, Elements
<1>5. IsFiniteSet(1..n) /\ Cardinality(1..n) = n
  BY <1>2, FS_Interval
<1>6. s \in Injection(1..n, some)
  BY <1>1, <1>4, <1>5, FS_SurjSameCardinalityImpliesInj
<1>7. Distinct(s)
  BY <1>3, <1>6 DEF Injection, IsInjective, Distinct
<1> QED
  BY <1>1, <1>3, <1>7

\* AppendInstallerInfo keeps the file in order and does to the sets what they allow.
LEMMA AppendStep ==
  ASSUME Inv,
         NEW ids \in AtMostOne(InstanceIDs), NEW sgs \in AtMostOne(GroupIDs),
         ids \o sgs # <<>>, AppendInstallerInfo(ids, sgs)
  PROVE  Inv' /\ Promise!Add(Elements(ids), Elements(sgs))
<1> DEFINE result == Appended(file, ids, sgs)
           granted == /\ Elements(ids) \cap InstancesIn(file) = {}
                      /\ Elements(sgs) \cap GroupsIn(file) = {}
<1>1. /\ ids \in Seq(Nat \ {Blank}) /\ Ascending(ids)
      /\ sgs \in Seq(Nat \ {Blank}) /\ Ascending(sgs)
  BY AtMostOneIsList, TrackerAssumption
<1>2. Elements(ids) \cup Elements(sgs) # {}
  <2>1. ids # <<>> \/ sgs # <<>>
    BY <1>1
  <2> QED
    BY <1>1, <2>1, NothingInIt
<1>3. /\ granted => /\ result.ok = TRUE
                    /\ Proper(result.file)
                    /\ result.file # Absent
                    /\ InstancesIn(result.file) = InstancesIn(file) \cup Elements(ids)
                    /\ GroupsIn(result.file) = GroupsIn(file) \cup Elements(sgs)
      /\ ~granted => result.ok = FALSE
  BY <1>1, AppendedEffect DEF Inv
<1>4. /\ request' = [op |-> "add", ids |-> Elements(ids), sgs |-> Elements(sgs)]
      /\ file' = IF result.ok THEN result.file ELSE file
      /\ answer' = IF result.ok THEN "ok" ELSE "error"
  BY DEF AppendInstallerInfo, Replace
<1> HIDE DEF result
<1>5. CASE granted
  <2>1. file' = result.file /\ answer' = "ok"
    BY <1>3, <1>4, <1>5
  <2>2. /\ InstancesIn(file)' = InstancesIn(file) \cup Elements(ids)
        /\ GroupsIn(file)' = GroupsIn(file) \cup Elements(sgs)
        /\ Proper(file)'
    BY <1>3, <1>5, <2>1
  <2>3. Inv'
    BY <1>2, <2>2 DEF Inv
  <2> QED
    BY <1>4, <1>5, <2>1, <2>2, <2>3 DEF Promise!Add, Promise!Answer, InstancesIn, GroupsIn
<1>6. CASE ~granted
  <2>1. file' = file /\ answer' = "error"
    BY <1>3, <1>4, <1>6
  <2> QED
    BY <1>4, <1>6, <2>1 DEF Inv, Promise!Add, Promise!Answer, InstancesIn, GroupsIn
<1> QED
  BY <1>5, <1>6

\* RemoveInstallerInfo keeps the file in order, leaves none that names nothing, and
\* does to the sets what they allow.
LEMMA RemoveStep ==
  ASSUME Inv,
         NEW ids \in Lists(InstanceIDs), NEW sgs \in Lists(GroupIDs),
         RemoveInstallerInfo(ids, sgs)
  PROVE  Inv' /\ Promise!Remove(Elements(ids), Elements(sgs))
<1> DEFINE result == Removed(file, ids, sgs)
           granted == /\ Readable(file) /\ Distinct(ids) /\ Distinct(sgs)
                      /\ Elements(ids) \subseteq InstancesIn(file)
                      /\ Elements(sgs) \subseteq GroupsIn(file)
           allowed == /\ Elements(ids) \subseteq InstancesIn(file)
                      /\ Elements(sgs) \subseteq GroupsIn(file)
                      /\ InstancesIn(file) \cup GroupsIn(file) # {}
<1>1. /\ ids \in Seq(Nat \ {Blank}) /\ Distinct(ids)
      /\ sgs \in Seq(Nat \ {Blank}) /\ Distinct(sgs)
  BY ListIsDistinct, TrackerAssumption
<1>2. /\ granted => /\ result.ok = TRUE
                    /\ Proper(result.file)
                    /\ InstancesIn(result.file) = InstancesIn(file) \ Elements(ids)
                    /\ GroupsIn(result.file) = GroupsIn(file) \ Elements(sgs)
                    /\ result.file # Absent =>
                         InstancesIn(result.file) \cup GroupsIn(result.file) # {}
      /\ ~granted => result.ok = FALSE
  BY <1>1, RemovedEffect DEF Inv
<1>3. granted <=> allowed
  <2>1. Readable(file) <=> InstancesIn(file) \cup GroupsIn(file) # {}
    <3>1. ASSUME Readable(file)
          PROVE  file # Absent
      BY <3>1 DEF Readable
    <3> QED
      BY <3>1 DEF Inv, InstancesIn, GroupsIn
  <2> QED
    BY <1>1, <2>1
<1>4. /\ request' = [op |-> "remove", ids |-> Elements(ids), sgs |-> Elements(sgs)]
      /\ file' = IF result.ok THEN result.file ELSE file
      /\ answer' = IF result.ok THEN "ok" ELSE "error"
  BY DEF RemoveInstallerInfo, Replace
<1> HIDE DEF result
<1>5. CASE granted
  <2>1. file' = result.file /\ answer' = "ok"
    BY <1>2, <1>4, <1>5
  <2>2. /\ InstancesIn(file)' = InstancesIn(file) \ Elements(ids)
        /\ GroupsIn(file)' = GroupsIn(file) \ Elements(sgs)
        /\ Inv'
    BY <1>2, <1>5, <2>1 DEF Inv
  <2> QED
    BY <1>3, <1>4, <1>5, <2>1, <2>2 DEF Promise!Remove, Promise!Answer, InstancesIn, GroupsIn
<1>6. CASE ~granted
  <2>1. file' = file /\ answer' = "error"
    BY <1>2, <1>4, <1>6
  <2> QED
    BY <1>3, <1>4, <1>6, <2>1 DEF Inv, Promise!Remove, Promise!Answer, InstancesIn, GroupsIn
<1> QED
  BY <1>5, <1>6

-----------------------------------------------------------------------------

\* Every step keeps the file in order and is a step of the two sets.
LEMMA NextStep ==
  ASSUME Inv, Next
  PROVE  Inv' /\ Promise!Next
<1>1. ASSUME NEW ids \in AtMostOne(InstanceIDs), NEW sgs \in AtMostOne(GroupIDs),
             ids \o sgs # <<>>, AppendInstallerInfo(ids, sgs)
      PROVE  Inv' /\ Promise!Next
  <2>1. Inv' /\ Promise!Add(Elements(ids), Elements(sgs))
    BY <1>1, AppendStep
  <2>2. Elements(ids) \in SUBSET InstanceIDs /\ Elements(sgs) \in SUBSET GroupIDs
    BY AtMostOneIsList, TrackerAssumption
  <2> QED
    BY <2>1, <2>2 DEF Promise!Next
<1>2. ASSUME NEW ids \in Lists(InstanceIDs), NEW sgs \in Lists(GroupIDs),
             RemoveInstallerInfo(ids, sgs)
      PROVE  Inv' /\ Promise!Next
  <2>1. Inv' /\ Promise!Remove(Elements(ids), Elements(sgs))
    BY <1>2, RemoveStep
  <2>2. Elements(ids) \in SUBSET InstanceIDs /\ Elements(sgs) \in SUBSET GroupIDs
    BY ListIsDistinct, TrackerAssumption
  <2> QED
    BY <2>1, <2>2 DEF Promise!Next
<1> QED
  BY <1>1, <1>2 DEF Next

\* There is no file at first.
LEMMA InitStep ==
  ASSUME Init
  PROVE  Inv /\ Promise!Init
BY AbsentIsEmpty DEF Init, Inv, Proper, Promise!Init, InstancesIn, GroupsIn

\* The lists in the file are in order, and the file names something, whatever calls
\* of AppendInstallerInfo and RemoveInstallerInfo there were.
THEOREM FileInOrder == Spec => []Inv
<1>1. Init => Inv
  BY InitStep
<1>2. Inv /\ [Next]_vars => Inv'
  <2>1. ASSUME Inv, UNCHANGED vars
        PROVE  Inv'
    BY <2>1 DEF vars, Inv
  <2> QED
    BY <2>1, NextStep
<1> QED
  BY <1>1, <1>2, PTL DEF Spec

\* As long as windows-node-installer.json is there it names something.
THEOREM FileAlwaysNamesSomething == Spec => []FileNamesSomething
<1>1. Inv => FileNamesSomething
  <2> SUFFICES ASSUME Inv, file # Absent
               PROVE  file.instances \o file.groups # <<>>
    BY DEF FileNamesSomething
  <2>1. InstancesIn(file) \cup GroupsIn(file) # {}
    BY DEF Inv
  <2>2. Readable(file)
    BY <2>1 DEF InstancesIn, GroupsIn
  <2>3. /\ Ascending(file.instances) /\ Ascending(file.groups)
        /\ Elements(file.instances) \cup Elements(file.groups) # {}
    BY <2>1, <2>2, ProperLists DEF Inv
  <2>4. file.instances # <<>> \/ file.groups # <<>>
    BY <2>3, NothingInIt
  <2> QED
    BY <2>3, <2>4 DEF Ascending
<1> QED
  BY <1>1, FileInOrder, PTL

\* Searching and writing two sorted lists is adding to and removing from two sets:
\* the file implements ResourceTracker.
THEOREM TrackerImplementsSets == Spec => ImplementsResourceTracker
<1>1. Init => Promise!Init
  BY InitStep
<1>2. Inv /\ [Next]_vars => [Promise!Next]_(Promise!vars)
  <2>1. ASSUME UNCHANGED vars
        PROVE  UNCHANGED Promise!vars
    BY <2>1 DEF vars, Promise!vars
  <2> QED
    BY <2>1, NextStep
<1> QED
  BY <1>1, <1>2, FileInOrder, PTL DEF Spec, ImplementsResourceTracker, Promise!Spec
=============================================================================
