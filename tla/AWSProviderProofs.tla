--------------------------- MODULE AWSProviderProofs ---------------------------
(***************************************************************************)
(* However many commands, directories, instances, security groups and      *)
(* faults there are: what create has reported stays reachable, and stays   *)
(* in its file, and wni forgets only what is dead, unless a file is        *)
(* overwritten unseen or left half written.                                *)
(***************************************************************************)
EXTENDS AWSProvider, InstallerInfoProofs

-----------------------------------------------------------------------------
(* The inductive invariant *)

\* By where a command is: it holds a group; it holds an instance; it is in the loops
\* of destroy.
Owning  == {"read-group", "write-group", "add-rules", "run-instance",
            "await-instance", "connect", "read-instance", "write-instance"}
Running == {"await-instance", "connect", "read-instance", "write-instance"}
Looping == {"terminate", "await-end", "delete-group", "delete-sg"}

Labels == {"idle", "find-group", "create-group", "read-rest", "terminate-one", "await-one"}
            \cup Owning \cup Writing \cup Looping

CloudShape ==
  /\ vm \in [InstanceIDs -> Living \cup {"none", "terminated", "gone"}]
  /\ sgOf \in [InstanceIDs -> Nat]
  /\ DOMAIN rules = GroupIDs /\ rules = [g \in GroupIDs |-> rules[g]]

FileShape ==
  /\ file \in [Dirs -> Contents \cup {Absent, Unparsable}]
  /\ reported \in [Dirs -> SUBSET InstanceIDs]

ProcessShape ==
  /\ pc \in [Processes -> Labels]
  /\ sg \in [Processes -> Nat] /\ id \in [Processes -> Nat]
  /\ past \in [Processes -> Contents \cup {Absent, Unparsable, NoFile}]
  /\ todo \in [Processes -> Seq(Nat)] /\ ended \in [Processes -> Contents]

Shape == CloudShape /\ FileShape /\ ProcessShape

\* An instance has a group from when it is created, and only the present group has
\* rules.
CloudOK ==
  /\ \A i \in InstanceIDs : sgOf[i] \in 0..groups /\ (vm[i] = "none" <=> sgOf[i] = 0)
  /\ group \in 0..groups /\ groups \in 0..MaxGroups
  /\ \A g \in GroupIDs : rules[g] # {} => g = group

\* A file is two lists in order, of instances and of the first n groups.
FileOK(list, n) ==
  /\ Proper(list)
  /\ InstancesIn(list) \subseteq InstanceIDs
  /\ GroupsIn(list) \subseteq 1..n

\* A reported instance was created, and while it lives somebody can reach it.
ReportedOK ==
  \A d \in Dirs : \A i \in reported[d] :
    /\ vm[i] # "none"
    /\ vm[i] \in Living => \E p \in Processes : <<Addresses[p], "ssh">> \in rules[sgOf[i]]

\* What a command holds was created.
HoldsOK(p) ==
  /\ sg[p] \in 0..groups /\ id[p] \in 0..MaxInstances
  /\ pc[p] \in Owning => sg[p] # 0
  /\ id[p] # 0 <=> pc[p] \in Running
  /\ id[p] # 0 => vm[id[p]] # "none" /\ sgOf[id[p]] = sg[p]
  /\ pc[p] = "idle" => sg[p] = 0

\* From when a command was connected to its instance on, the rule that let it in stays.
LetInOK(p) ==
  pc[p] \in {"read-instance", "write-instance"} /\ vm[id[p]] \in Living =>
    <<Addresses[p], "ssh">> \in rules[sg[p]]

PastOK(p) ==
  /\ pc[p] \in Writing \cup Looping => FileOK(past[p], groups)
  /\ pc[p] \in Looping => Readable(past[p])

TodoOK(p) ==
  /\ pc[p] = "idle" => todo[p] = <<>>
  /\ pc[p] \in {"terminate", "await-end"} => todo[p] \in Seq(InstanceIDs)
  /\ pc[p] \in {"terminate-one", "await-one"} => todo[p] \in Seq(InstanceIDs) \ {<<>>}
  /\ pc[p] = "delete-group" => todo[p] \in Seq(1..groups)
  /\ pc[p] = "delete-sg" => todo[p] \in Seq(1..groups) \ {<<>>}

\* What a command counts as ended is dead, and stays so.
EndedOK(p) ==
  /\ \A i \in Elements(ended[p].instances) :
       i \in InstanceIDs /\ vm[i] \in {"terminated", "gone"}
  /\ \A g \in Elements(ended[p].groups) : g \in 1..groups /\ g # group

ProcessOK(p) == HoldsOK(p) /\ LetInOK(p) /\ PastOK(p) /\ TodoOK(p) /\ EndedOK(p)

Inv ==
  /\ Shape
  /\ CloudOK
  /\ \A d \in Dirs : FileOK(file[d], groups)
  /\ ReportedOK
  /\ \A p \in Processes : ProcessOK(p)

-----------------------------------------------------------------------------
(* What every step keeps *)

\* What was created stays, what is dead stays dead, what lives keeps its rules, and
\* a group that is not the present one never is again.
CloudStep ==
  /\ groups <= groups'
  /\ \A i \in InstanceIDs :
       vm[i] # "none" =>
         /\ vm'[i] # "none" /\ sgOf'[i] = sgOf[i]
         /\ vm'[i] \in Living =>
              vm[i] \in Living /\ rules[sgOf[i]] \subseteq rules'[sgOf[i]]
  /\ \A g \in 1..groups : g # group => g # group'

Frame(p) ==
  UNCHANGED <<pc[p], sg[p], id[p], past[p], todo[p], ended[p]>>

Others(p) == \A q \in Processes \ {p} : Frame(q)

\* A file stays in order as more groups are created.
LEMMA FileKept ==
  ASSUME NEW m \in Nat, NEW n \in Nat, m <= n, NEW list, FileOK(list, m)
  PROVE  FileOK(list, n)
<1>1. 1..m \subseteq 1..n
  OBVIOUS
<1> QED
  BY <1>1 DEF FileOK

LEMMA Bounds ==
  ASSUME CloudOK
  PROVE  /\ groups \in Nat /\ group \in 0..groups /\ groups <= MaxGroups
         /\ {MaxGroups, MaxInstances, MaxFaults} \subseteq Nat
<1>1. {MaxGroups, MaxInstances, MaxFaults} \subseteq Nat
  BY AWSAssumption
<1> QED
  BY <1>1 DEF CloudOK

\* The group of an instance was created.
LEMMA GroupOf ==
  ASSUME CloudOK, NEW i \in InstanceIDs, vm[i] # "none"
  PROVE  sgOf[i] \in 1..groups /\ sgOf[i] \in GroupIDs
<1>1. sgOf[i] \in 0..groups /\ sgOf[i] # 0
  BY DEF CloudOK
<1> QED
  BY <1>1, Bounds DEF GroupIDs

\* A step that leaves EC2 alone.
LEMMA SameCloud ==
  ASSUME CloudOK, UNCHANGED cloud
  PROVE  CloudStep /\ CloudOK'
<1>1. groups \in Nat
  BY AWSAssumption DEF CloudOK
<1> QED
  BY <1>1 DEF CloudOK, CloudStep, cloud

\* A command that does not move keeps what it relies on, whatever EC2 and the others do.
LEMMA ProcessKept ==
  ASSUME CloudShape', CloudOK, CloudOK', CloudStep,
         NEW p \in Processes, ProcessOK(p), Frame(p)
  PROVE  ProcessOK(p)'
<1>1. groups \in Nat /\ groups' \in Nat /\ groups <= groups' /\ MaxInstances \in Nat
  BY AWSAssumption DEF CloudOK, CloudStep
<1>2. /\ pc'[p] = pc[p] /\ sg'[p] = sg[p] /\ id'[p] = id[p]
      /\ past'[p] = past[p] /\ todo'[p] = todo[p] /\ ended'[p] = ended[p]
  BY DEF Frame
<1>a. ASSUME id[p] # 0
      PROVE  /\ vm'[id[p]] # "none" /\ sgOf'[id[p]] = sg[p]
             /\ vm'[id[p]] \in Living => vm[id[p]] \in Living /\ rules[sg[p]] \subseteq rules'[sg[p]]
  <2>1. id[p] \in InstanceIDs /\ vm[id[p]] # "none" /\ sgOf[id[p]] = sg[p]
    BY <1>1, <1>a DEF ProcessOK, HoldsOK, InstanceIDs
  <2> QED
    BY <2>1 DEF CloudStep
<1>b. LetInOK(p)'
  <2>1. pc[p] \in {"read-instance", "write-instance"} => id[p] # 0
    BY DEF ProcessOK, HoldsOK, Running
  <2> QED
    BY <1>2, <1>a, <2>1 DEF ProcessOK, LetInOK
<1>3. HoldsOK(p)'
  BY <1>1, <1>2, <1>a DEF ProcessOK, HoldsOK
<1>4. PastOK(p)'
  BY <1>1, <1>2, FileKept DEF ProcessOK, PastOK
<1>5. TodoOK(p)'
  <2>1. 1..groups \subseteq 1..groups'
    BY <1>1
  <2>2. todo[p] \in Seq(1..groups) => todo[p] \in Seq(1..groups')
    BY <1>1, <2>1
  <2> QED
    BY <1>2, <2>2 DEF ProcessOK, TodoOK
<1>6. EndedOK(p)'
  <2>1. ASSUME NEW i \in Elements(ended[p].instances)
        PROVE  i \in InstanceIDs /\ vm'[i] \in {"terminated", "gone"}
    <3>1. i \in InstanceIDs /\ vm[i] \in {"terminated", "gone"}
      BY <2>1 DEF ProcessOK, EndedOK
    <3>2. vm[i] # "none" /\ vm[i] \notin Living
      BY <3>1 DEF Living
    <3>3. vm'[i] # "none" /\ vm'[i] \notin Living
      BY <3>1, <3>2 DEF CloudStep
    <3> QED
      BY <3>1, <3>3 DEF CloudShape
  <2>2. ASSUME NEW g \in Elements(ended[p].groups)
        PROVE  g \in 1..groups' /\ g # group'
    <3>1. g \in 1..groups /\ g # group
      BY <2>2 DEF ProcessOK, EndedOK
    <3> QED
      BY <1>1, <3>1 DEF CloudStep
  <2> QED
    BY <1>2, <2>1, <2>2 DEF EndedOK
<1> QED
  BY <1>b, <1>3, <1>4, <1>5, <1>6 DEF ProcessOK

\* A command that has ended relies on nothing.
LEMMA ProcessEnded ==
  ASSUME CloudOK', NEW p \in Processes,
         pc'[p] = "idle", sg'[p] = 0, id'[p] = 0, todo'[p] = <<>>,
         ended'[p] = Info(<<>>, <<>>)
  PROVE  ProcessOK(p)'
<1>1. groups' \in Nat /\ MaxInstances \in Nat
  BY AWSAssumption DEF CloudOK
<1>2. Elements(<<>>) = {}
  BY DEF Elements
<1>3. HoldsOK(p)' /\ LetInOK(p)'
  BY <1>1 DEF HoldsOK, LetInOK, Owning, Running
<1>4. PastOK(p)' /\ TodoOK(p)'
  BY DEF PastOK, TodoOK, Writing, Looping
<1>5. EndedOK(p)'
  BY <1>2 DEF EndedOK, Info
<1> QED
  BY <1>3, <1>4, <1>5 DEF ProcessOK

\* What was reported stays reachable.
LEMMA ReportedKept ==
  ASSUME FileShape, ReportedOK, CloudStep, UNCHANGED reported
  PROVE  ReportedOK'
<1> SUFFICES ASSUME NEW d \in Dirs, NEW i \in reported[d]
             PROVE  /\ vm'[i] # "none"
                    /\ vm'[i] \in Living =>
                         \E p \in Processes : <<Addresses[p], "ssh">> \in rules'[sgOf'[i]]
  BY DEF ReportedOK
<1>1. i \in InstanceIDs /\ vm[i] # "none"
  BY DEF FileShape, ReportedOK
<1>2. /\ vm'[i] # "none" /\ sgOf'[i] = sgOf[i]
      /\ vm'[i] \in Living => vm[i] \in Living /\ rules[sgOf[i]] \subseteq rules'[sgOf[i]]
  BY <1>1 DEF CloudStep
<1> QED
  BY <1>2 DEF ReportedOK

\* A step of p that leaves the files and what was reported alone needs to be looked
\* at for EC2 and for p.
LEMMA StepOf ==
  ASSUME Inv, CloudShape', CloudOK', CloudStep, UNCHANGED <<file, reported>>,
         NEW p \in Processes, ProcessShape', Others(p), ProcessOK(p)'
  PROVE  Inv' /\ CloudStep
<1>1. groups \in Nat /\ groups' \in Nat /\ groups <= groups'
  BY AWSAssumption DEF Inv, CloudOK, CloudStep
<1>2. \A d \in Dirs : FileOK(file'[d], groups')
  BY <1>1, FileKept DEF Inv
<1>3. ReportedOK'
  BY ReportedKept DEF Inv, Shape
<1>4. \A q \in Processes \ {p} : ProcessOK(q)'
  BY ProcessKept DEF Inv, Others
<1>5. FileShape'
  BY DEF Inv, Shape, FileShape
<1> QED
  BY <1>2, <1>3, <1>4, <1>5 DEF Inv, Shape

\* The same, when EC2 is not changed either.
LEMMA LocalStepOf ==
  ASSUME Inv, UNCHANGED <<cloud, file, reported>>,
         NEW p \in Processes, ProcessShape', Others(p), ProcessOK(p)'
  PROVE  Inv' /\ CloudStep
<1>1. CloudOK' /\ CloudStep
  BY SameCloud DEF Inv
<1>2. CloudShape'
  BY DEF Inv, Shape, CloudShape, cloud
<1> QED
  BY <1>1, <1>2, StepOf

\* A function that is changed in one place.
LEMMA Updated ==
  ASSUME NEW S, NEW T, NEW f \in [S -> T], NEW x \in S, NEW e \in T
  PROVE  /\ [f EXCEPT ![x] = e] \in [S -> T]
         /\ [f EXCEPT ![x] = e][x] = e
         /\ \A y \in S \ {x} : [f EXCEPT ![x] = e][y] = f[y]
OBVIOUS

\* The end of a command.
LEMMA Exits ==
  ASSUME ProcessShape, CloudOK', NEW p \in Processes, NEW result, Exit(p, result)
  PROVE  ProcessShape' /\ Others(p) /\ ProcessOK(p)' /\ pc' = [pc EXCEPT ![p] = "idle"]
<1>1. Info(<<>>, <<>>) \in Contents
  BY DEF Info, Contents
<1>2. ProcessShape'
  <2>1. pc' \in [Processes -> Labels]
    BY DEF ProcessShape, Exit, GoTo, Labels
  <2>2. sg' \in [Processes -> Nat] /\ id' \in [Processes -> Nat]
    BY DEF ProcessShape, Exit
  <2>3. past' \in [Processes -> Contents \cup {Absent, Unparsable, NoFile}]
    BY DEF ProcessShape, Exit
  <2>4. todo' \in [Processes -> Seq(Nat)]
    <3>1. <<>> \in Seq(Nat)
      OBVIOUS
    <3> QED
      BY <3>1, Updated DEF ProcessShape, Exit
  <2>5. ended' \in [Processes -> Contents]
    BY <1>1 DEF ProcessShape, Exit
  <2> QED
    BY <2>1, <2>2, <2>3, <2>4, <2>5 DEF ProcessShape
<1>3. Others(p)
  BY DEF ProcessShape, Exit, GoTo, Others, Frame
<1>4. /\ pc'[p] = "idle" /\ sg'[p] = 0 /\ id'[p] = 0 /\ todo'[p] = <<>>
      /\ ended'[p] = Info(<<>>, <<>>)
  BY DEF ProcessShape, Exit, GoTo
<1> QED
  BY <1>2, <1>3, <1>4, ProcessEnded DEF Exit, GoTo

LEMMA ExitStep ==
  ASSUME Inv, UNCHANGED <<cloud, file, reported>>,
         NEW p \in Processes, NEW result, Exit(p, result)
  PROVE  Inv' /\ CloudStep
<1>1. CloudOK'
  BY SameCloud DEF Inv
<1> QED
  BY <1>1, Exits, LocalStepOf DEF Inv, Shape

-----------------------------------------------------------------------------
(* The file *)

\* The lists of a file that can be read.
LEMMA ListsOfFile ==
  ASSUME NEW n \in Nat, NEW list, FileOK(list, n), Readable(list)
  PROVE  list.instances \in Seq(InstanceIDs) /\ list.groups \in Seq(1..n)
<1>1. /\ Ascending(list.instances) /\ Ascending(list.groups)
      /\ Elements(list.instances) \subseteq InstanceIDs /\ Elements(list.groups) \subseteq 1..n
  BY ProperLists DEF FileOK
<1> QED
  BY <1>1, ListOf DEF Ascending

\* What a command writes is a file in order, of what it read and what it holds, or
\* without what it has ended.
LEMMA Rewrites ==
  ASSUME Inv, NEW p \in Processes, pc[p] \in Writing,
         NEW result, result = Rewritten(p), result.ok
  PROVE  /\ FileOK(result.file, groups)
         /\ pc[p] = "write-group" =>
              /\ InstancesIn(result.file) = InstancesIn(past[p])
              /\ GroupsIn(result.file) = GroupsIn(past[p]) \cup {sg[p]}
         /\ pc[p] = "write-instance" =>
              /\ InstancesIn(result.file) = InstancesIn(past[p]) \cup {id[p]}
              /\ GroupsIn(result.file) = GroupsIn(past[p])
         /\ pc[p] = "write-rest" =>
              /\ InstancesIn(result.file) = InstancesIn(past[p]) \ Elements(ended[p].instances)
              /\ GroupsIn(result.file) = GroupsIn(past[p]) \ Elements(ended[p].groups)
<1> DEFINE list == past[p]
<1>1. FileOK(list, groups) /\ Proper(list)
  BY DEF Inv, ProcessOK, PastOK, FileOK
<1>2. groups \in Nat /\ MaxInstances \in Nat
  BY AWSAssumption DEF Inv, CloudOK
<1>3. <<>> \in Seq(Nat \ {Blank}) /\ Ascending(<<>>) /\ Elements(<<>>) = {}
  BY DEF Ascending, Elements
<1>4. ASSUME NEW n \in Nat \ {0}
      PROVE  <<n>> \in Seq(Nat \ {Blank}) /\ Ascending(<<n>>) /\ Elements(<<n>>) = {n}
  BY <1>4, JustOne DEF Blank
<1>8. HoldsOK(p)
  BY DEF Inv, ProcessOK
<1>5. CASE pc[p] = "write-group"
  <2>1. sg[p] \in 1..groups /\ sg[p] \in Nat \ {0}
    <3>1. pc[p] \in Owning
      BY <1>5 DEF Owning
    <3> QED
      BY <1>2, <1>8, <3>1 DEF HoldsOK
  <2>2. result = Appended(list, <<>>, <<sg[p]>>)
    BY <1>5 DEF Rewritten
  <2> HIDE DEF list
  <2>3. LET granted == /\ Elements(<<>>) \cap InstancesIn(list) = {}
                       /\ Elements(<<sg[p]>>) \cap GroupsIn(list) = {}
        IN  /\ granted => /\ result.ok = TRUE
                          /\ Proper(result.file)
                          /\ result.file # Absent
                          /\ InstancesIn(result.file) = InstancesIn(list) \cup Elements(<<>>)
                          /\ GroupsIn(result.file) = GroupsIn(list) \cup Elements(<<sg[p]>>)
            /\ ~granted => result.ok = FALSE
    BY <1>1, <1>3, <1>4, <2>1, <2>2, AppendedEffect
  <2>4. /\ Proper(result.file)
        /\ InstancesIn(result.file) = InstancesIn(list)
        /\ GroupsIn(result.file) = GroupsIn(list) \cup {sg[p]}
    BY <1>3, <1>4, <2>1, <2>3
  <2> QED
    BY <1>1, <1>5, <2>1, <2>4 DEF FileOK, list
<1>6. CASE pc[p] = "write-instance"
  <2>1. id[p] \in InstanceIDs /\ id[p] \in Nat \ {0}
    <3>1. pc[p] \in Running
      BY <1>6 DEF Running
    <3> QED
      BY <1>2, <1>8, <3>1 DEF HoldsOK, InstanceIDs
  <2>2. result = Appended(list, <<id[p]>>, <<>>)
    BY <1>6 DEF Rewritten
  <2> HIDE DEF list
  <2>3. LET granted == /\ Elements(<<id[p]>>) \cap InstancesIn(list) = {}
                       /\ Elements(<<>>) \cap GroupsIn(list) = {}
        IN  /\ granted => /\ result.ok = TRUE
                          /\ Proper(result.file)
                          /\ result.file # Absent
                          /\ InstancesIn(result.file) = InstancesIn(list) \cup Elements(<<id[p]>>)
                          /\ GroupsIn(result.file) = GroupsIn(list) \cup Elements(<<>>)
            /\ ~granted => result.ok = FALSE
    BY <1>1, <1>3, <1>4, <2>1, <2>2, AppendedEffect
  <2>4. /\ Proper(result.file)
        /\ InstancesIn(result.file) = InstancesIn(list) \cup {id[p]}
        /\ GroupsIn(result.file) = GroupsIn(list)
    BY <1>3, <1>4, <2>1, <2>3
  <2> QED
    BY <1>1, <1>6, <2>1, <2>4 DEF FileOK, list
<1>7. CASE pc[p] = "write-rest"
  <2> DEFINE ids == ended[p].instances
             sgs == ended[p].groups
  <2>1. ended[p] \in Contents
    BY DEF Inv, Shape, ProcessShape
  <2>2. ids \in Seq(Nat) /\ sgs \in Seq(Nat)
    BY <2>1 DEF Contents
  <2>3. Blank \notin Elements(ids) /\ Blank \notin Elements(sgs)
    BY <1>2 DEF Inv, ProcessOK, EndedOK, InstanceIDs, Blank
  <2>4. result = Removed(list, ids, sgs)
    BY <1>7 DEF Rewritten
  <2> HIDE DEF list, ids, sgs
  <2>5. ids \in Seq(Nat \ {Blank}) /\ sgs \in Seq(Nat \ {Blank})
    BY <2>2, <2>3, ListOf, ElementsOf
  <2>6. LET granted == /\ Readable(list) /\ Distinct(ids) /\ Distinct(sgs)
                       /\ Elements(ids) \subseteq InstancesIn(list)
                       /\ Elements(sgs) \subseteq GroupsIn(list)
        IN  /\ granted => /\ result.ok = TRUE
                          /\ Proper(result.file)
                          /\ InstancesIn(result.file) = InstancesIn(list) \ Elements(ids)
                          /\ GroupsIn(result.file) = GroupsIn(list) \ Elements(sgs)
                          /\ result.file # Absent =>
                               InstancesIn(result.file) \cup GroupsIn(result.file) # {}
            /\ ~granted => result.ok = FALSE
    BY <1>1, <2>4, <2>5, RemovedEffect
  <2>7. /\ Proper(result.file)
        /\ InstancesIn(result.file) = InstancesIn(list) \ Elements(ids)
        /\ GroupsIn(result.file) = GroupsIn(list) \ Elements(sgs)
    BY <2>6
  <2> QED
    BY <1>1, <1>7, <2>7 DEF FileOK, list, ids, sgs
<1> QED
  BY <1>5, <1>6, <1>7 DEF Writing

\* What p may do with a file: write its own, or stop while it writes it.
Handles(p) == UNCHANGED file \/ (pc[p] \in Writing /\ WriteFile(p)) \/ StopWriting(p)

\* Every file stays in order when a command writes one, or stops half way.
LEMMA Writes ==
  ASSUME Inv, NEW p \in Processes, UNCHANGED groups, Handles(p)
  PROVE  /\ file' \in [Dirs -> Contents \cup {Absent, Unparsable}]
         /\ \A d \in Dirs : FileOK(file'[d], groups')
<1>1. /\ file \in [Dirs -> Contents \cup {Absent, Unparsable}]
      /\ \A d \in Dirs : FileOK(file[d], groups)
      /\ DirOf[p] \in Dirs
  BY AWSAssumption DEF Inv, Shape, FileShape
<1>2. CASE UNCHANGED file
  BY <1>1, <1>2
<1>3. ASSUME NEW new, FileOK(new, groups), file' = [file EXCEPT ![DirOf[p]] = new]
      PROVE  /\ file' \in [Dirs -> Contents \cup {Absent, Unparsable}]
             /\ \A d \in Dirs : FileOK(file'[d], groups')
  <2>1. new \in Contents \cup {Absent, Unparsable}
    BY <1>3 DEF FileOK, Proper
  <2> QED
    BY <1>1, <1>3, <2>1
<1>4. CASE pc[p] \in Writing /\ WriteFile(p)
  <2> DEFINE new == Rewritten(p)
  <2>1. new.ok /\ file' = [file EXCEPT ![DirOf[p]] = new.file]
    BY <1>4 DEF WriteFile
  <2>2. FileOK(new.file, groups)
    BY <1>4, <2>1, Rewrites
  <2> HIDE DEF new
  <2> QED
    BY <1>3, <2>1, <2>2
<1>5. CASE file' = [file EXCEPT ![DirOf[p]] = Unparsable]
  <2>1. FileOK(Unparsable, groups)
    BY AbsentIsEmpty DEF FileOK, Proper
  <2> QED
    BY <1>3, <1>5, <2>1
<1> QED
  BY <1>2, <1>4, <1>5 DEF Handles, StopWriting

\* A step of p that may write its file, and leaves EC2 alone.
LEMMA WriteStepOf ==
  ASSUME Inv, UNCHANGED cloud, NEW p \in Processes, Handles(p),
         ReportedOK', reported' \in [Dirs -> SUBSET InstanceIDs],
         ProcessShape', Others(p), ProcessOK(p)'
  PROVE  Inv' /\ CloudStep
<1>1. CloudOK' /\ CloudStep
  BY SameCloud DEF Inv
<1>2. CloudShape' /\ UNCHANGED groups
  BY DEF Inv, Shape, CloudShape, cloud
<1>3. FileShape' /\ \A d \in Dirs : FileOK(file'[d], groups')
  BY <1>2, Writes DEF FileShape
<1>4. \A q \in Processes \ {p} : ProcessOK(q)'
  BY <1>1, <1>2, ProcessKept DEF Inv, Others
<1> QED
  BY <1>1, <1>2, <1>3, <1>4 DEF Inv, Shape

\* The same, when the command ends with it and reports nothing.
LEMMA WriteAndExit ==
  ASSUME Inv, UNCHANGED <<cloud, reported>>, NEW p \in Processes, Handles(p),
         NEW result, Exit(p, result)
  PROVE  Inv' /\ CloudStep
<1>1. CloudOK' /\ ReportedOK' /\ reported' \in [Dirs -> SUBSET InstanceIDs]
  BY SameCloud, ReportedKept DEF Inv, Shape, FileShape
<1>2. ProcessShape' /\ Others(p) /\ ProcessOK(p)'
  BY <1>1, Exits DEF Inv, Shape
<1> QED
  BY <1>1, <1>2, WriteStepOf

-----------------------------------------------------------------------------
(* The steps of create *)

LEMMA CreateWindowsVMStep ==
  ASSUME Inv, NEW p \in Processes, CreateWindowsVM(p)
  PROVE  Inv' /\ CloudStep
<1>0. ProcessShape'
  BY DEF Inv, Shape, ProcessShape, CreateWindowsVM, GoTo, local, Labels
<1>1. Others(p)
  BY DEF Inv, Shape, ProcessShape, Others, Frame, CreateWindowsVM, GoTo, local
<1>2. /\ pc'[p] = "find-group" /\ pc[p] = "idle"
      /\ UNCHANGED <<cloud, sg[p], id[p], past[p], todo[p], ended[p]>>
  BY DEF Inv, Shape, ProcessShape, CreateWindowsVM, GoTo, local
<1>3. ProcessOK(p)'
  BY <1>2 DEF Inv, ProcessOK, HoldsOK, LetInOK, PastOK, TodoOK, EndedOK, Owning, Running,
              Writing, Looping, cloud
<1> QED
  BY <1>0, <1>1, <1>2, <1>3, LocalStepOf DEF CreateWindowsVM

LEMMA FindGroupStep ==
  ASSUME Inv, NEW p \in Processes, FindGroup(p)
  PROVE  Inv' /\ CloudStep
<1>1. CloudOK /\ group \in Nat /\ groups \in Nat
  BY AWSAssumption DEF Inv, CloudOK
<1>a. ProcessShape'
  BY <1>1 DEF Inv, Shape, ProcessShape, FindGroup, GoTo, Labels, Owning
<1>2. Others(p)
  BY <1>1 DEF Inv, Shape, ProcessShape, Others, Frame, FindGroup, GoTo
<1>3. /\ pc[p] = "find-group" /\ UNCHANGED <<cloud, id[p], past[p], todo[p], ended[p]>>
      /\ \/ pc'[p] = "add-rules" /\ sg'[p] = group /\ group # 0
         \/ pc'[p] = "create-group" /\ sg'[p] = sg[p]
  BY DEF Inv, Shape, ProcessShape, FindGroup, GoTo
<1>4. ProcessOK(p)'
  BY SMTT(30), <1>1, <1>3 DEF Inv, ProcessOK, HoldsOK, LetInOK, PastOK, TodoOK, EndedOK, CloudOK,
              Owning, Running, Writing, Looping, cloud
<1> QED
  BY <1>a, <1>2, <1>3, <1>4, LocalStepOf DEF FindGroup

LEMMA CreateGroupStep ==
  ASSUME Inv, NEW p \in Processes, CreateGroup(p)
  PROVE  Inv' /\ CloudStep
<1>1. CASE Exit(p, "error") /\ UNCHANGED cloud
  BY <1>1, ExitStep DEF CreateGroup
<1>2. CASE /\ group = 0 /\ groups < MaxGroups
           /\ groups' = groups + 1
           /\ group' = groups'
           /\ sg' = [sg EXCEPT ![p] = groups']
           /\ GoTo(p, "read-group")
           /\ UNCHANGED <<vm, sgOf, rules, known, id, past, todo, ended, outcome>>
  <2>1. /\ CloudOK /\ CloudShape /\ ProcessShape /\ ProcessOK(p)
        /\ groups \in Nat /\ groups + 1 \in Nat /\ MaxGroups \in Nat
    BY Bounds DEF Inv, Shape
  <2>c. UNCHANGED <<vm, sgOf, rules>> /\ groups' = groups + 1 /\ group' = groups + 1
    BY <1>2
  <2>2. CloudShape'
    BY <2>1, <2>c DEF CloudShape
  <2>a. CloudStep
    <3>1. groups <= groups' /\ \A g \in 1..groups : g # group'
      BY <2>1, <2>c
    <3> QED
      BY <2>c, <3>1 DEF CloudStep
  <2>3. CloudOK'
    BY <1>2, <2>1 DEF CloudOK, GroupIDs
  <2>4. ProcessShape'
    BY <1>2, <2>1 DEF ProcessShape, GoTo, Labels, Owning
  <2>5. Others(p)
    BY <1>2, <2>1 DEF ProcessShape, GoTo, Others, Frame
  <2>6. /\ pc[p] = "create-group" /\ pc'[p] = "read-group" /\ sg'[p] = groups + 1
        /\ UNCHANGED <<vm, sgOf, id[p], past[p], todo[p], ended[p]>>
    BY <1>2, <2>1 DEF ProcessShape, CreateGroup, GoTo
  <2>7. id[p] = 0
    <3>1. pc[p] \notin Running
      BY <2>6 DEF Running
    <3> QED
      BY <2>1, <3>1 DEF ProcessOK, HoldsOK
  <2>8. HoldsOK(p)'
    <3>1. pc'[p] \notin Running /\ pc'[p] # "idle"
      BY <2>6 DEF Running
    <3>2. sg'[p] \in 0..groups' /\ sg'[p] # 0
      BY <2>1, <2>6, <2>c
    <3>3. id'[p] = 0 /\ id'[p] \in 0..MaxInstances
      BY <2>1, <2>6, <2>7, Bounds
    <3> QED
      BY <3>1, <3>2, <3>3 DEF HoldsOK
  <2>b. LetInOK(p)' /\ PastOK(p)' /\ TodoOK(p)'
    BY <2>6 DEF LetInOK, PastOK, TodoOK, Writing, Looping
  <2>9. EndedOK(p)'
    BY <1>2, <2>1, <2>6 DEF ProcessOK, EndedOK
  <2> QED
    BY <2>2, <2>a, <2>b, <2>3, <2>4, <2>5, <2>8, <2>9, StepOf DEF ProcessOK, CreateGroup
<1> QED
  BY <1>1, <1>2 DEF CreateGroup

\* Reading the file, by a command that goes on to write it.
LEMMA ReadStep ==
  ASSUME Inv, NEW p \in Processes, NEW from, NEW to, ReadFile(p, from, to),
         <<from, to>> \in {<<"read-group", "write-group">>, <<"read-instance", "write-instance">>,
                           <<"read-rest", "write-rest">>}
  PROVE  Inv' /\ CloudStep
<1>1. ProcessShape /\ FileShape /\ DirOf[p] \in Dirs /\ FileOK(file[DirOf[p]], groups)
  BY AWSAssumption DEF Inv, Shape
<1>2. PICK list \in {file[DirOf[p]], Unparsable} :
        /\ pc' = [pc EXCEPT ![p] = to] /\ past' = [past EXCEPT ![p] = list]
        /\ pc[p] = from /\ UNCHANGED <<cloud, sg, id, todo, ended>>
  BY DEF ReadFile, GoTo
<1>a. FileOK(list, groups) /\ list \in Contents \cup {Absent, Unparsable, NoFile}
  <2>1. FileOK(Unparsable, groups)
    BY AbsentIsEmpty DEF FileOK, Proper
  <2> QED
    BY <1>1, <1>2, <2>1 DEF FileShape
<1>3. /\ \/ from = "read-group" /\ to = "write-group"
         \/ from = "read-instance" /\ to = "write-instance"
         \/ from = "read-rest" /\ to = "write-rest"
      /\ to \in Labels
  BY DEF Labels, Writing
<1>4. ProcessShape'
  BY <1>1, <1>2, <1>3, <1>a DEF ProcessShape
<1>5. Others(p)
  BY <1>1, <1>2 DEF ProcessShape, Others, Frame
<1>6. /\ pc'[p] = to /\ past'[p] = list
      /\ UNCHANGED <<cloud, sg[p], id[p], todo[p], ended[p]>>
  BY <1>1, <1>2 DEF ProcessShape
<1>7. HoldsOK(p)' /\ LetInOK(p)'
  BY <1>2, <1>3, <1>6 DEF Inv, ProcessOK, HoldsOK, LetInOK, Owning, Running, cloud
<1>8. PastOK(p)' /\ TodoOK(p)'
  BY <1>a, <1>3, <1>6 DEF PastOK, TodoOK, Looping, cloud
<1>9. EndedOK(p)'
  BY <1>6 DEF Inv, ProcessOK, EndedOK, cloud
<1> QED
  BY <1>4, <1>5, <1>7, <1>8, <1>9, LocalStepOf DEF ProcessOK, ReadFile

LEMMA RecordGroupStep ==
  ASSUME Inv, NEW p \in Processes, RecordGroup(p)
  PROVE  Inv' /\ CloudStep
<1>1. /\ pc[p] \in Writing /\ UNCHANGED <<cloud, reported>> /\ pc[p] = "write-group"
  BY DEF RecordGroup, Writing
<1>2. CASE Exit(p, "error") /\ UNCHANGED file
  BY <1>1, <1>2, ExitStep
<1>3. CASE WriteFile(p) /\ GoTo(p, "add-rules") /\ UNCHANGED <<local, outcome>>
  <2>1. ProcessShape /\ ProcessOK(p)
    BY DEF Inv, Shape
  <2>2. ProcessShape'
    BY <1>3, <2>1 DEF ProcessShape, GoTo, local, Labels, Owning
  <2>3. Others(p)
    BY <1>3, <2>1 DEF ProcessShape, GoTo, local, Others, Frame
  <2>4. pc'[p] = "add-rules" /\ UNCHANGED <<sg[p], id[p], past[p], todo[p], ended[p]>>
    BY <1>3, <2>1 DEF ProcessShape, GoTo, local
  <2>5. ProcessOK(p)'
    BY <1>1, <2>1, <2>4 DEF ProcessOK, HoldsOK, LetInOK, PastOK, TodoOK, EndedOK,
                            Owning, Running, Writing, Looping, cloud
  <2>6. ReportedOK' /\ reported' \in [Dirs -> SUBSET InstanceIDs]
    BY <1>1, SameCloud, ReportedKept DEF Inv, Shape, FileShape
  <2> QED
    BY <1>1, <1>3, <2>2, <2>3, <2>5, <2>6, WriteStepOf DEF Handles
<1> QED
  BY <1>2, <1>3 DEF RecordGroup

LEMMA AddRulesStep ==
  ASSUME Inv, NEW p \in Processes, AddRules(p)
  PROVE  Inv' /\ CloudStep
<1>1. /\ CloudOK /\ CloudShape /\ ProcessShape /\ ProcessOK(p)
      /\ groups \in Nat /\ MaxGroups \in Nat
  BY AWSAssumption DEF Inv, Shape, CloudOK
<1>2. /\ pc[p] = "add-rules" /\ pc' = [pc EXCEPT ![p] = "run-instance"]
      /\ UNCHANGED <<vm, sgOf, group, groups, sg, id, past, todo, ended>>
  BY DEF AddRules, GoTo, local
<1>3. PICK missing : \/ UNCHANGED rules
                     \/ group = sg[p] /\ rules' = [rules EXCEPT ![sg[p]] = @ \cup missing]
  BY DEF AddRules
<1>4. CloudShape' /\ \A g \in GroupIDs : rules[g] \subseteq rules'[g]
  BY <1>1, <1>2, <1>3 DEF CloudShape
<1>5. CloudOK'
  BY <1>1, <1>2, <1>3 DEF CloudShape, CloudOK
<1>6. CloudStep
  <2>1. ASSUME NEW i \in InstanceIDs, vm[i] # "none"
        PROVE  sgOf[i] \in GroupIDs
    BY <1>1, <2>1, GroupOf
  <2>2. groups <= groups' /\ UNCHANGED <<vm, sgOf, group, groups>>
    BY <1>1, <1>2
  <2> QED
    BY <1>4, <2>1, <2>2 DEF CloudStep
<1>7. ProcessShape'
  BY <1>1, <1>2 DEF ProcessShape, Labels, Owning
<1>8. Others(p)
  BY <1>1, <1>2 DEF ProcessShape, Others, Frame
<1>9. pc'[p] = "run-instance" /\ UNCHANGED <<vm, sgOf, sg[p], id[p], past[p], todo[p], ended[p]>>
  BY <1>1, <1>2 DEF ProcessShape
<1>10. ProcessOK(p)'
  BY <1>1, <1>2, <1>9 DEF ProcessOK, HoldsOK, LetInOK, PastOK, TodoOK, EndedOK,
                          Owning, Running, Writing, Looping
<1> QED
  BY <1>4, <1>5, <1>6, <1>7, <1>8, <1>10, StepOf DEF AddRules

LEMMA RunInstanceStep ==
  ASSUME Inv, NEW p \in Processes, RunInstance(p)
  PROVE  Inv' /\ CloudStep
<1>1. CASE Exit(p, "error") /\ UNCHANGED cloud
  BY <1>1, ExitStep DEF RunInstance
<1>2. ASSUME NEW i \in InstanceIDs, vm[i] = "none", group = sg[p],
             vm' = [vm EXCEPT ![i] = "pending"], sgOf' = [sgOf EXCEPT ![i] = sg[p]],
             id' = [id EXCEPT ![p] = i], GoTo(p, "await-instance"),
             UNCHANGED <<rules, group, groups, sg, known, past, todo, ended, outcome>>
      PROVE  Inv' /\ CloudStep
  <2>1. /\ CloudOK /\ CloudShape /\ ProcessShape /\ ProcessOK(p)
        /\ groups \in Nat /\ MaxInstances \in Nat
    BY Bounds DEF Inv, Shape
  <2>2. i \in Nat /\ i # 0 /\ i \in 0..MaxInstances
    BY <2>1 DEF InstanceIDs
  <2>3. pc[p] = "run-instance" /\ sg[p] \in 0..groups /\ sg[p] # 0
    BY <2>1 DEF RunInstance, ProcessOK, HoldsOK, Owning
  <2>4. CloudShape'
    BY <1>2, <2>1 DEF CloudShape, ProcessShape, Living
  <2>5. CloudOK'
    BY <1>2, <2>1, <2>3 DEF CloudOK, CloudShape
  <2>6. CloudStep
    BY <1>2, <2>1 DEF CloudStep, CloudShape
  <2>7. ProcessShape'
    BY <1>2, <2>1, <2>2 DEF ProcessShape, GoTo, Labels, Owning
  <2>8. Others(p)
    BY <1>2, <2>1 DEF ProcessShape, GoTo, Others, Frame
  <2>9. /\ pc'[p] = "await-instance" /\ id'[p] = i /\ vm'[i] = "pending" /\ sgOf'[i] = sg[p]
        /\ UNCHANGED <<groups, sg[p], past[p], todo[p], ended[p]>>
    BY <1>2, <2>1 DEF ProcessShape, CloudShape, GoTo
  <2>10. HoldsOK(p)'
    BY <2>2, <2>3, <2>9 DEF HoldsOK, Running, Owning
  <2>11. LetInOK(p)' /\ PastOK(p)' /\ TodoOK(p)'
    BY <2>9 DEF LetInOK, PastOK, TodoOK, Writing, Looping
  <2>12. EndedOK(p)'
    <3>1. \A j \in Elements(ended[p].instances) : j \in InstanceIDs /\ j # i /\ vm'[j] = vm[j]
      BY <1>2, <2>1 DEF ProcessOK, EndedOK, CloudShape
    <3> QED
      BY <1>2, <2>1, <2>9, <3>1 DEF ProcessOK, EndedOK
  <2> QED
    BY <2>4, <2>5, <2>6, <2>7, <2>8, <2>10, <2>11, <2>12, StepOf DEF ProcessOK, RunInstance
<1> QED
  BY <1>1, <1>2 DEF RunInstance

\* A command that goes on with what it has.
LEMMA GoesOn ==
  ASSUME Inv, NEW p \in Processes, NEW label, GoTo(p, label), UNCHANGED <<cloud, local>>,
         <<pc[p], label>> \in {<<"await-instance", "connect">>, <<"connect", "read-instance">>},
         label = "read-instance" => <<Addresses[p], "ssh">> \in rules[sg[p]]
  PROVE  ProcessShape' /\ Others(p) /\ ProcessOK(p)'
<1>1. ProcessShape /\ ProcessOK(p)
  BY DEF Inv, Shape
<1>2. /\ pc[p] \in Owning /\ label \in Owning /\ pc[p] \in Running /\ label \in Running
      /\ label \notin Writing \cup Looping
      /\ label \in {"connect", "read-instance"}
  BY DEF Owning, Running, Writing, Looping
<1>3. ProcessShape'
  BY <1>1, <1>2 DEF ProcessShape, GoTo, local, Labels
<1>4. Others(p)
  BY <1>1 DEF ProcessShape, GoTo, local, Others, Frame
<1>5. pc'[p] = label /\ UNCHANGED <<cloud, sg[p], id[p], past[p], todo[p], ended[p]>>
  BY <1>1 DEF ProcessShape, GoTo, local
<1>6. HoldsOK(p)'
  BY <1>1, <1>2, <1>5 DEF ProcessOK, HoldsOK, cloud
<1>7. LetInOK(p)' /\ PastOK(p)' /\ TodoOK(p)'
  BY <1>2, <1>5 DEF LetInOK, PastOK, TodoOK, cloud
<1>8. EndedOK(p)'
  BY <1>1, <1>5 DEF ProcessOK, EndedOK, cloud
<1> QED
  BY <1>3, <1>4, <1>6, <1>7, <1>8 DEF ProcessOK

LEMMA AwaitInstanceStep ==
  ASSUME Inv, NEW p \in Processes, AwaitInstance(p) \/ Connect(p)
  PROVE  Inv' /\ CloudStep
<1>1. UNCHANGED <<cloud, file, reported>>
  BY DEF AwaitInstance, Connect
<1>2. CASE Exit(p, "error")
  BY <1>1, <1>2, ExitStep
<1>3. CASE AwaitInstance(p) /\ GoTo(p, "connect") /\ UNCHANGED local
  BY <1>1, <1>3, GoesOn, LocalStepOf DEF AwaitInstance
<1>4. CASE /\ Connect(p) /\ GoTo(p, "read-instance") /\ UNCHANGED local
           /\ <<Addresses[p], "ssh">> \in rules[sg[p]]
  BY <1>1, <1>4, GoesOn, LocalStepOf DEF Connect
<1> QED
  BY <1>2, <1>3, <1>4 DEF AwaitInstance, Connect

LEMMA RecordInstanceStep ==
  ASSUME Inv, NEW p \in Processes, RecordInstance(p)
  PROVE  Inv' /\ CloudStep
<1>1. pc[p] = "write-instance" /\ pc[p] \in Writing /\ UNCHANGED cloud
  BY DEF RecordInstance, Writing
<1>2. CASE Exit(p, "error") /\ UNCHANGED <<file, reported>>
  BY <1>1, <1>2, ExitStep
<1>3. CASE /\ WriteFile(p) /\ Exit(p, "created")
           /\ reported' = [reported EXCEPT ![DirOf[p]] = @ \cup {id[p]}]
  <2>1. CloudOK'
    BY <1>1, SameCloud DEF Inv
  <2>2. ProcessShape' /\ Others(p) /\ ProcessOK(p)'
    BY <1>3, <2>1, Exits DEF Inv, Shape
  <2>3. HoldsOK(p) /\ LetInOK(p) /\ id[p] # 0 /\ id[p] \in InstanceIDs
    <3>1. pc[p] \in Running
      BY <1>1 DEF Running
    <3> QED
      BY <3>1, Bounds DEF Inv, ProcessOK, HoldsOK, InstanceIDs
  <2>4. reported \in [Dirs -> SUBSET InstanceIDs] /\ DirOf[p] \in Dirs
    BY AWSAssumption DEF Inv, Shape, FileShape
  <2>5. reported' \in [Dirs -> SUBSET InstanceIDs]
    BY <1>3, <2>3, <2>4
  <2>6. \A d \in Dirs : reported'[d] \subseteq reported[d] \cup {id[p]}
    BY <1>3, <2>4
  <2>7. ReportedOK'
    <3>1. /\ vm[id[p]] # "none" /\ sgOf[id[p]] = sg[p]
          /\ vm[id[p]] \in Living => <<Addresses[p], "ssh">> \in rules[sgOf[id[p]]]
      BY <1>1, <2>3 DEF HoldsOK, LetInOK
    <3>2. UNCHANGED <<vm, sgOf, rules>> /\ ReportedOK
      BY <1>1 DEF cloud, Inv
    <3> QED
      BY <2>6, <3>1, <3>2 DEF ReportedOK
  <2> QED
    BY <1>1, <1>3, <2>2, <2>5, <2>7, WriteStepOf DEF Handles
<1> QED
  BY <1>2, <1>3 DEF RecordInstance

-----------------------------------------------------------------------------
(* The steps of destroy *)

LEMMA DestroyWindowsVMsStep ==
  ASSUME Inv, NEW p \in Processes, DestroyWindowsVMs(p)
  PROVE  Inv' /\ CloudStep
<1> DEFINE list == file[DirOf[p]]
<1>1. /\ ProcessShape /\ FileShape /\ ProcessOK(p) /\ DirOf[p] \in Dirs
      /\ FileOK(list, groups) /\ groups \in Nat
  BY AWSAssumption, Bounds DEF Inv, Shape
<1>2. /\ pc[p] = "idle" /\ pc' = [pc EXCEPT ![p] = "terminate"] /\ Readable(list)
      /\ past' = [past EXCEPT ![p] = list] /\ todo' = [todo EXCEPT ![p] = list.instances]
      /\ UNCHANGED <<cloud, file, sg, id, ended, reported>>
  BY DEF DestroyWindowsVMs, GoTo
<1>3. list.instances \in Seq(InstanceIDs)
  BY <1>1, <1>2, ListsOfFile
<1>4. list.instances \in Seq(Nat)
  BY <1>1, <1>2, ProperLists DEF FileOK, Ascending
<1>5. list \in Contents \cup {Absent, Unparsable, NoFile}
  BY <1>1 DEF FileShape
<1> HIDE DEF list
<1>6. ProcessShape'
  BY <1>1, <1>2, <1>4, <1>5 DEF ProcessShape, Labels, Looping
<1>7. Others(p)
  BY <1>1, <1>2 DEF ProcessShape, Others, Frame
<1>8. /\ pc'[p] = "terminate" /\ past'[p] = list /\ todo'[p] = list.instances
      /\ UNCHANGED <<cloud, sg[p], id[p], ended[p]>>
  BY <1>1, <1>2 DEF ProcessShape
<1>9. HoldsOK(p)' /\ LetInOK(p)'
  BY <1>1, <1>2, <1>8 DEF ProcessOK, HoldsOK, LetInOK, Owning, Running, cloud
<1>10. PastOK(p)' /\ TodoOK(p)'
  BY <1>1, <1>2, <1>3, <1>8 DEF PastOK, TodoOK, cloud
<1>11. EndedOK(p)'
  BY <1>1, <1>8 DEF ProcessOK, EndedOK, cloud
<1> QED
  BY <1>2, <1>6, <1>7, <1>9, <1>10, <1>11, LocalStepOf DEF ProcessOK

\* A list for the loop that begins, or goes on, at a label.
Fits(label, list, n) ==
  /\ label \in {"terminate", "await-end"} => list \in Seq(InstanceIDs)
  /\ label \in {"delete-group", "delete-sg"} => list \in Seq(1..n)
  /\ label = "delete-sg" => list # <<>>

\* In the loops of destroy a command holds nothing, and keeps what it read.
LEMMA InLoop ==
  ASSUME Inv, CloudShape', CloudOK', CloudStep, UNCHANGED <<file, sg, id, past, reported>>,
         NEW p \in Processes, pc[p] \in Looping,
         NEW label \in Looping \cup {"read-rest"}, GoTo(p, label),
         NEW list \in Seq(Nat), todo' = [todo EXCEPT ![p] = list],
         NEW over \in Contents, ended' = [ended EXCEPT ![p] = over],
         Fits(label, list, groups'),
         \A i \in Elements(over.instances) : i \in InstanceIDs /\ vm'[i] \in {"terminated", "gone"},
         \A g \in Elements(over.groups) : g \in 1..groups' /\ g # group'
  PROVE  Inv' /\ CloudStep
<1>1. /\ ProcessShape /\ ProcessOK(p) /\ groups \in Nat /\ groups' \in Nat /\ groups <= groups'
      /\ MaxInstances \in Nat
  BY Bounds DEF Inv, Shape, CloudStep, CloudOK
<1>2. /\ pc[p] \notin Owning /\ pc[p] \notin Running /\ label \notin Owning /\ label \notin Running
      /\ label \in Labels /\ label \notin {"idle", "terminate-one", "await-one"}
      /\ label \in Writing \cup Looping => label \in Looping
  BY DEF Looping, Owning, Running, Labels, Writing
<1>3. ProcessShape'
  BY <1>1, <1>2 DEF ProcessShape, GoTo
<1>4. Others(p)
  BY <1>1 DEF ProcessShape, GoTo, Others, Frame
<1>5. /\ pc'[p] = label /\ todo'[p] = list /\ ended'[p] = over
      /\ UNCHANGED <<sg[p], id[p], past[p]>>
  BY <1>1 DEF ProcessShape, GoTo
<1>6. HoldsOK(p)' /\ LetInOK(p)'
  <2>1. sg[p] \in 0..groups' /\ id[p] = 0
    BY <1>1, <1>2 DEF ProcessOK, HoldsOK
  <2> QED
    BY <1>1, <1>2, <1>5, <2>1 DEF HoldsOK, LetInOK, Running
<1>7. PastOK(p)'
  BY <1>1, <1>2, <1>5, FileKept DEF ProcessOK, PastOK
<1>8. TodoOK(p)'
  BY <1>2, <1>5 DEF TodoOK, Fits
<1>9. EndedOK(p)'
  BY <1>5 DEF EndedOK
<1> QED
  BY <1>3, <1>4, <1>6, <1>7, <1>8, <1>9, StepOf DEF ProcessOK

\* An instance changes its state, and does not come back to life.
LEMMA InstanceChanges ==
  ASSUME CloudShape, CloudOK, NEW i \in InstanceIDs, vm[i] # "none",
         NEW to \in Living \cup {"terminated", "gone"}, to \in Living => vm[i] \in Living,
         vm' = [vm EXCEPT ![i] = to], UNCHANGED <<sgOf, rules, group, groups>>
  PROVE  CloudShape' /\ CloudOK' /\ CloudStep
<1>1. to # "none"
  BY DEF Living
<1>2. CloudShape'
  BY DEF CloudShape
<1>3. \A j \in InstanceIDs : vm'[j] = IF j = i THEN to ELSE vm[j]
  BY DEF CloudShape
<1>4. CloudOK'
  BY <1>1, <1>3 DEF CloudOK
<1>5. groups \in Nat
  BY Bounds
<1>6. CloudStep
  BY <1>1, <1>3, <1>5 DEF CloudStep
<1> QED
  BY <1>2, <1>4, <1>6

\* The next loop begins.
LEMMA NextLoopStep ==
  ASSUME Inv, NEW p \in Processes, UNCHANGED <<file, sg, id, past, reported>>,
         \/ pc[p] = "terminate" /\ NextLoop(p, "await-end", past[p].instances)
         \/ pc[p] = "await-end" /\ NextLoop(p, "delete-group", past[p].groups)
         \/ pc[p] = "delete-group" /\ NextLoop(p, "read-rest", <<>>)
  PROVE  Inv' /\ CloudStep
<1>1. pc[p] \in Looping
  BY DEF Looping
<1>2. /\ past[p].instances \in Seq(InstanceIDs) /\ past[p].instances \in Seq(Nat)
      /\ past[p].groups \in Seq(1..groups) /\ past[p].groups \in Seq(Nat)
  <2>1. FileOK(past[p], groups) /\ Readable(past[p]) /\ groups \in Nat
    BY <1>1, Bounds DEF Inv, ProcessOK, PastOK
  <2> QED
    BY <2>1, ListsOfFile, ProperLists DEF FileOK, Ascending
<1>3. /\ CloudShape' /\ CloudOK' /\ CloudStep
      /\ UNCHANGED <<vm, group, groups, ended>>
  BY SameCloud DEF Inv, Shape, CloudShape, NextLoop, cloud
<1>4. /\ ended[p] \in Contents /\ ended' = [ended EXCEPT ![p] = ended[p]]
      /\ \A i \in Elements(ended[p].instances) : i \in InstanceIDs /\ vm'[i] \in {"terminated", "gone"}
      /\ \A g \in Elements(ended[p].groups) : g \in 1..groups' /\ g # group'
  BY <1>3 DEF Inv, Shape, ProcessShape, ProcessOK, EndedOK
<1>5. ASSUME NEW label, NEW list, NextLoop(p, label, list), list \in Seq(Nat),
             label \in Looping \cup {"read-rest"},
             Fits(label, list, groups)
      PROVE  Inv' /\ CloudStep
  <2>1. todo' = [todo EXCEPT ![p] = list] /\ GoTo(p, label)
    BY <1>5 DEF NextLoop
  <2>2. Fits(label, list, groups')
    BY <1>3, <1>5
  <2> QED
    BY <1>1, <1>3, <1>4, <1>5, <2>1, <2>2, InLoop
<1>6. <<>> \in Seq(Nat)
  OBVIOUS
<1>7. /\ Fits("await-end", past[p].instances, groups)
      /\ Fits("delete-group", past[p].groups, groups)
      /\ Fits("read-rest", <<>>, groups)
  BY <1>2 DEF Fits
<1> QED
  BY <1>2, <1>5, <1>6, <1>7 DEF Looping

LEMMA TerminateStep ==
  ASSUME Inv, NEW p \in Processes, Terminate(p)
  PROVE  Inv' /\ CloudStep
<1>1. pc[p] = "terminate" /\ UNCHANGED <<file, sg, id, past, reported>>
  BY DEF Terminate
<1>2. CASE NextLoop(p, "await-end", past[p].instances)
  BY <1>1, <1>2, NextLoopStep
<1>3. CASE todo[p] # <<>> /\ TerminateOne(p, Head(todo[p]), Tail(todo[p]))
  <2> DEFINE i == Head(todo[p])
             list == Tail(todo[p])
  <2>1. /\ CloudShape /\ CloudOK /\ ProcessShape /\ ProcessOK(p)
        /\ todo[p] \in Seq(InstanceIDs) /\ todo[p] \in Seq(Nat) /\ pc[p] \in Looping
    BY <1>1 DEF Inv, Shape, ProcessShape, ProcessOK, TodoOK, Looping
  <2>2. i \in InstanceIDs /\ list \in Seq(InstanceIDs) /\ list \in Seq(Nat)
    BY <1>3, <2>1
  <2>3. /\ todo' = [todo EXCEPT ![p] = list]
        /\ \/ UNCHANGED vm
           \/ vm[i] \in Living /\ vm' = [vm EXCEPT ![i] = "shutting-down"]
        /\ UNCHANGED <<sgOf, rules, group, groups, pc, ended>>
    BY <1>3 DEF TerminateOne
  <2> HIDE DEF i, list
  <2>4. CloudShape' /\ CloudOK' /\ CloudStep
    <3>1. CASE UNCHANGED vm
      BY <2>1, <2>3, <3>1, SameCloud DEF CloudShape, cloud
    <3>2. CASE vm[i] \in Living /\ vm' = [vm EXCEPT ![i] = "shutting-down"]
      BY <2>1, <2>2, <2>3, <3>2, InstanceChanges DEF Living
    <3> QED
      BY <2>3, <3>1, <3>2
  <2>5. /\ ended[p] \in Contents /\ ended' = [ended EXCEPT ![p] = ended[p]]
        /\ GoTo(p, "terminate")
    BY <1>1, <2>1, <2>3 DEF ProcessShape, GoTo
  <2>6. /\ \A j \in Elements(ended[p].instances) : j \in InstanceIDs /\ vm'[j] \in {"terminated", "gone"}
        /\ \A g \in Elements(ended[p].groups) : g \in 1..groups' /\ g # group'
    BY <2>1, <2>3 DEF ProcessOK, EndedOK, CloudShape, Living
  <2>7. "terminate" \in Looping /\ Fits("terminate", list, groups')
    BY <2>2 DEF Looping, Fits
  <2> QED
    BY <1>1, <2>1, <2>2, <2>3, <2>4, <2>5, <2>6, <2>7, InLoop
<1> QED
  BY <1>2, <1>3 DEF Terminate

LEMMA OneMore ==
  ASSUME NEW s \in Seq(Nat), NEW x \in Nat
  PROVE  Append(s, x) \in Seq(Nat) /\ Elements(Append(s, x)) = Elements(s) \cup {x}
<1>1. Append(s, x) \in Seq(Nat)
  OBVIOUS
<1>2. /\ Len(s) \in Nat /\ Len(Append(s, x)) = Len(s) + 1
      /\ \A i \in 1..Len(s) : Append(s, x)[i] = s[i]
      /\ Append(s, x)[Len(s) + 1] = x
  OBVIOUS
<1>3. 1..(Len(s) + 1) = 1..Len(s) \cup {Len(s) + 1}
  BY <1>2
<1>4. /\ Elements(s) = {s[i] : i \in 1..Len(s)}
      /\ Elements(Append(s, x)) = {Append(s, x)[i] : i \in 1..(Len(s) + 1)}
  BY <1>1, <1>2, ElementsOf
<1> QED
  BY <1>1, <1>2, <1>3, <1>4

LEMMA TakeOne ==
  ASSUME NEW S, NEW s \in Seq(S), s # <<>>
  PROVE  Head(s) \in S /\ Tail(s) \in Seq(S)
OBVIOUS

\* The two lists of what has ended, with one more identifier in one of them.
LEMMA OneList ==
  ASSUME NEW r \in Contents, NEW x
  PROVE  /\ r.instances \in Seq(Nat) /\ r.groups \in Seq(Nat)
         /\ [r EXCEPT !.instances = Append(@, x)] = Info(Append(r.instances, x), r.groups)
         /\ [r EXCEPT !.groups = Append(@, x)] = Info(r.instances, Append(r.groups, x))
<1>1. PICK ids \in Seq(Nat), sgs \in Seq(Nat) : r = [instances |-> ids, groups |-> sgs]
  BY DEF Contents
<1>2. r.instances = ids /\ r.groups = sgs
  BY <1>1
<1>a. ASSUME NEW y
      PROVE  /\ [[instances |-> ids, groups |-> sgs] EXCEPT !.instances = y]
                  = [instances |-> y, groups |-> sgs]
             /\ [[instances |-> ids, groups |-> sgs] EXCEPT !.groups = y]
                  = [instances |-> ids, groups |-> y]
  OBVIOUS
<1>3. /\ [r EXCEPT !.instances = Append(@, x)] = [instances |-> Append(ids, x), groups |-> sgs]
      /\ [r EXCEPT !.groups = Append(@, x)] = [instances |-> ids, groups |-> Append(sgs, x)]
  BY <1>1, <1>2, <1>a
<1> QED
  BY <1>2, <1>3 DEF Info

\* What EC2 says is terminated counts as ended.
LEMMA AwaitTerminatedStep ==
  ASSUME Inv, NEW p \in Processes, AwaitTerminated(p)
  PROVE  Inv' /\ CloudStep
<1>1. pc[p] = "await-end" /\ UNCHANGED <<file, sg, id, past, reported>>
  BY DEF AwaitTerminated
<1>2. CASE NextLoop(p, "delete-group", past[p].groups)
  BY <1>1, <1>2, NextLoopStep
<1>3. CASE /\ todo[p] # <<>> /\ Drop(p) /\ UNCHANGED <<cloud, pc>>
           /\ \/ vm[Head(todo[p])] = "terminated" /\ End(p, Head(todo[p]))
              \/ UNCHANGED ended
  <2> DEFINE i == Head(todo[p])
             list == Tail(todo[p])
             ids == ended[p].instances
             more == Info(Append(ids, i), ended[p].groups)
  <2>1. /\ CloudShape /\ ProcessShape /\ ProcessOK(p)
        /\ todo[p] \in Seq(InstanceIDs) /\ todo[p] \in Seq(Nat) /\ pc[p] \in Looping
        /\ ended[p] \in Contents /\ MaxInstances \in Nat
    BY <1>1, Bounds DEF Inv, Shape, ProcessShape, ProcessOK, TodoOK, Looping
  <2>2. /\ i \in InstanceIDs /\ i \in Nat /\ list \in Seq(InstanceIDs) /\ list \in Seq(Nat)
        /\ ids \in Seq(Nat) /\ ended[p].groups \in Seq(Nat)
    <3>1. i \in InstanceIDs /\ list \in Seq(InstanceIDs) /\ list \in Seq(Nat)
      BY <1>3, <2>1, TakeOne
    <3> QED
      <4>1. ids \in Seq(Nat) /\ ended[p].groups \in Seq(Nat)
        BY <2>1, OneList
      <4>2. InstanceIDs \subseteq Nat
        BY <2>1 DEF InstanceIDs
      <4> QED
        BY <3>1, <4>1, <4>2
  <2>3. CloudShape' /\ CloudOK' /\ CloudStep
    BY <1>3, SameCloud DEF Inv, Shape, CloudShape, cloud
  <2>4. todo' = [todo EXCEPT ![p] = list] /\ GoTo(p, "await-end")
    BY <1>1, <1>3, <2>1 DEF Drop, GoTo, ProcessShape
  <2>5. "await-end" \in Looping /\ Fits("await-end", list, groups')
    BY <2>2 DEF Looping, Fits
  <2>6. /\ \A j \in Elements(ids) : j \in InstanceIDs /\ vm'[j] \in {"terminated", "gone"}
        /\ \A g \in Elements(ended[p].groups) : g \in 1..groups' /\ g # group'
    BY <1>3, <2>1 DEF ProcessOK, EndedOK, cloud
  <2>7. CASE UNCHANGED ended
    <3>1. ended' = [ended EXCEPT ![p] = ended[p]]
      BY <2>1, <2>7 DEF ProcessShape
    <3> QED
      BY <1>1, <2>1, <2>2, <2>3, <2>4, <2>5, <2>6, <3>1, InLoop
  <2>8. CASE vm[i] = "terminated" /\ End(p, i)
    <3>1. Append(ids, i) \in Seq(Nat) /\ Elements(Append(ids, i)) = Elements(ids) \cup {i}
      BY <2>2, OneMore
    <3>2. ended' = [ended EXCEPT ![p] = more]
      <4>1. [ended[p] EXCEPT !.instances = Append(@, i)] = more
        BY <2>1, OneList
      <4> QED
        BY <2>1, <2>8, <4>1 DEF End, ProcessShape
    <3>3. more \in Contents /\ more.instances = Append(ids, i) /\ more.groups = ended[p].groups
      BY <2>2, <3>1 DEF Info, Contents
    <3>4. vm'[i] = "terminated"
      BY <1>3, <2>8 DEF cloud
    <3> HIDE DEF more, i, list, ids
    <3>5. \A j \in Elements(more.instances) : j \in InstanceIDs /\ vm'[j] \in {"terminated", "gone"}
      BY <2>2, <2>6, <3>1, <3>3, <3>4
    <3> QED
      BY <1>1, <2>1, <2>2, <2>3, <2>4, <2>5, <2>6, <3>2, <3>3, <3>5, InLoop
  <2> QED
    BY <1>3, <2>7, <2>8
<1> QED
  BY <1>2, <1>3 DEF AwaitTerminated

LEMMA DeleteSGStep ==
  ASSUME Inv, NEW p \in Processes, DeleteSG(p)
  PROVE  Inv' /\ CloudStep
<1>1. pc[p] = "delete-group" /\ UNCHANGED <<file, sg, id, past, reported>>
  BY DEF DeleteSG
<1>2. CASE NextLoop(p, "read-rest", <<>>)
  BY <1>1, <1>2, NextLoopStep
<1>3. CASE /\ todo[p] # <<>> /\ UNCHANGED <<cloud, ended>>
           /\ \/ Drop(p) /\ UNCHANGED pc
              \/ GoTo(p, "delete-sg") /\ UNCHANGED todo
  <2>1. /\ CloudShape /\ CloudOK /\ ProcessShape /\ ProcessOK(p) /\ groups \in Nat
        /\ todo[p] \in Seq(1..groups) /\ todo[p] \in Seq(Nat) /\ pc[p] \in Looping
        /\ ended[p] \in Contents
    BY <1>1, Bounds DEF Inv, Shape, ProcessShape, ProcessOK, TodoOK, Looping
  <2>2. CloudShape' /\ CloudOK' /\ CloudStep /\ UNCHANGED <<vm, group, groups>>
    BY <1>3, <2>1, SameCloud DEF CloudShape, cloud
  <2>3. ended' = [ended EXCEPT ![p] = ended[p]]
    BY <1>3, <2>1 DEF ProcessShape
  <2>4. /\ \A i \in Elements(ended[p].instances) : i \in InstanceIDs /\ vm'[i] \in {"terminated", "gone"}
        /\ \A h \in Elements(ended[p].groups) : h \in 1..groups' /\ h # group'
    BY <2>1, <2>2 DEF ProcessOK, EndedOK
  <2>5. "delete-group" \in Looping /\ "delete-sg" \in Looping
    BY DEF Looping
  <2>6. CASE Drop(p) /\ UNCHANGED pc
    <3>1. Tail(todo[p]) \in Seq(1..groups') /\ Tail(todo[p]) \in Seq(Nat)
      BY <1>3, <2>1, <2>2, TakeOne
    <3>2. GoTo(p, "delete-group") /\ todo' = [todo EXCEPT ![p] = Tail(todo[p])]
      BY <1>1, <2>1, <2>6 DEF GoTo, Drop, ProcessShape
    <3>3. Fits("delete-group", Tail(todo[p]), groups')
      BY <3>1 DEF Fits
    <3> QED
      BY <1>1, <2>1, <2>2, <2>3, <2>4, <2>5, <3>1, <3>2, <3>3, InLoop
  <2>7. CASE GoTo(p, "delete-sg") /\ UNCHANGED todo
    <3>1. todo' = [todo EXCEPT ![p] = todo[p]]
      BY <2>1, <2>2, <2>7 DEF ProcessShape
    <3>2. Fits("delete-sg", todo[p], groups')
      BY <1>3, <2>1, <2>2 DEF Fits
    <3> QED
      BY <1>1, <1>3, <2>1, <2>2, <2>3, <2>4, <2>5, <2>7, <3>1, <3>2, InLoop
  <2> QED
    BY <1>3, <2>6, <2>7
<1> QED
  BY <1>2, <1>3 DEF DeleteSG, cloud

\* A deleted group is not the present one, and never is again; nobody who lives has it.
LEMMA DeleteSecurityGroupStep ==
  ASSUME Inv, NEW p \in Processes, DeleteSecurityGroup(p)
  PROVE  Inv' /\ CloudStep
<1>1. /\ pc[p] = "delete-sg" /\ todo[p] # <<>> /\ UNCHANGED <<file, sg, id, past, reported>>
      /\ Drop(p) /\ GoTo(p, "delete-group") /\ UNCHANGED <<vm, sgOf, groups>>
  BY DEF DeleteSecurityGroup, Inv, ProcessOK, TodoOK
<1>3. /\ \/ /\ group = Head(todo[p]) /\ ~InUse(Head(todo[p])) /\ group' = 0
            /\ rules' = [rules EXCEPT ![Head(todo[p])] = {}]
            /\ ended' = [ended EXCEPT ![p].groups = Append(@, Head(todo[p]))]
         \/ UNCHANGED <<group, rules, ended>>
  BY DEF DeleteSecurityGroup
<1>4. Inv' /\ CloudStep
  <2> DEFINE g == Head(todo[p])
             list == Tail(todo[p])
             sgs == ended[p].groups
             more == Info(ended[p].instances, Append(sgs, g))
  <2>1. /\ CloudShape /\ CloudOK /\ ProcessShape /\ ProcessOK(p) /\ groups \in Nat
        /\ todo[p] \in Seq(1..groups) /\ todo[p] \in Seq(Nat) /\ pc[p] \in Looping
        /\ ended[p] \in Contents
    BY <1>1, Bounds DEF Inv, Shape, ProcessShape, ProcessOK, TodoOK, Looping
  <2>2. /\ g \in 1..groups /\ g \in Nat /\ list \in Seq(1..groups) /\ list \in Seq(Nat)
        /\ sgs \in Seq(Nat) /\ ended[p].instances \in Seq(Nat)
    <3>1. g \in 1..groups /\ list \in Seq(1..groups) /\ list \in Seq(Nat)
      BY <1>1, <1>3, <2>1, TakeOne
    <3> QED
      <4>1. sgs \in Seq(Nat) /\ ended[p].instances \in Seq(Nat)
        BY <2>1, OneList
      <4>2. 1..groups \subseteq Nat
        BY <2>1
      <4> QED
        BY <3>1, <4>1, <4>2
  <2>3. todo' = [todo EXCEPT ![p] = list] /\ GoTo(p, "delete-group") /\ UNCHANGED groups
    BY <1>1, <1>3, <2>1 DEF Drop, GoTo, ProcessShape
  <2>4. /\ "delete-sg" \in Looping /\ "delete-group" \in Looping
        /\ Fits("delete-group", list, groups')
    BY <2>2, <2>3 DEF Looping, Fits
  <2>5. \A j \in Elements(ended[p].instances) : j \in InstanceIDs /\ vm'[j] \in {"terminated", "gone"}
    BY <1>1, <1>3, <2>1 DEF ProcessOK, EndedOK
  <2>6. CASE UNCHANGED <<group, rules, ended>>
    <3>1. CloudShape' /\ CloudOK' /\ CloudStep
      BY <1>1, <1>3, <2>1, <2>6, SameCloud DEF CloudShape, cloud
    <3>2. ended' = [ended EXCEPT ![p] = ended[p]]
      BY <2>1, <2>6 DEF ProcessShape
    <3>3. \A h \in Elements(sgs) : h \in 1..groups' /\ h # group'
      BY <1>1, <1>3, <2>1, <2>6 DEF ProcessOK, EndedOK
    <3> QED
      BY <1>1, <2>1, <2>2, <2>3, <2>4, <2>5, <3>1, <3>2, <3>3, InLoop
  <2>7. CASE /\ group = g /\ ~InUse(g) /\ group' = 0 /\ rules' = [rules EXCEPT ![g] = {}]
             /\ ended' = [ended EXCEPT ![p].groups = Append(@, g)]
    <3>1. Append(sgs, g) \in Seq(Nat) /\ Elements(Append(sgs, g)) = Elements(sgs) \cup {g}
      BY <2>2, OneMore
    <3>2. ended' = [ended EXCEPT ![p] = more]
      <4>1. [ended[p] EXCEPT !.groups = Append(@, g)] = more
        BY <2>1, OneList
      <4> QED
        BY <2>1, <2>7, <4>1 DEF ProcessShape
    <3>3. more \in Contents /\ more.groups = Append(sgs, g) /\ more.instances = ended[p].instances
      BY <2>2, <3>1 DEF Info, Contents
    <3>4. UNCHANGED <<vm, sgOf, groups>>
      BY <1>1
    <3>5. \A h \in Elements(sgs) : h \in 1..groups
      BY <2>1 DEF ProcessOK, EndedOK
    <3> HIDE DEF more, g, list, sgs
    <3>6. CloudShape'
      BY <2>1, <2>7, <3>4 DEF CloudShape
    <3>7. \A h \in GroupIDs : rules'[h] = IF h = g THEN {} ELSE rules[h]
      BY <2>1, <2>7 DEF CloudShape
    <3>8. CloudOK'
      BY <2>1, <2>2, <2>7, <3>4, <3>7 DEF CloudOK
    <3>9. CloudStep
      <4>1. ASSUME NEW i \in InstanceIDs, vm[i] # "none", vm[i] \in Living
            PROVE  rules[sgOf[i]] \subseteq rules'[sgOf[i]]
        <5>1. sgOf[i] # g
          BY <2>7, <4>1 DEF InUse
        <5> QED
          BY <2>1, <3>7, <4>1, <5>1, GroupOf
      <4>2. groups <= groups' /\ \A h \in 1..groups : h # group'
        BY <2>1, <2>7, <3>4
      <4> QED
        BY <3>4, <4>1, <4>2 DEF CloudStep
    <3>10. \A h \in Elements(more.groups) : h \in 1..groups' /\ h # group'
      BY <2>1, <2>2, <2>7, <3>1, <3>3, <3>4, <3>5
    <3> QED
      BY <1>1, <2>1, <2>2, <2>3, <2>4, <2>5, <3>2, <3>3, <3>6, <3>8, <3>9, <3>10, InLoop
  <2> QED
    BY <1>1, <1>3, <2>6, <2>7
<1> QED
  BY <1>4

LEMMA RecordRestStep ==
  ASSUME Inv, NEW p \in Processes, RecordRest(p)
  PROVE  Inv' /\ CloudStep
<1>1. /\ pc[p] \in Writing /\ Exit(p, "destroyed") /\ UNCHANGED <<cloud, reported>>
      /\ WriteFile(p) \/ UNCHANGED file
  BY DEF RecordRest, Writing
<1> QED
  BY <1>1, WriteAndExit DEF Handles

LEMMA DestroyWindowsVMStep ==
  ASSUME Inv, NEW p \in Processes, DestroyWindowsVM(p)
  PROVE  Inv' /\ CloudStep
<1>1. /\ ProcessShape /\ FileShape /\ ProcessOK(p) /\ InstanceIDs \subseteq Nat
  BY Bounds DEF Inv, Shape, InstanceIDs
<1>2. PICK i \in Reported :
        /\ pc[p] = "idle" /\ pc' = [pc EXCEPT ![p] = "terminate-one"]
        /\ todo' = [todo EXCEPT ![p] = <<i>>]
        /\ UNCHANGED <<cloud, file, sg, id, past, ended, reported>>
  BY DEF DestroyWindowsVM, GoTo
<1>a. i \in InstanceIDs
  BY <1>1, <1>2 DEF FileShape, Reported
<1>3. <<i>> \in Seq(InstanceIDs) \ {<<>>} /\ <<i>> \in Seq(Nat)
  BY <1>1, <1>a
<1>4. ProcessShape'
  BY <1>1, <1>2, <1>3 DEF ProcessShape, Labels
<1>5. Others(p)
  BY <1>1, <1>2 DEF ProcessShape, Others, Frame
<1>6. /\ pc'[p] = "terminate-one" /\ todo'[p] = <<i>>
      /\ UNCHANGED <<cloud, sg[p], id[p], past[p], ended[p]>>
  BY <1>1, <1>2 DEF ProcessShape
<1>7. HoldsOK(p)' /\ LetInOK(p)'
  BY <1>1, <1>2, <1>6 DEF ProcessOK, HoldsOK, LetInOK, Owning, Running, cloud
<1>8. PastOK(p)' /\ TodoOK(p)'
  BY <1>3, <1>6 DEF PastOK, TodoOK, Writing, Looping
<1>9. EndedOK(p)'
  BY <1>1, <1>6 DEF ProcessOK, EndedOK, cloud
<1> QED
  BY <1>2, <1>4, <1>5, <1>7, <1>8, <1>9, LocalStepOf DEF ProcessOK

LEMMA TerminateTheOneStep ==
  ASSUME Inv, NEW p \in Processes, TerminateTheOne(p)
  PROVE  Inv' /\ CloudStep
<1> DEFINE i == Head(todo[p])
<1>1. /\ CloudShape /\ CloudOK /\ ProcessShape /\ ProcessOK(p)
      /\ pc[p] = "terminate-one" /\ UNCHANGED <<sgOf, rules, group, groups, file, reported>>
  BY DEF Inv, Shape, TerminateTheOne
<1>2. CASE Exit(p, "error") /\ UNCHANGED vm
  BY <1>1, <1>2, ExitStep DEF cloud
<1>3. CASE /\ vm[i] # "gone"
           /\ vm' = [vm EXCEPT ![i] = IF @ \in Living THEN "shutting-down" ELSE @]
           /\ GoTo(p, "await-one") /\ UNCHANGED local
  <2>1. i \in InstanceIDs
    BY <1>1, TakeOne DEF ProcessOK, TodoOK
  <2>2. CloudShape' /\ CloudOK' /\ CloudStep
    <3> HIDE DEF i
    <3>1. CASE vm[i] \in Living
      <4>1. vm' = [vm EXCEPT ![i] = "shutting-down"]
        BY <1>3, <3>1
      <4> QED
        BY <1>1, <2>1, <3>1, <4>1, InstanceChanges DEF Living
    <3>2. CASE vm[i] \notin Living
      <4>1. vm' = vm
        BY <1>1, <1>3, <2>1, <3>2 DEF CloudShape
      <4> QED
        BY <1>1, <4>1, SameCloud DEF CloudShape, cloud
    <3> QED
      BY <3>1, <3>2
  <2>3. ProcessShape'
    BY <1>1, <1>3 DEF ProcessShape, GoTo, local, Labels
  <2>4. Others(p)
    BY <1>1, <1>3 DEF ProcessShape, GoTo, local, Others, Frame
  <2>5. pc'[p] = "await-one" /\ UNCHANGED <<sg[p], id[p], past[p], todo[p], ended[p]>>
    BY <1>1, <1>3 DEF ProcessShape, GoTo, local
  <2>6. HoldsOK(p)' /\ LetInOK(p)'
    BY <1>1, <2>5 DEF ProcessOK, HoldsOK, LetInOK, Owning, Running
  <2>7. PastOK(p)' /\ TodoOK(p)'
    BY <1>1, <2>5 DEF ProcessOK, PastOK, TodoOK, Writing, Looping
  <2>8. EndedOK(p)'
    <3>1. \A j \in Elements(ended[p].instances) :
            j \in InstanceIDs /\ vm[j] \notin Living /\ vm[j] # "none"
      BY <1>1 DEF ProcessOK, EndedOK, Living
    <3>2. \A j \in Elements(ended[p].instances) : vm'[j] \in {"terminated", "gone"}
      BY <2>2, <3>1 DEF CloudStep, CloudShape
    <3> QED
      BY <1>1, <2>5, <3>1, <3>2 DEF ProcessOK, EndedOK
  <2> QED
    BY <1>1, <2>2, <2>3, <2>4, <2>6, <2>7, <2>8, StepOf DEF ProcessOK
<1> QED
  BY <1>2, <1>3 DEF TerminateTheOne

-----------------------------------------------------------------------------
(* EC2 *)

LEMMA EC2Step ==
  ASSUME Inv, EC2
  PROVE  Inv' /\ CloudStep
<1>1. PICK i \in InstanceIDs, from \in {"pending", "shutting-down", "terminated"},
           to \in {"running", "terminated", "gone"} :
        Change(i, from, to) /\ (to \in Living => from \in Living)
  BY DEF EC2, ComesUp, Terminates, IsForgotten, Living
<1>2. CloudShape' /\ CloudOK' /\ CloudStep
  <2>1. /\ vm[i] # "none" /\ to \in Living \cup {"terminated", "gone"}
        /\ to \in Living => vm[i] \in Living
        /\ vm' = [vm EXCEPT ![i] = to] /\ UNCHANGED <<sgOf, rules, group, groups>>
    BY <1>1 DEF Change, Living
  <2> QED
    BY <2>1, InstanceChanges DEF Inv, Shape
<1>3. UNCHANGED <<local, file, pc, reported>>
  BY <1>1 DEF Change
<1>4. ProcessShape' /\ FileShape'
  BY <1>3 DEF Inv, Shape, ProcessShape, FileShape, local
<1>5. ASSUME NEW p \in Processes
      PROVE  ProcessOK(p)'
  BY <1>2, <1>3, ProcessKept DEF Inv, Frame, local
<1>6. ReportedOK'
  BY <1>2, <1>3, ReportedKept DEF Inv, Shape
<1>7. \A d \in Dirs : FileOK(file'[d], groups')
  <2>1. groups' = groups
    BY <1>1 DEF Change
  <2> QED
    BY <1>3, <2>1 DEF Inv
<1> QED
  BY <1>2, <1>4, <1>5, <1>6, <1>7 DEF Inv, Shape

-----------------------------------------------------------------------------
(* The theorems that need nothing of the directories *)

LEMMA InitInv == ASSUME Init PROVE Inv
<1>1. CloudShape /\ FileShape
  <2>1. vm \in [InstanceIDs -> Living \cup {"none", "terminated", "gone"}]
    BY DEF Init
  <2>2. sgOf \in [InstanceIDs -> Nat]
    BY DEF Init
  <2>3. DOMAIN rules = GroupIDs /\ rules = [g \in GroupIDs |-> rules[g]]
    BY DEF Init
  <2> QED
    BY <2>1, <2>2, <2>3 DEF Init, CloudShape, FileShape
<1>2. CloudOK
  <2>1. groups \in 0..MaxGroups /\ group \in 0..groups /\ groups \in Nat
    BY AWSAssumption DEF Init
  <2>2. \A g \in GroupIDs : rules[g] # {} => g = group
    BY DEF Init
  <2>3. \A i \in InstanceIDs : sgOf[i] \in 0..groups /\ (vm[i] = "none" <=> sgOf[i] = 0)
    BY <2>1 DEF Init
  <2> QED
    BY <2>1, <2>2, <2>3 DEF CloudOK
<1>3. ProcessShape
  <2>1. Info(<<>>, <<>>) \in Contents /\ <<>> \in Seq(Nat)
    BY DEF Info, Contents
  <2>2. ended \in [Processes -> Contents] /\ todo \in [Processes -> Seq(Nat)]
    BY <2>1 DEF Init
  <2> QED
    BY <2>2 DEF Init, ProcessShape, Labels
<1>4. \A d \in Dirs : FileOK(file[d], groups)
  BY AbsentIsEmpty DEF Init, FileOK, Proper
<1>5. ASSUME NEW p \in Processes
      PROVE  ProcessOK(p)
  <2>1. /\ pc[p] = "idle" /\ sg[p] = 0 /\ id[p] = 0 /\ todo[p] = <<>>
        /\ ended[p] = Info(<<>>, <<>>)
    BY <1>5 DEF Init
  <2>2. HoldsOK(p)
    BY <1>2, <2>1, Bounds DEF HoldsOK, Owning, Running
  <2>3. LetInOK(p) /\ PastOK(p) /\ TodoOK(p)
    BY <2>1 DEF LetInOK, PastOK, TodoOK, Writing, Looping
  <2>4. EndedOK(p)
    <3>1. Elements(<<>>) = {}
      BY DEF Elements
    <3> QED
      BY <2>1, <3>1 DEF EndedOK, Info
  <2> QED
    BY <2>2, <2>3, <2>4 DEF ProcessOK
<1> QED
  BY <1>1, <1>2, <1>3, <1>4, <1>5 DEF Init, Inv, Shape, ReportedOK

LEMMA NextInv == ASSUME Inv, [Next]_vars PROVE Inv' /\ CloudStep
<1>1. ASSUME NEW p \in Processes, Create(p)
      PROVE  Inv' /\ CloudStep
  <2>1. CASE ReadForGroup(p) \/ ReadForInstance(p)
    BY <2>1, ReadStep DEF ReadForGroup, ReadForInstance
  <2> QED
    BY <1>1, <2>1, FindGroupStep, CreateGroupStep, RecordGroupStep, AddRulesStep,
       RunInstanceStep, AwaitInstanceStep, RecordInstanceStep DEF Create
<1>2. ASSUME NEW p \in Processes, Destroy(p)
      PROVE  Inv' /\ CloudStep
  <2>1. CASE ReadForRest(p)
    BY <2>1, ReadStep DEF ReadForRest
  <2>2. CASE AwaitTheOne(p)
    BY <2>2, ExitStep DEF AwaitTheOne
  <2> QED
    BY <1>2, <2>1, <2>2, TerminateStep, AwaitTerminatedStep, DeleteSGStep,
       DeleteSecurityGroupStep, RecordRestStep, TerminateTheOneStep DEF Destroy
<1>3. ASSUME NEW p \in Processes, CallFails(p) \/ WriteFails(p) \/ Killed(p)
      PROVE  Inv' /\ CloudStep
  <2>1. PICK result : Exit(p, result) /\ Handles(p) /\ UNCHANGED <<cloud, reported>>
    BY <1>3 DEF CallFails, WriteFails, Killed, Handles
  <2> QED
    BY <2>1, WriteAndExit
<1>4. CASE UNCHANGED vars
  <2>1. UNCHANGED <<cloud, local, file, pc, reported>>
    BY <1>4 DEF vars
  <2>2. UNCHANGED <<vm, sgOf, rules, group, groups>>
    BY <2>1 DEF cloud
  <2>3. UNCHANGED <<sg, id, past, todo, ended>>
    BY <2>1 DEF local
  <2>4. Shape'
    BY <2>1, <2>2, <2>3 DEF Inv, Shape, CloudShape, FileShape, ProcessShape
  <2>5. CloudOK'
    BY <2>1, <2>2 DEF Inv, CloudOK
  <2>6. ReportedOK'
    BY <2>1, <2>2 DEF Inv, ReportedOK
  <2>7. ASSUME NEW d \in Dirs
        PROVE  FileOK(file'[d], groups')
    BY <2>1, <2>2 DEF Inv
  <2>8. \A p \in Processes : ProcessOK(p)'
    BY <2>1, <2>2, <2>3 DEF Inv, ProcessOK, HoldsOK, LetInOK, PastOK, TodoOK, EndedOK
  <2>9. CloudStep
    BY <2>1, SameCloud DEF Inv
  <2> QED
    BY <2>4, <2>5, <2>8, <2>9, <2>6, <2>7 DEF Inv
<1> QED
  BY <1>1, <1>2, <1>3, <1>4, CreateWindowsVMStep, DestroyWindowsVMsStep, DestroyWindowsVMStep,
     EC2Step DEF Next

\* What commands and EC2 do keeps the cloud, the files and what each command relies
\* on in order.
THEOREM InvHolds == Spec => []Inv
<1>1. Init => Inv
  BY InitInv
<1>2. Inv /\ [Next]_vars => Inv'
  BY NextInv
<1> QED
  BY <1>1, <1>2, PTL DEF Spec

\* The state has its types; a command holds a group and an instance that were
\* created, and only while it runs.
THEOREM TypeCorrect == Spec => []TypeOK
<1>1. ASSUME Inv
      PROVE  TypeOK
  <2>1. /\ vm \in [InstanceIDs -> Living \cup {"none", "terminated", "gone"}]
        /\ \A i \in InstanceIDs : sgOf[i] \in 0..groups /\ (vm[i] = "none" <=> sgOf[i] = 0)
        /\ group \in 0..groups /\ groups \in 0..MaxGroups
        /\ \A g \in GroupIDs : rules[g] # {} => g = group
    BY <1>1 DEF Inv, Shape, CloudShape, CloudOK
  <2>2. ASSUME NEW p \in Processes
        PROVE  /\ sg[p] \in 0..groups
               /\ id[p] # 0 => vm[id[p]] # "none" /\ sgOf[id[p]] = sg[p]
               /\ pc[p] = "idle" => sg[p] = 0 /\ id[p] = 0 /\ todo[p] = <<>>
    <3>1. HoldsOK(p) /\ TodoOK(p)
      BY <1>1 DEF Inv, ProcessOK
    <3>2. pc[p] = "idle" => pc[p] \notin Running
      BY DEF Running
    <3> QED
      BY <3>1, <3>2 DEF HoldsOK, TodoOK
  <2> QED
    BY <2>1, <2>2 DEF TypeOK
<1> QED
  BY <1>1, InvHolds, PTL

\* What create has reported lets in the machine of one of the operators as long as it
\* lives, whoever else creates and destroys.
THEOREM ReportedStaysReachable == Spec => []ReportedIsReachable
<1>1. Inv => ReportedIsReachable
  BY DEF Inv, ReportedOK, ReportedIsReachable, Reported
<1> QED
  BY <1>1, InvHolds, PTL

-----------------------------------------------------------------------------
(* The file *)

\* p has written its file to the end, and goes on or ends.
Written(p) ==
  /\ pc[p] \in Writing /\ pc'[p] # pc[p] /\ WriteFile(p)
  /\ \/ UNCHANGED reported
     \/ pc[p] = "write-instance" /\ reported' = [reported EXCEPT ![DirOf[p]] = @ \cup {id[p]}]

\* p has left its file half written.
Torn(p) ==
  /\ file' = [file EXCEPT ![DirOf[p]] = Unparsable]
  /\ damaged' = damaged \cup {DirOf[p]}
  /\ UNCHANGED reported

\* Nothing but that changes a file.
LEMMA FileSteps ==
  ASSUME Inv, [Next]_vars
  PROVE  \/ UNCHANGED <<file, damaged, reported>>
         \/ \E p \in Processes : Written(p) \/ Torn(p)
<1>1. pc \in [Processes -> Labels]
  BY DEF Inv, Shape, ProcessShape
<1>2. ASSUME NEW p \in Processes, RecordGroup(p)
      PROVE  UNCHANGED <<file, damaged, reported>> \/ Written(p)
  BY <1>1, <1>2 DEF RecordGroup, Written, Writing, GoTo
<1>3. ASSUME NEW p \in Processes, RecordInstance(p)
      PROVE  UNCHANGED <<file, damaged, reported>> \/ Written(p)
  BY <1>1, <1>3 DEF RecordInstance, Written, Writing, Exit, GoTo
<1>4. ASSUME NEW p \in Processes, RecordRest(p)
      PROVE  UNCHANGED <<file, damaged, reported>> \/ Written(p)
  BY <1>1, <1>4 DEF RecordRest, Written, Writing, Exit, GoTo
<1>5. ASSUME NEW p \in Processes, WriteFails(p) \/ Killed(p)
      PROVE  UNCHANGED <<file, damaged, reported>> \/ Torn(p)
  BY <1>5 DEF WriteFails, Killed, StopWriting, Torn
<1>6. CASE UNCHANGED vars
  BY <1>6 DEF vars
<1>7. CASE EC2
  BY <1>7 DEF EC2, ComesUp, Terminates, IsForgotten, Change
<1>8. ASSUME NEW p \in Processes,
             \/ FindGroup(p) \/ CreateGroup(p) \/ ReadForGroup(p) \/ AddRules(p)
             \/ RunInstance(p) \/ AwaitInstance(p) \/ Connect(p) \/ ReadForInstance(p)
             \/ CreateWindowsVM(p) \/ DestroyWindowsVMs(p) \/ DestroyWindowsVM(p) \/ CallFails(p)
      PROVE  UNCHANGED <<file, damaged, reported>>
  BY <1>8 DEF FindGroup, CreateGroup, ReadForGroup, ReadFile, AddRules, RunInstance, AwaitInstance,
              Connect, ReadForInstance, CreateWindowsVM, DestroyWindowsVMs, DestroyWindowsVM, CallFails
<1>9. ASSUME NEW p \in Processes,
             \/ Terminate(p) \/ AwaitTerminated(p) \/ DeleteSG(p) \/ DeleteSecurityGroup(p)
             \/ ReadForRest(p) \/ TerminateTheOne(p) \/ AwaitTheOne(p)
      PROVE  UNCHANGED <<file, damaged, reported>>
  BY <1>9 DEF Terminate, AwaitTerminated, DeleteSG, DeleteSecurityGroup, ReadForRest, ReadFile,
              TerminateTheOne, AwaitTheOne
<1>10. CASE Next
  BY <1>2, <1>3, <1>4, <1>5, <1>7, <1>8, <1>9, <1>10 DEF Next, Create, Destroy
<1> QED
  BY <1>6, <1>10

\* A command that writes what it read, as long as that is still in the file, takes out
\* of it only what is dead, and puts into it what it reports.
LEMMA Forgets ==
  ASSUME Inv, NEW p \in Processes, pc[p] \in Writing, WriteFile(p), past[p] = file[DirOf[p]]
  PROVE  /\ \A d \in Dirs :
              /\ \A i \in InstancesIn(file[d]) \ InstancesIn(file'[d]) : vm[i] \notin Living
              /\ group \notin GroupsIn(file[d]) \ GroupsIn(file'[d])
         /\ pc[p] = "write-instance" => id[p] \in InstancesIn(file'[DirOf[p]])
<1> DEFINE new == Rewritten(p)
<1>1. new.ok /\ file' = [file EXCEPT ![DirOf[p]] = new.file] /\ DirOf[p] \in Dirs
  BY AWSAssumption DEF WriteFile
<1>2. \A d \in Dirs : file'[d] = IF d = DirOf[p] THEN new.file ELSE file[d]
  BY <1>1 DEF Inv, Shape, FileShape
<1>3. /\ pc[p] = "write-group" =>
           /\ InstancesIn(new.file) = InstancesIn(past[p])
           /\ GroupsIn(new.file) = GroupsIn(past[p]) \cup {sg[p]}
      /\ pc[p] = "write-instance" =>
           /\ InstancesIn(new.file) = InstancesIn(past[p]) \cup {id[p]}
           /\ GroupsIn(new.file) = GroupsIn(past[p])
      /\ pc[p] = "write-rest" =>
           /\ InstancesIn(new.file) = InstancesIn(past[p]) \ Elements(ended[p].instances)
           /\ GroupsIn(new.file) = GroupsIn(past[p]) \ Elements(ended[p].groups)
  BY <1>1, Rewrites
<1>4. /\ \A i \in Elements(ended[p].instances) : vm[i] \notin Living
      /\ group \notin Elements(ended[p].groups)
  BY DEF Inv, ProcessOK, EndedOK, Living
<1> HIDE DEF new
<1>5. /\ \A i \in InstancesIn(past[p]) \ InstancesIn(new.file) : vm[i] \notin Living
      /\ group \notin GroupsIn(past[p]) \ GroupsIn(new.file)
      /\ pc[p] = "write-instance" => id[p] \in InstancesIn(new.file)
  <2>1. CASE pc[p] = "write-group"
    BY <1>3, <2>1
  <2>2. CASE pc[p] = "write-instance"
    BY <1>3, <2>2
  <2>3. CASE pc[p] = "write-rest"
    <3>1. /\ InstancesIn(new.file) = InstancesIn(past[p]) \ Elements(ended[p].instances)
          /\ GroupsIn(new.file) = GroupsIn(past[p]) \ Elements(ended[p].groups)
      BY <1>3, <2>3
    <3> QED
      BY <1>4, <2>3, <3>1
  <2> QED
    BY <2>1, <2>2, <2>3 DEF Writing
<1> QED
  BY <1>1, <1>2, <1>5

\* A step takes only what is dead out of a file, leaves it half written, or overwrites
\* it unseen.
LEMMA ForgetsStep ==
  ASSUME Inv, [Next]_vars, NEW d \in Dirs
  PROVE  \/ /\ \A i \in InstancesIn(file[d]) \ InstancesIn(file'[d]) : vm[i] \notin Living
            /\ group \notin GroupsIn(file[d]) \ GroupsIn(file'[d])
         \/ file'[d] = Unparsable
         \/ OverwritesUnseen(d)
<1>1. CASE file'[d] = file[d]
  BY <1>1
<1>2. ASSUME NEW p \in Processes, Written(p), file'[d] # file[d]
      PROVE  \/ /\ \A i \in InstancesIn(file[d]) \ InstancesIn(file'[d]) : vm[i] \notin Living
                /\ group \notin GroupsIn(file[d]) \ GroupsIn(file'[d])
             \/ OverwritesUnseen(d)
  <2>1. DirOf[p] = d
    BY <1>2, AWSAssumption DEF Written, WriteFile, Inv, Shape, FileShape
  <2>2. CASE past[p] = file[d]
    BY <1>2, <2>1, <2>2, Forgets DEF Written
  <2>3. CASE past[p] # file[d]
    BY <1>2, <2>1, <2>3 DEF Written, OverwritesUnseen
  <2> QED
    BY <2>2, <2>3
<1>3. ASSUME NEW p \in Processes, Torn(p), file'[d] # file[d]
      PROVE  file'[d] = Unparsable
  BY <1>3, AWSAssumption DEF Torn, Inv, Shape, FileShape
<1> QED
  BY <1>1, <1>2, <1>3, FileSteps

LEMMA RecordedStep ==
  ASSUME Inv, ReportedIsRecorded, [Next]_vars
  PROVE  ReportedIsRecorded'
<1> SUFFICES ASSUME NEW d \in Dirs, d \notin damaged', NEW i \in reported'[d], vm'[i] \in Living
             PROVE  i \in InstancesIn(file'[d])
  BY DEF ReportedIsRecorded
<1>1. ASSUME i \in reported[d]
      PROVE  vm[i] \in Living
  <2>1. i \in InstanceIDs /\ vm[i] # "none"
    BY <1>1 DEF Inv, Shape, FileShape, ReportedOK
  <2> QED
    BY <2>1, NextInv DEF CloudStep
<1>2. CASE UNCHANGED <<file, damaged, reported>>
  BY <1>1, <1>2 DEF ReportedIsRecorded
<1>3. ASSUME NEW p \in Processes, Torn(p)
      PROVE  i \in InstancesIn(file'[d])
  <2>1. d # DirOf[p] /\ d \notin damaged /\ reported'[d] = reported[d]
    BY <1>3 DEF Torn
  <2>2. file'[d] = file[d]
    BY <1>3, <2>1 DEF Torn, Inv, Shape, FileShape
  <2> QED
    BY <1>1, <2>1, <2>2 DEF ReportedIsRecorded
<1>4. ASSUME NEW p \in Processes, Written(p)
      PROVE  i \in InstancesIn(file'[d])
  <2>1. d \notin damaged
    BY <1>4 DEF Written, WriteFile
  <2>2. CASE d # DirOf[p]
    <3>1. file'[d] = file[d] /\ reported'[d] = reported[d]
      BY <1>4, <2>2 DEF Written, WriteFile, Inv, Shape, FileShape
    <3> QED
      BY <1>1, <2>1, <3>1 DEF ReportedIsRecorded
  <2>3. CASE d = DirOf[p]
    <3>1. past[p] = file[d]
      BY <1>4, <2>3 DEF Written, WriteFile
    <3>2. i \in reported[d] \/ (pc[p] = "write-instance" /\ i = id[p])
      BY <1>4, <2>3 DEF Written, Inv, Shape, FileShape
    <3>3. CASE i \in reported[d]
      BY <1>1, <1>4, <2>1, <2>3, <3>1, <3>3, Forgets DEF Written, ReportedIsRecorded
    <3>4. CASE pc[p] = "write-instance" /\ i = id[p]
      BY <1>4, <2>3, <3>1, <3>4, Forgets DEF Written
    <3> QED
      BY <3>2, <3>3, <3>4
  <2> QED
    BY <2>2, <2>3
<1> QED
  BY <1>2, <1>3, <1>4, FileSteps

\* What create has reported to the operator is in the file of its directory until it
\* is terminated, whichever calls fail and wherever wni is killed, as long as nobody
\* has overwritten that file unseen or left it half written.
THEOREM ReportedStaysRecorded == Spec => []ReportedIsRecorded
<1>1. Init => Inv /\ ReportedIsRecorded
  BY InitInv DEF Init, ReportedIsRecorded
<1>2. Inv /\ ReportedIsRecorded /\ [Next]_vars => (Inv /\ ReportedIsRecorded)'
  BY NextInv, RecordedStep
<1> QED
  BY <1>1, <1>2, PTL DEF Spec

\* An instance leaves a file only when it is terminated, and a security group only
\* when it is deleted, or the file is overwritten unseen or left half written.
THEOREM OnlyTheDeadAreForgotten == Spec => ForgetsOnlyTheDead
<1> DEFINE A == \A d \in Dirs :
                  \/ /\ \A i \in InstancesIn(file[d]) \ InstancesIn(file'[d]) : vm[i] \notin Living
                     /\ group \notin GroupsIn(file[d]) \ GroupsIn(file'[d])
                  \/ file'[d] = Unparsable
                  \/ OverwritesUnseen(d)
<1>1. Inv /\ [Next]_vars => A
  BY ForgetsStep
<1>2. Spec => [][A]_vars
  BY <1>1, InvHolds, PTL DEF Spec
<1> QED
  BY <1>2 DEF ForgetsOnlyTheDead
=============================================================================
