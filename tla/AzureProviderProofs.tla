-------------------------- MODULE AzureProviderProofs --------------------------
(***************************************************************************)
(* However many operators, VMs and faults there are, nothing that destroy  *)
(* was to remove is lost without a word in its log.                        *)
(***************************************************************************)
EXTENDS AzureProvider, InstallerInfoProofs

-----------------------------------------------------------------------------
(* The inductive invariant *)

\* By where a command is: before its VM exists, and after; working on the first of
\* the VMs to be destroyed, and through with all that were in the file.
Making    == {"get-rules", "put-rules", "create-ip", "create-nic", "create-vm"}
Made      == {"await-vm", "record", "connect", "created"}
Unmaking  == {"delete-vm", "await-gone", "detach", "delete-nic", "delete-ip", "delete-disk"}
Forgetful == {"delete-rules", "forget"}
Labels    == {"idle", "look-up", "done"} \cup Making \cup Made \cup Unmaking \cup Forgetful

VMStates  == {"none", "creating", "running", "deleting", "gone"}
NICStates == {"none", "there", "deleting"}

CloudShape ==
  /\ vm \in [VMs -> VMStates] /\ nicOf \in [VMs -> Names \cup {Blank}]
  /\ nic \in [Names -> NICStates] /\ ipOf \in [Names -> Names \cup {Blank}]
  /\ ips \subseteq Names /\ disks \subseteq 1..drawn /\ drawn \in 0..MaxVMs

ProcessShape ==
  /\ file \in [Processes -> Contents \cup {Absent, Unparsable}]
  /\ pc \in [Processes -> Labels] /\ name \in [Processes -> Nat]
  /\ flags \in [Processes -> SUBSET {"nic", "ip"}]
  /\ past \in [Processes -> Contents \cup {Absent, NoFile}]
  /\ todo \in [Processes -> Seq(VMs)]
  /\ found \in [Processes -> [vm : BOOLEAN, nic : Nat, ip : Nat]]
  /\ log \in [Processes -> SUBSET (VMs \X {"vm", "detach", "nic", "ip", "disk"})]

\* A VM was drawn and has the NIC of its name or the one given; one that exists has its
\* disk and a NIC of its own; a NIC made by wni has the address of its name, if that was
\* made, and none before it is made.
CloudOK ==
  /\ \A i \in VMs : vm[i] # "none" => i <= drawn /\ nicOf[i] \in {i, Given}
  /\ \A i \in VMs : Exists(i) =>
       /\ i \in disks /\ nic[nicOf[i]] = "there"
       /\ \A j \in VMs \ {i} : Exists(j) => nicOf[j] # nicOf[i]
  /\ \A n \in VMs : ipOf[n] \in {Blank, n} \/ n \notin ips
  /\ \A n \in VMs : n > drawn => ipOf[n] = Blank /\ n \notin ips

\* A file is two lists in order, and its VMs were created.
FileOK(list) ==
  /\ Proper(list)
  /\ \A i \in InstancesIn(list) : i \in VMs /\ vm[i] # "none"
  /\ GroupsIn(list) \subseteq {NSG}

\* What has become of a VM, or the log says so, or Azure failed to do what it accepted.
NoVM(p, i)   == vm[i] = "gone" \/ <<i, "vm">> \in log[p]
NoNIC(p, i)  == nic[nicOf[i]] # "there" \/ <<i, "nic">> \in log[p] \/ <<"nic", nicOf[i]>> \in failed
NoIP(p, i)   == nicOf[i] = i => i \notin ips \/ <<i, "ip">> \in log[p] \/ <<"ip", i>> \in failed
NoDisk(p, i) == i \notin disks \/ <<i, "disk">> \in log[p] \/ <<"disk", i>> \in failed
Dealt(p, i)  == NoVM(p, i) /\ NoNIC(p, i) /\ NoIP(p, i) /\ NoDisk(p, i)

\* The name of a command that creates is nobody else's, and nothing has it before the
\* command makes it.
MakingOK(p) ==
  /\ name[p] \in 0..drawn
  /\ pc[p] \in Making \cup Made => name[p] # Blank
  /\ pc[p] \in Making => vm[name[p]] = "none"
  /\ pc[p] \in {"get-rules", "put-rules", "create-ip"} =>
       ipOf[name[p]] = Blank /\ name[p] \notin ips
  /\ pc[p] \in {"create-nic", "create-vm"} /\ "ip" \in flags[p] => name[p] \notin ips
  /\ pc[p] \in Made => vm[name[p]] # "none"
  /\ pc[p] = "idle" => name[p] = Blank /\ log[p] = {}

\* A command destroys the VM that it created, or those that it read of in its file.
TaskOK(p) ==
  /\ past[p] \in {NoFile, file[p]}
  /\ past[p] # NoFile => Readable(past[p]) /\ pc[p] \in {"look-up"} \cup Unmaking \cup Forgetful
  /\ pc[p] \in Forgetful => past[p] # NoFile
  /\ pc[p] \in Unmaking => todo[p] # <<>>
  /\ pc[p] \notin {"look-up"} \cup Unmaking => todo[p] = <<>>
  /\ pc[p] \in {"look-up", "done"} \cup Unmaking /\ past[p] = NoFile =>
       /\ name[p] # Blank /\ vm[name[p]] # "none"
       /\ pc[p] # "done" => todo[p] = <<name[p]>>
  /\ past[p] # NoFile => Elements(todo[p]) \subseteq InstancesIn(past[p])

\* What it is through with is gone, or in the log; and so is what it has deleted of the
\* one that it works on, of which the look-ups told nothing or the truth.
ProgressOK(p) ==
  /\ past[p] # NoFile => \A i \in InstancesIn(past[p]) \ Elements(todo[p]) : Dealt(p, i)
  /\ pc[p] = "done" => Dealt(p, name[p])
  /\ pc[p] \in Unmaking =>
       LET i == Head(todo[p])
       IN  /\ found[p].nic \in {Blank, nicOf[i]}
           /\ found[p].ip # Blank /\ nicOf[i] = i => found[p].ip = i \/ i \notin ips
           /\ pc[p] \notin {"delete-vm", "await-gone"} => NoVM(p, i)
           /\ pc[p] \in {"delete-ip", "delete-disk"} => NoNIC(p, i)
           /\ pc[p] = "delete-disk" => NoIP(p, i)

ProcessOK(p) == MakingOK(p) /\ TaskOK(p) /\ ProgressOK(p)

\* No two commands create one VM.
NamesOK == \A p, q \in Processes : name[p] = name[q] => p = q \/ name[p] = Blank

Inv ==
  /\ CloudShape /\ ProcessShape /\ CloudOK /\ NamesOK
  /\ \A p \in Processes : FileOK(file[p]) /\ ProcessOK(p)

-----------------------------------------------------------------------------
(* What every step keeps *)

\* What was created stays created, on its NIC, and what of it is gone stays gone; of what
\* was not created yet, nothing comes to be, but for k.
CloudStep(k) ==
  /\ drawn <= drawn' /\ failed \subseteq failed'
  /\ \A i \in VMs : vm[i] # "none" =>
       /\ vm'[i] # "none" /\ nicOf'[i] = nicOf[i]
       /\ vm[i] = "gone" => vm'[i] = "gone"
       /\ nic[nicOf[i]] # "there" => nic'[nicOf[i]] # "there" \/ <<"nic", nicOf[i]>> \in failed'
       /\ i \notin ips => i \notin ips'
       /\ i \notin disks => i \notin disks'
  /\ \A i \in VMs \ {k} : vm[i] = "none" =>
       /\ vm'[i] = "none"
       /\ ipOf[i] = Blank => ipOf'[i] = Blank
       /\ i \notin ips => i \notin ips'

Frame(p) ==
  UNCHANGED <<file[p], pc[p], name[p], flags[p], past[p], todo[p], found[p], log[p]>>

Others(p) == \A q \in Processes \ {p} : Frame(q)

LEMMA Bounds ==
  ASSUME CloudShape
  PROVE  /\ MaxVMs \in Nat /\ drawn \in Nat /\ drawn <= MaxVMs
         /\ VMs = 1..MaxVMs /\ Given = MaxVMs + 1 /\ Given \notin VMs /\ Blank \notin Names
         /\ \A i \in VMs : i \in Nat /\ i # Blank
         /\ \A i \in 1..drawn : i \in VMs
<1>1. MaxVMs \in Nat
  BY AzureAssumption
<1> QED
  BY <1>1 DEF CloudShape, VMs, Given, Names, Blank

\* A step that leaves Azure alone.
LEMMA SameCloud ==
  ASSUME CloudShape, CloudOK, UNCHANGED <<vm, nicOf, nic, ipOf, ips, disks, drawn, failed>>, NEW k
  PROVE  CloudShape' /\ CloudOK' /\ CloudStep(k)
<1>1. UNCHANGED <<vm, nicOf, nic, ipOf, ips, disks, drawn, failed>> /\ drawn \in Nat
  BY Bounds
<1> QED
  BY <1>1 DEF CloudShape, CloudOK, CloudStep, Exists

\* What a VM in the hands of a command has become of stays so.
LEMMA DealtKept ==
  ASSUME NEW k, CloudStep(k), NEW p, log[p] \subseteq log'[p], NEW i \in VMs, vm[i] # "none"
  PROVE  /\ NoVM(p, i) => NoVM(p, i)'
         /\ NoNIC(p, i) => NoNIC(p, i)'
         /\ NoIP(p, i) => NoIP(p, i)'
         /\ NoDisk(p, i) => NoDisk(p, i)'
         /\ Dealt(p, i) => Dealt(p, i)'
<1>1. /\ vm'[i] # "none" /\ nicOf'[i] = nicOf[i]
      /\ vm[i] = "gone" => vm'[i] = "gone"
      /\ nic[nicOf[i]] # "there" => nic'[nicOf[i]] # "there" \/ <<"nic", nicOf[i]>> \in failed'
      /\ i \notin ips => i \notin ips'
      /\ i \notin disks => i \notin disks'
      /\ failed \subseteq failed'
  BY DEF CloudStep
<1>2. /\ NoVM(p, i) => NoVM(p, i)'
      /\ NoNIC(p, i) => NoNIC(p, i)'
  BY <1>1 DEF NoVM, NoNIC
<1>3. /\ NoIP(p, i) => NoIP(p, i)'
      /\ NoDisk(p, i) => NoDisk(p, i)'
  BY <1>1 DEF NoIP, NoDisk
<1> QED
  BY <1>2, <1>3 DEF Dealt

LEMMA HeadAndTail ==
  ASSUME NEW S, NEW s \in Seq(S), s # <<>>
  PROVE  /\ Head(s) \in Elements(s) /\ Tail(s) \in Seq(S)
         /\ Elements(s) = {Head(s)} \cup Elements(Tail(s))
<1>1. /\ Len(s) \in Nat /\ Len(s) >= 1 /\ DOMAIN s = 1..Len(s) /\ Head(s) = s[1]
      /\ Tail(s) \in Seq(S) /\ Len(Tail(s)) = Len(s) - 1
      /\ \A i \in 1..(Len(s) - 1) : Tail(s)[i] = s[i + 1]
  OBVIOUS
<1>2. Elements(s) = {s[i] : i \in 1..Len(s)}
  BY ElementsOf
<1>3. Elements(Tail(s)) = {s[i + 1] : i \in 1..(Len(s) - 1)}
  <2>1. Elements(Tail(s)) = {Tail(s)[i] : i \in 1..(Len(s) - 1)}
    BY <1>1, ElementsOf
  <2> QED
    BY <1>1, <2>1
<1>4. \A i \in 1..Len(s) : i = 1 \/ (i - 1 \in 1..(Len(s) - 1) /\ i = (i - 1) + 1)
  BY <1>1
<1>5. \A i \in 1..(Len(s) - 1) : i + 1 \in 1..Len(s)
  BY <1>1
<1>6. 1 \in 1..Len(s)
  BY <1>1
<1>7. {Head(s)} \cup Elements(Tail(s)) \subseteq Elements(s)
  BY <1>1, <1>2, <1>3, <1>5, <1>6
<1>8. ASSUME NEW i \in 1..Len(s)
      PROVE  s[i] \in {Head(s)} \cup Elements(Tail(s))
  <2>1. CASE i = 1
    BY <1>1, <2>1
  <2>2. CASE i # 1
    <3> DEFINE j == i - 1
    <3>1. j \in 1..(Len(s) - 1) /\ i = j + 1
      BY <1>4, <2>2
    <3> HIDE DEF j
    <3> QED
      BY <1>3, <3>1
  <2> QED
    BY <2>1, <2>2
<1>9. Elements(s) \subseteq {Head(s)} \cup Elements(Tail(s))
  BY <1>2, <1>8
<1> QED
  BY <1>1, <1>2, <1>6, <1>7, <1>9

\* What a command is to destroy was created.
LEMMA TaskMade ==
  ASSUME CloudShape, ProcessShape, NEW p \in Processes, FileOK(file[p]), TaskOK(p)
  PROVE  /\ past[p] # NoFile => \A i \in InstancesIn(past[p]) : i \in VMs /\ vm[i] # "none"
         /\ \A i \in Elements(todo[p]) : i \in VMs /\ vm[i] # "none"
         /\ pc[p] \in Unmaking => /\ Head(todo[p]) \in VMs /\ vm[Head(todo[p])] # "none"
                                  /\ Tail(todo[p]) \in Seq(VMs)
                                  /\ Elements(todo[p]) = {Head(todo[p])} \cup Elements(Tail(todo[p]))
<1>1. past[p] # NoFile => \A i \in InstancesIn(past[p]) : i \in VMs /\ vm[i] # "none"
  BY DEF TaskOK, FileOK
<1>2. todo[p] \in Seq(VMs) /\ Elements(todo[p]) \subseteq VMs
  BY ElementsOf DEF ProcessShape
<1>3. ASSUME NEW i \in Elements(todo[p])
      PROVE  vm[i] # "none"
  <2>1. CASE past[p] # NoFile
    BY <1>1, <1>3, <2>1 DEF TaskOK
  <2>2. CASE past[p] = NoFile
    <3>1. todo[p] # <<>>
      <4>1. Elements(<<>>) = {}
        BY DEF Elements
      <4> QED
        BY <1>3, <4>1
    <3>2. todo[p] = <<name[p]>> /\ vm[name[p]] # "none"
      BY <2>2, <3>1 DEF TaskOK, Unmaking
    <3>3. i = name[p]
      BY <1>3, <3>2 DEF Elements
    <3> QED
      BY <3>2, <3>3
  <2> QED
    BY <2>1, <2>2
<1>4. ASSUME pc[p] \in Unmaking
      PROVE  /\ Head(todo[p]) \in Elements(todo[p])
             /\ Tail(todo[p]) \in Seq(VMs)
             /\ Elements(todo[p]) = {Head(todo[p])} \cup Elements(Tail(todo[p]))
  BY <1>2, <1>4, HeadAndTail DEF TaskOK
<1> QED
  BY <1>1, <1>2, <1>3, <1>4

\* A command that does not move keeps what it relies on, whatever Azure and the others do.
LEMMA ProcessKept ==
  ASSUME CloudShape, CloudShape', ProcessShape, NEW k, CloudStep(k),
         NEW p \in Processes, FileOK(file[p]), ProcessOK(p), Frame(p),
         name[p] # k \/ name[p] = Blank
  PROVE  FileOK(file[p])' /\ ProcessOK(p)'
<1>1. /\ file'[p] = file[p] /\ pc'[p] = pc[p] /\ name'[p] = name[p] /\ flags'[p] = flags[p]
      /\ past'[p] = past[p] /\ todo'[p] = todo[p] /\ found'[p] = found[p] /\ log'[p] = log[p]
  BY DEF Frame
<1>2. MakingOK(p) /\ TaskOK(p) /\ ProgressOK(p)
  BY DEF ProcessOK
<1>3. FileOK(file[p])'
  <2>1. ASSUME NEW i \in InstancesIn(file[p])
        PROVE  i \in VMs /\ vm'[i] # "none"
    BY <2>1 DEF FileOK, CloudStep
  <2> QED
    BY <1>1, <2>1 DEF FileOK
<1>4. name[p] # Blank => name[p] \in VMs
  BY <1>2, Bounds DEF MakingOK, Blank
<1>5. MakingOK(p)'
  <2>1. name[p] \in 0..drawn'
    <3>1. drawn \in Nat /\ drawn' \in Nat /\ drawn <= drawn' /\ name[p] \in 0..drawn
      BY <1>2, Bounds DEF MakingOK, CloudStep, CloudShape
    <3> QED
      BY <3>1
  <2>2. ASSUME pc[p] \in Making
        PROVE  /\ vm'[name[p]] = "none"
               /\ ipOf[name[p]] = Blank => ipOf'[name[p]] = Blank
               /\ name[p] \notin ips => name[p] \notin ips'
    <3>1. name[p] \in VMs \ {k} /\ vm[name[p]] = "none"
      BY <1>2, <1>4, <2>2 DEF MakingOK
    <3> QED
      BY <3>1 DEF CloudStep
  <2>3. ASSUME pc[p] \in Made
        PROVE  vm'[name[p]] # "none"
    BY <1>2, <1>4, <2>3 DEF MakingOK, CloudStep
  <2>4. {"get-rules", "put-rules", "create-ip", "create-nic", "create-vm"} = Making
    BY DEF Making
  <2> QED
    BY <1>1, <1>2, <2>1, <2>2, <2>3, <2>4 DEF MakingOK
<1>6. TaskOK(p)'
  <2>1. name[p] # Blank /\ vm[name[p]] # "none" => vm'[name[p]] # "none"
    BY <1>4 DEF CloudStep
  <2> QED
    BY <1>1, <1>2, <2>1 DEF TaskOK
<1>7. ProgressOK(p)'
  <2>1. /\ past[p] # NoFile => \A i \in InstancesIn(past[p]) : i \in VMs /\ vm[i] # "none"
        /\ pc[p] \in Unmaking => Head(todo[p]) \in VMs /\ vm[Head(todo[p])] # "none"
    BY <1>2, TaskMade
  <2>2. ASSUME past[p] # NoFile
        PROVE  \A i \in InstancesIn(past[p]) \ Elements(todo[p]) : Dealt(p, i)'
    BY <1>1, <1>2, <2>1, <2>2, DealtKept DEF ProgressOK
  <2>3. ASSUME pc[p] = "done"
        PROVE  Dealt(p, name[p])'
    <3>1. past[p] = NoFile
      BY <1>2, <2>3 DEF TaskOK, Unmaking, Forgetful
    <3>2. name[p] \in VMs /\ vm[name[p]] # "none"
      BY <1>2, <1>4, <2>3, <3>1 DEF TaskOK
    <3>3. Dealt(p, name[p])
      BY <1>2, <2>3 DEF ProgressOK
    <3>4. PICK j : j = name[p]
      OBVIOUS
    <3>5. Dealt(p, j)'
      BY <1>1, <3>2, <3>3, <3>4, DealtKept
    <3> QED
      BY <1>1, <3>4, <3>5
  <2>4. ASSUME pc[p] \in Unmaking, NEW i, i = Head(todo[p])
        PROVE  /\ found[p].nic \in {Blank, nicOf'[i]}
               /\ found[p].ip # Blank /\ nicOf'[i] = i => found[p].ip = i \/ i \notin ips'
               /\ pc[p] \notin {"delete-vm", "await-gone"} => NoVM(p, i)'
               /\ pc[p] \in {"delete-ip", "delete-disk"} => NoNIC(p, i)'
               /\ pc[p] = "delete-disk" => NoIP(p, i)'
    <3>1. i \in VMs /\ vm[i] # "none"
      BY <2>1, <2>4
    <3>2. nicOf'[i] = nicOf[i] /\ (i \notin ips => i \notin ips')
      BY <3>1 DEF CloudStep
    <3>3. /\ found[p].nic \in {Blank, nicOf[i]}
          /\ found[p].ip # Blank /\ nicOf[i] = i => found[p].ip = i \/ i \notin ips
          /\ pc[p] \notin {"delete-vm", "await-gone"} => NoVM(p, i)
          /\ pc[p] \in {"delete-ip", "delete-disk"} => NoNIC(p, i)
          /\ pc[p] = "delete-disk" => NoIP(p, i)
      BY <1>2, <2>4 DEF ProgressOK
    <3>4. /\ NoVM(p, i) => NoVM(p, i)'
          /\ NoNIC(p, i) => NoNIC(p, i)'
          /\ NoIP(p, i) => NoIP(p, i)'
      BY <1>1, <3>1, DealtKept
    <3> QED
      BY <3>2, <3>3, <3>4
  <2> QED
    BY <1>1, <2>2, <2>3, <2>4 DEF ProgressOK
<1> QED
  BY <1>3, <1>5, <1>6, <1>7 DEF ProcessOK

\* A step of p needs to be looked at for Azure and for p.
LEMMA StepOf ==
  ASSUME Inv, CloudShape', CloudOK', NEW p \in Processes, CloudStep(name[p]),
         ProcessShape', Others(p), name'[p] \in {name[p], Blank},
         FileOK(file[p])', ProcessOK(p)'
  PROVE  Inv'
<1>1. ASSUME NEW q \in Processes \ {p}
      PROVE  FileOK(file[q])' /\ ProcessOK(q)'
  <2>1. Frame(q) /\ (name[q] # name[p] \/ name[q] = Blank)
    BY <1>1 DEF Inv, NamesOK, Others
  <2> QED
    BY <1>1, <2>1, ProcessKept DEF Inv
<1>2. NamesOK'
  <2>1. \A q \in Processes \ {p} : name'[q] = name[q]
    BY DEF Others, Frame
  <2> QED
    BY <2>1 DEF Inv, NamesOK
<1> QED
  BY <1>1, <1>2 DEF Inv

\* The same, when Azure is not changed.
LEMMA LocalStepOf ==
  ASSUME Inv, UNCHANGED <<vm, nicOf, nic, ipOf, ips, disks, drawn, failed>>, NEW p \in Processes,
         ProcessShape', Others(p), name'[p] \in {name[p], Blank},
         FileOK(file[p])', ProcessOK(p)'
  PROVE  Inv'
BY SameCloud, StepOf DEF Inv

LEMMA SameFile ==
  ASSUME Inv, NEW k, CloudStep(k), NEW p \in Processes, file'[p] = file[p]
  PROVE  FileOK(file[p])'
BY DEF Inv, FileOK, CloudStep

\* The end of a command.
LEMMA Exits ==
  ASSUME ProcessShape, CloudShape', NEW p \in Processes, NEW result, Exit(p, result),
         file' \in [Processes -> Contents \cup {Absent, Unparsable}],
         \A q \in Processes \ {p} : file'[q] = file[q]
  PROVE  ProcessShape' /\ Others(p) /\ name'[p] = Blank /\ ProcessOK(p)'
<1>1. /\ pc' = [pc EXCEPT ![p] = "idle"] /\ name' = [name EXCEPT ![p] = Blank]
      /\ flags' = [flags EXCEPT ![p] = {}] /\ past' = [past EXCEPT ![p] = NoFile]
      /\ todo' = [todo EXCEPT ![p] = <<>>] /\ found' = [found EXCEPT ![p] = Nothing]
      /\ log' = [log EXCEPT ![p] = {}]
  BY DEF Exit, GoTo
<1>2. ProcessShape'
  <2>1. pc' \in [Processes -> Labels] /\ name' \in [Processes -> Nat]
    BY <1>1 DEF ProcessShape, Labels, Blank
  <2>2. flags' \in [Processes -> SUBSET {"nic", "ip"}]
    BY <1>1 DEF ProcessShape
  <2>3. past' \in [Processes -> Contents \cup {Absent, NoFile}]
    BY <1>1 DEF ProcessShape
  <2>4. todo' \in [Processes -> Seq(VMs)]
    <3>1. <<>> \in Seq(VMs)
      OBVIOUS
    <3> QED
      BY <1>1, <3>1 DEF ProcessShape
  <2>5. found' \in [Processes -> [vm : BOOLEAN, nic : Nat, ip : Nat]]
    <3>1. Nothing \in [vm : BOOLEAN, nic : Nat, ip : Nat]
      BY DEF Nothing, Blank
    <3> QED
      BY <1>1, <3>1 DEF ProcessShape
  <2>6. log' \in [Processes -> SUBSET (VMs \X {"vm", "detach", "nic", "ip", "disk"})]
    BY <1>1 DEF ProcessShape
  <2> QED
    BY <2>1, <2>2, <2>3, <2>4, <2>5, <2>6 DEF ProcessShape
<1>3. Others(p)
  BY <1>1 DEF ProcessShape, Others, Frame
<1>4. /\ pc'[p] = "idle" /\ name'[p] = Blank /\ todo'[p] = <<>> /\ past'[p] = NoFile
      /\ log'[p] = {}
  BY <1>1 DEF ProcessShape
<1>5. drawn' \in Nat
  BY Bounds DEF CloudShape
<1>6. MakingOK(p)'
  BY <1>4, <1>5 DEF MakingOK, Making, Made, Blank
<1>7. TaskOK(p)'
  BY <1>4 DEF TaskOK, Unmaking, Forgetful
<1>8. ProgressOK(p)'
  BY <1>4 DEF ProgressOK, Unmaking
<1> QED
  BY <1>2, <1>3, <1>4, <1>6, <1>7, <1>8 DEF ProcessOK

LEMMA ExitStep ==
  ASSUME Inv, UNCHANGED <<vm, nicOf, nic, ipOf, ips, disks, file, drawn, failed>>,
         NEW p \in Processes, NEW result, Exit(p, result)
  PROVE  Inv'
<1>1. CloudShape' /\ CloudStep(Blank)
  BY SameCloud DEF Inv
<1>2. FileOK(file[p])'
  BY <1>1, SameFile
<1>3. ProcessShape' /\ Others(p) /\ name'[p] = Blank /\ ProcessOK(p)'
  BY <1>1, Exits DEF Inv, ProcessShape
<1> QED
  BY <1>2, <1>3, LocalStepOf

-----------------------------------------------------------------------------
(* The steps of create *)

\* The name drawn is nobody's yet.
LEMMA CreateWindowsVMStep ==
  ASSUME Inv, NEW p \in Processes, CreateWindowsVM(p)
  PROVE  Inv'
<1>1. PICK given \in Flags :
        /\ pc[p] = "idle" /\ drawn < MaxVMs /\ drawn' = drawn + 1
        /\ name' = [name EXCEPT ![p] = drawn + 1]
        /\ flags' = [flags EXCEPT ![p] = given]
        /\ pc' = [pc EXCEPT ![p] = "get-rules"]
        /\ UNCHANGED <<past, todo, found, log, file>>
  BY DEF CreateWindowsVM, GoTo
<1>2. UNCHANGED <<vm, nicOf, nic, ipOf, ips, disks, failed>>
  BY DEF CreateWindowsVM, cloud
<1>3. /\ CloudShape /\ ProcessShape /\ CloudOK /\ ProcessOK(p) /\ drawn \in Nat
      /\ MaxVMs \in Nat /\ \A i \in 1..drawn : i \in VMs
      /\ drawn + 1 \in VMs
  <2>1. CloudShape /\ ProcessShape /\ CloudOK /\ ProcessOK(p)
    BY DEF Inv
  <2> QED
    BY <1>1, <2>1, Bounds
<1>4. /\ vm[drawn + 1] = "none" /\ ipOf[drawn + 1] = Blank /\ drawn + 1 \notin ips
  BY <1>3 DEF CloudOK
<1>5. CloudShape'
  <2>1. disks \subseteq 1..(drawn + 1) /\ drawn + 1 \in 0..MaxVMs
    BY <1>1, <1>3 DEF CloudShape
  <2>2. disks' \subseteq 1..drawn' /\ drawn' \in 0..MaxVMs
    BY <1>1, <1>2, <2>1
  <2>3. /\ vm' \in [VMs -> VMStates] /\ nicOf' \in [VMs -> Names \cup {Blank}]
        /\ nic' \in [Names -> NICStates] /\ ipOf' \in [Names -> Names \cup {Blank}]
        /\ ips' \subseteq Names
    BY <1>2, <1>3 DEF CloudShape
  <2> QED
    BY <2>2, <2>3 DEF CloudShape
<1>6. CloudOK'
  <2>1. \A i \in VMs : /\ i <= drawn => i <= drawn'
                       /\ i > drawn' => i > drawn
    BY <1>1, <1>3, Bounds
  <2> QED
    BY <1>2, <1>3, <2>1 DEF CloudOK, Exists
<1>7. CloudStep(Blank)
  BY <1>1, <1>2, <1>3 DEF CloudStep
<1>8. ProcessShape'
  BY <1>1, <1>3, AzureAssumption DEF ProcessShape, Labels, Making
<1>9. Others(p)
  BY <1>1, <1>3 DEF ProcessShape, Others, Frame
<1>10. /\ pc'[p] = "get-rules" /\ name'[p] = drawn + 1
       /\ UNCHANGED <<past[p], todo[p], found[p], log[p], file[p]>>
  BY <1>1, <1>3 DEF ProcessShape
<1>11. MakingOK(p)'
  BY <1>1, <1>2, <1>3, <1>4, <1>10 DEF MakingOK, Made, Blank
<1>12. past[p] = NoFile /\ todo[p] = <<>>
  BY <1>1, <1>3 DEF ProcessOK, TaskOK, Unmaking, Forgetful
<1>13. TaskOK(p)'
  BY <1>10, <1>12 DEF TaskOK, Unmaking, Forgetful
<1>14. ProgressOK(p)'
  BY <1>10, <1>12 DEF ProgressOK, Unmaking
<1>15. ASSUME NEW q \in Processes \ {p}
       PROVE  FileOK(file[q])' /\ ProcessOK(q)' /\ name'[q] = name[q] /\ name'[q] # drawn + 1
  <2>1. Frame(q) /\ FileOK(file[q]) /\ ProcessOK(q)
    BY <1>9, <1>15 DEF Others, Inv
  <2>2. name[q] \in 0..drawn
    BY <2>1 DEF ProcessOK, MakingOK
  <2>3. FileOK(file[q])' /\ ProcessOK(q)'
    BY <1>3, <1>5, <1>7, <1>15, <2>1, ProcessKept
  <2> QED
    BY <1>3, <2>1, <2>2, <2>3 DEF Frame
<1>16. NamesOK'
  BY <1>10, <1>15 DEF NamesOK, Inv
<1>17. FileOK(file[p])'
  BY <1>7, <1>10, SameFile
<1> QED
  BY <1>5, <1>6, <1>8, <1>11, <1>13, <1>14, <1>15, <1>16, <1>17 DEF Inv, ProcessOK

\* A command that goes on with what it has, before or after it has made the VM.
LEMMA GoesOn ==
  ASSUME Inv, CloudShape', CloudOK', NEW p \in Processes, CloudStep(name[p]),
         NEW label, GoTo(p, label),
         \/ pc[p] \in Making /\ label \in Making
         \/ pc[p] \in Making \cup Made /\ label \in Made,
         UNCHANGED <<name, flags, past, todo, found, log>>,
         file' \in [Processes -> Contents \cup {Absent, Unparsable}],
         \A q \in Processes \ {p} : file'[q] = file[q], FileOK(file[p])',
         MakingOK(p)'
  PROVE  Inv'
<1>1. ProcessShape /\ ProcessOK(p)
  BY DEF Inv
<1>2. /\ pc[p] \notin {"look-up", "done"} \cup Unmaking \cup Forgetful
      /\ label \notin {"look-up", "done"} \cup Unmaking \cup Forgetful
      /\ label \in Labels
  BY DEF Making, Made, Unmaking, Forgetful, Labels
<1>3. ProcessShape'
  BY <1>1, <1>2 DEF ProcessShape, GoTo
<1>4. Others(p)
  BY <1>1 DEF ProcessShape, GoTo, Others, Frame
<1>5. pc'[p] = label /\ UNCHANGED <<name[p], past[p], todo[p]>>
  BY <1>1 DEF ProcessShape, GoTo
<1>6. past[p] = NoFile /\ todo[p] = <<>>
  BY <1>1, <1>2 DEF ProcessOK, TaskOK
<1>7. TaskOK(p)'
  BY <1>2, <1>5, <1>6 DEF TaskOK
<1>8. ProgressOK(p)'
  BY <1>2, <1>5, <1>6 DEF ProgressOK
<1> QED
  BY <1>3, <1>4, <1>5, <1>7, <1>8, StepOf DEF ProcessOK

\* The same, when neither Azure nor the file is changed.
LEMMA LocallyGoesOn ==
  ASSUME Inv, UNCHANGED <<vm, nicOf, nic, ipOf, ips, disks, drawn, failed>>,
         NEW p \in Processes, NEW label, GoTo(p, label),
         \/ pc[p] \in {"get-rules", "put-rules"} /\ label \in {"put-rules", "create-ip"}
         \/ pc[p] \in Made /\ label \in Made,
         UNCHANGED <<name, flags, past, todo, found, log>>,
         file' \in [Processes -> Contents \cup {Absent, Unparsable}],
         \A q \in Processes \ {p} : file'[q] = file[q],
         FileOK(file[p])' \/ file'[p] = file[p]
  PROVE  Inv'
<1>1. ProcessShape /\ ProcessOK(p)
  BY DEF Inv
<1>2. CloudShape' /\ CloudOK' /\ CloudStep(name[p])
  BY SameCloud DEF Inv
<1>3. FileOK(file[p])'
  BY <1>2, SameFile
<1>4. pc'[p] = label
  BY <1>1 DEF ProcessShape, GoTo
<1>5. label # "idle"
  BY DEF Made
<1>6. MakingOK(p)'
  <2>1. CASE pc[p] \in {"get-rules", "put-rules"} /\ label \in {"put-rules", "create-ip"}
    BY <1>1, <1>4, <2>1 DEF ProcessOK, MakingOK, Making, Made
  <2>2. CASE pc[p] \in Made /\ label \in Made
    BY <1>1, <1>4, <2>2 DEF ProcessOK, MakingOK, Making, Made
  <2> QED
    BY <2>1, <2>2
<1>7. \/ pc[p] \in Making /\ label \in Making
      \/ pc[p] \in Making \cup Made /\ label \in Made
  BY DEF Making
<1> QED
  BY <1>2, <1>3, <1>6, <1>7, GoesOn

LEMMA GetRulesStep ==
  ASSUME Inv, NEW p \in Processes, GetRules(p)
  PROVE  Inv'
<1>1. /\ pc[p] = "get-rules" /\ GoTo(p, "put-rules")
      /\ UNCHANGED <<vm, nicOf, nic, ipOf, ips, disks, drawn, failed>>
      /\ UNCHANGED <<name, flags, past, todo, found, log>> /\ file' = file
  BY DEF GetRules, cloud
<1> QED
  BY <1>1, LocallyGoesOn DEF Inv, ProcessShape

LEMMA PutRuleStep ==
  ASSUME Inv, NEW p \in Processes, PutRule(p)
  PROVE  Inv'
<1>1. /\ pc[p] = "put-rules" /\ (pc' = pc \/ GoTo(p, "create-ip"))
      /\ UNCHANGED <<vm, nicOf, nic, ipOf, ips, disks, drawn, failed>>
      /\ UNCHANGED <<name, flags, past, todo, found, log>> /\ file' = file
  BY DEF PutRule
<1>2. pc' = pc => GoTo(p, "put-rules")
  BY <1>1 DEF Inv, ProcessShape, GoTo
<1> QED
  BY <1>1, <1>2, LocallyGoesOn DEF Inv, ProcessShape

\* What a command may say of the VM that it is making.
LEMMA Maker ==
  ASSUME Inv, NEW p \in Processes, pc[p] \in Making
  PROVE  /\ name[p] \in VMs /\ name[p] # Given /\ name[p] <= drawn /\ vm[name[p]] = "none"
         /\ NicName(p) \in Names /\ IpName(p) \in Names
         /\ NicName(p) \in {name[p], Given} /\ IpName(p) \in {name[p], Given}
         /\ \A i \in VMs : vm[i] # "none" => i # name[p] /\ nicOf[i] # name[p]
         /\ \A i \in VMs : i > drawn => i # name[p]
<1>1. CloudShape /\ CloudOK /\ MakingOK(p)
  BY DEF Inv, ProcessOK
<1>2. name[p] \in 1..drawn /\ name[p] \in VMs /\ vm[name[p]] = "none" /\ name[p] # Given
  BY <1>1, Bounds DEF MakingOK, Blank
<1>3. NicName(p) \in {name[p], Given} /\ IpName(p) \in {name[p], Given}
  BY DEF NicName, IpName
<1>4. name[p] \in Names /\ Given \in Names
  BY <1>2 DEF Names
<1>5. \A i \in VMs : vm[i] # "none" => i # name[p] /\ nicOf[i] # name[p]
  BY <1>1, <1>2 DEF CloudOK
<1>6. \A i \in VMs : i > drawn => i # name[p]
  BY <1>1, <1>2, Bounds
<1> QED
  BY <1>1, <1>2, <1>3, <1>4, <1>5, <1>6, Bounds

\* The address of the VM's name is attached to nothing yet.
LEMMA CreatePublicIPStep ==
  ASSUME Inv, NEW p \in Processes, CreatePublicIP(p)
  PROVE  Inv'
<1>1. /\ pc[p] = "create-ip" /\ GoTo(p, "create-nic")
      /\ UNCHANGED <<vm, nicOf, nic, ipOf, disks, drawn, failed>>
      /\ UNCHANGED <<name, flags, past, todo, found, log>> /\ file' = file
      /\ IF "ip" \in flags[p] THEN ips' = ips ELSE ips' = ips \cup {name[p]}
  BY DEF CreatePublicIP, local, IpName
<1>2. /\ CloudShape /\ CloudOK /\ ProcessShape /\ MakingOK(p)
  BY DEF Inv, ProcessOK
<1>3. pc[p] \in Making
  BY <1>1 DEF Making
<1>4. ipOf[name[p]] = Blank
  BY <1>1, <1>2 DEF MakingOK
<1>5. CloudShape'
  BY <1>1, <1>2, <1>3, Maker DEF CloudShape, Names
<1>6. CloudOK'
  BY <1>1, <1>2, <1>3, <1>4, Maker DEF CloudOK, Exists
<1>7. CloudStep(name[p])
  BY <1>1, <1>2, <1>3, Maker, Bounds DEF CloudStep
<1>8. pc'[p] = "create-nic" /\ name'[p] = name[p] /\ flags'[p] = flags[p] /\ vm' = vm /\ drawn' = drawn
  BY <1>1, <1>2 DEF ProcessShape, GoTo
<1>9. MakingOK(p)'
  BY <1>1, <1>2, <1>8 DEF MakingOK, Making, Made
<1>10. FileOK(file[p])'
  BY <1>1, <1>7, SameFile
<1>11. "create-nic" \in Making
  BY DEF Making
<1> QED
  BY <1>1, <1>2, <1>3, <1>5, <1>6, <1>7, <1>9, <1>10, <1>11, GoesOn DEF ProcessShape

\* The NIC of the VM's name, with the address, if that exists.
LEMMA CreateNICStep ==
  ASSUME Inv, NEW p \in Processes, CreateNIC(p)
  PROVE  Inv'
<1>1. /\ pc[p] = "create-nic"
      /\ UNCHANGED <<vm, nicOf, ips, disks, drawn, failed>> /\ file' = file
  BY DEF CreateNIC
<1>2. \/ /\ GoTo(p, "create-vm") /\ UNCHANGED <<name, flags, past, todo, found, log>>
         /\ IF "nic" \in flags[p] THEN UNCHANGED <<nic, ipOf>>
            ELSE /\ nic' = [nic EXCEPT ![name[p]] = "there"]
                 /\ ipOf' = [ipOf EXCEPT ![name[p]] = IpName(p)]
      \/ Exit(p, "error") /\ UNCHANGED <<nic, ipOf>>
  BY DEF CreateNIC, local, NicName
<1>3. CASE Exit(p, "error") /\ UNCHANGED <<nic, ipOf>>
  BY <1>1, <1>3, ExitStep
<1>4. CASE /\ GoTo(p, "create-vm") /\ UNCHANGED <<name, flags, past, todo, found, log>>
           /\ IF "nic" \in flags[p] THEN UNCHANGED <<nic, ipOf>>
              ELSE /\ nic' = [nic EXCEPT ![name[p]] = "there"]
                   /\ ipOf' = [ipOf EXCEPT ![name[p]] = IpName(p)]
  <2>1. CloudShape /\ CloudOK /\ ProcessShape /\ MakingOK(p)
    BY DEF Inv, ProcessOK
  <2>2. pc[p] \in Making /\ "create-vm" \in Making
    BY <1>1 DEF Making
  <2>3. IpName(p) = name[p] \/ name[p] \notin ips
    BY <1>1, <2>1 DEF MakingOK, IpName
  <2>4. CloudShape'
    BY <1>1, <1>4, <2>1, <2>2, Maker DEF CloudShape, NICStates
  <2>5. CloudOK'
    <3>1. \A n \in Names : nic[n] = "there" => nic'[n] = "there"
      BY <1>4, <2>1 DEF CloudShape
    <3>2. \A n \in VMs : ipOf'[n] = ipOf[n] \/ (n = name[p] /\ ipOf'[n] = IpName(p))
      BY <1>4, <2>1 DEF CloudShape, Names
    <3>3. \A i \in VMs : Exists(i) => nicOf[i] \in Names
      BY <2>1 DEF CloudOK, Exists, Names
    <3>4. \A i \in VMs : Exists(i) =>
            /\ i \in disks /\ nic'[nicOf[i]] = "there"
            /\ \A j \in VMs \ {i} : Exists(j) => nicOf[j] # nicOf[i]
      BY <2>1, <3>1, <3>3 DEF CloudOK
    <3>5. \A n \in VMs : ipOf'[n] \in {Blank, n} \/ n \notin ips
      BY <2>1, <2>3, <3>2 DEF CloudOK
    <3>6. \A n \in VMs : n > drawn => ipOf'[n] = Blank /\ n \notin ips
      BY <2>1, <2>2, <3>2, Maker DEF CloudOK
    <3>7. \A i \in VMs : vm[i] # "none" => i <= drawn /\ nicOf[i] \in {i, Given}
      BY <2>1 DEF CloudOK
    <3>8. \A i \in VMs : Exists(i)' <=> Exists(i)
      BY <1>1 DEF Exists
    <3> QED
      BY <1>1, <3>4, <3>5, <3>6, <3>7, <3>8 DEF CloudOK
  <2>6. CloudStep(name[p])
    <3>1. \A n \in Names : n # name[p] => nic'[n] = nic[n] /\ ipOf'[n] = ipOf[n]
      BY <1>4, <2>1 DEF CloudShape
    <3>2. \A i \in VMs : vm[i] # "none" => nicOf[i] # name[p] /\ nicOf[i] \in Names
      BY <2>1, <2>2, Maker DEF CloudOK, Names
    <3>3. drawn <= drawn' /\ \A i \in VMs : i \in Names
      BY <1>1, <2>1, Bounds DEF Names
    <3> QED
      BY <1>1, <3>1, <3>2, <3>3 DEF CloudStep
  <2>7. pc'[p] = "create-vm" /\ name'[p] = name[p] /\ flags'[p] = flags[p]
    BY <1>4, <2>1 DEF ProcessShape, GoTo
  <2>8. MakingOK(p)'
    BY <1>1, <2>1, <2>7 DEF MakingOK, Making, Made
  <2>9. FileOK(file[p])'
    BY <1>1, <2>6, SameFile
  <2> QED
    BY <1>1, <1>4, <2>1, <2>2, <2>4, <2>5, <2>6, <2>8, <2>9, GoesOn DEF ProcessShape
<1> QED
  BY <1>2, <1>3, <1>4

\* The VM takes a NIC that is there and that no other VM has.
LEMMA CreateVMStep ==
  ASSUME Inv, NEW p \in Processes, CreateVM(p)
  PROVE  Inv'
<1>1. /\ pc[p] = "create-vm"
      /\ UNCHANGED <<nic, ipOf, ips, drawn, failed>> /\ file' = file
  BY DEF CreateVM
<1>2. CASE nic[NicName(p)] # "there" \/ NICInUse(NicName(p))
  <2>1. Exit(p, "error") /\ UNCHANGED <<vm, nicOf, disks>>
    BY <1>2 DEF CreateVM
  <2> QED
    BY <1>1, <2>1, ExitStep
<1>3. CASE nic[NicName(p)] = "there" /\ ~NICInUse(NicName(p))
  <2>1. /\ vm' = [vm EXCEPT ![name[p]] = "creating"]
        /\ nicOf' = [nicOf EXCEPT ![name[p]] = NicName(p)]
        /\ disks' = disks \cup {name[p]}
        /\ GoTo(p, "await-vm") /\ UNCHANGED <<name, flags, past, todo, found, log>>
    BY <1>3 DEF CreateVM, local
  <2>2. CloudShape /\ CloudOK /\ ProcessShape /\ MakingOK(p)
    BY DEF Inv, ProcessOK
  <2>3. pc[p] \in Making /\ "await-vm" \in Made
    BY <1>1 DEF Making, Made
  <2>4. /\ vm'[name[p]] = "creating" /\ nicOf'[name[p]] = NicName(p)
        /\ \A i \in VMs \ {name[p]} : vm'[i] = vm[i] /\ nicOf'[i] = nicOf[i]
    BY <2>1, <2>2, <2>3, Maker DEF CloudShape
  <2>5. CloudShape'
    <3>1. name[p] \in 1..drawn
      BY <2>2, <2>3, Maker, Bounds
    <3>2. vm' \in [VMs -> VMStates] /\ nicOf' \in [VMs -> Names \cup {Blank}]
      BY <2>1, <2>2, <2>3, Maker DEF CloudShape, VMStates
    <3> QED
      BY <1>1, <2>1, <2>2, <3>1, <3>2 DEF CloudShape
  <2>6. CloudOK'
    <3>1. \A i \in VMs : Exists(i)' <=> i = name[p] \/ Exists(i)
      BY <2>3, <2>4, Maker DEF Exists
    <3>2. \A i \in VMs \ {name[p]} : Exists(i) => nicOf[i] # NicName(p)
      BY <1>3 DEF NICInUse
    <3>3. \A i \in VMs : vm'[i] # "none" => i <= drawn /\ nicOf'[i] \in {i, Given}
      BY <2>2, <2>3, <2>4, Maker DEF CloudOK
    <3>4. \A i \in VMs : Exists(i)' =>
            /\ i \in disks' /\ nic[nicOf'[i]] = "there"
            /\ \A j \in VMs \ {i} : Exists(j)' => nicOf'[j] # nicOf'[i]
      BY <1>3, <2>1, <2>2, <2>4, <3>1, <3>2 DEF CloudOK
    <3>5. /\ \A n \in VMs : ipOf[n] \in {Blank, n} \/ n \notin ips
          /\ \A n \in VMs : n > drawn => ipOf[n] = Blank /\ n \notin ips
      BY <2>2 DEF CloudOK
    <3> QED
      BY <1>1, <3>3, <3>4, <3>5 DEF CloudOK
  <2>7. CloudStep(name[p])
    <3>1. \A i \in VMs : vm[i] # "none" => i # name[p]
      BY <2>3, Maker
    <3>2. drawn <= drawn'
      BY <1>1, <2>2, Bounds
    <3> QED
      BY <1>1, <2>1, <2>4, <3>1, <3>2 DEF CloudStep
  <2>8. pc'[p] = "await-vm" /\ name'[p] = name[p]
    BY <2>1, <2>2 DEF ProcessShape, GoTo
  <2>9. MakingOK(p)'
    BY <1>1, <2>2, <2>3, <2>4, <2>8, Maker DEF MakingOK, Making, Made
  <2>10. FileOK(file[p])'
    BY <1>1, <2>7, SameFile
  <2> QED
    BY <1>1, <2>1, <2>2, <2>3, <2>5, <2>6, <2>7, <2>9, <2>10, GoesOn DEF ProcessShape
<1> QED
  BY <1>2, <1>3

LEMMA AwaitVMStep ==
  ASSUME Inv, NEW p \in Processes, AwaitVM(p)
  PROVE  Inv'
<1>1. /\ pc[p] \in Made /\ GoTo(p, "record") /\ "record" \in Made
      /\ UNCHANGED <<vm, nicOf, nic, ipOf, ips, disks, drawn, failed>>
      /\ UNCHANGED <<name, flags, past, todo, found, log>> /\ file' = file
  BY DEF AwaitVM, cloud, local, Made
<1> QED
  BY <1>1, LocallyGoesOn DEF Inv, ProcessShape

\* A file that is left unparsable names nothing.
LEMMA UnparsableOK ==
  FileOK(Unparsable)
BY AbsentIsEmpty DEF FileOK, Proper

\* AppendInstallerInfo leaves a file in order, whatever it was able to read.
LEMMA RecordStep ==
  ASSUME Inv, NEW p \in Processes, Record(p)
  PROVE  Inv'
<1> DEFINE ids == <<name[p]>>
           sgs == <<NSG>>
           result(list) == Appended(list, ids, sgs)
<1>1. /\ pc[p] = "record" /\ GoTo(p, "connect")
      /\ UNCHANGED <<vm, nicOf, nic, ipOf, ips, disks, drawn, failed>>
      /\ UNCHANGED <<name, flags, past, todo, found, log>>
      /\ \/ file' = file
         \/ file' = [file EXCEPT ![p] = Unparsable]
         \/ \E list \in {file[p], Unparsable} :
              result(list).ok /\ file' = [file EXCEPT ![p] = result(list).file]
  BY DEF Record, StopWriting, cloud, local
<1>2. pc[p] \in Made /\ "connect" \in Made
  BY <1>1 DEF Made
<1>3. /\ ProcessShape /\ MakingOK(p) /\ FileOK(file[p])
      /\ \A i \in 1..drawn : i \in VMs
      /\ drawn \in Nat
  BY Bounds DEF Inv, ProcessOK, FileOK
<1>4. name[p] \in Nat /\ name[p] # Blank /\ name[p] \in VMs /\ vm[name[p]] # "none"
  BY <1>2, <1>3 DEF MakingOK, Blank
<1>5. NSG \in Nat /\ NSG # Blank
  BY DEF NSG, Blank
<1>6. /\ ids \in Seq(Nat \ {Blank}) /\ Ascending(ids) /\ Elements(ids) = {name[p]}
      /\ sgs \in Seq(Nat \ {Blank}) /\ Ascending(sgs) /\ Elements(sgs) = {NSG}
  BY <1>4, <1>5, JustOne
<1> HIDE DEF ids, sgs
<1>7. ASSUME NEW list, FileOK(list), result(list).ok
      PROVE  FileOK(result(list).file)
  <2>1. LET granted == /\ Elements(ids) \cap InstancesIn(list) = {}
                       /\ Elements(sgs) \cap GroupsIn(list) = {}
        IN  /\ granted => /\ result(list).ok = TRUE
                          /\ Proper(result(list).file)
                          /\ result(list).file # Absent
                          /\ InstancesIn(result(list).file) = InstancesIn(list) \cup Elements(ids)
                          /\ GroupsIn(result(list).file) = GroupsIn(list) \cup Elements(sgs)
            /\ ~granted => result(list).ok = FALSE
    BY <1>6, <1>7, AppendedEffect DEF FileOK
  <2> HIDE DEF result
  <2>2. /\ Proper(result(list).file)
        /\ InstancesIn(result(list).file) = InstancesIn(list) \cup {name[p]}
        /\ GroupsIn(result(list).file) = GroupsIn(list) \cup {NSG}
    BY <1>6, <1>7, <2>1
  <2> QED
    BY <1>4, <1>7, <2>2 DEF FileOK
<1> HIDE DEF result
<1>8. ASSUME NEW list, FileOK(list), file' = [file EXCEPT ![p] = list]
      PROVE  Inv'
  <2>1. list \in Contents \cup {Absent, Unparsable}
    BY <1>8 DEF FileOK, Proper
  <2>2. file' \in [Processes -> Contents \cup {Absent, Unparsable}] /\ file'[p] = list
        /\ \A q \in Processes \ {p} : file'[q] = file[q]
    BY <1>3, <1>8, <2>1 DEF ProcessShape
  <2>3. FileOK(file[p])'
    BY <1>1, <1>8, <2>2 DEF FileOK
  <2> QED
    BY <1>1, <1>2, <2>2, <2>3, LocallyGoesOn
<1>9. CASE file' = file
  BY <1>1, <1>2, <1>3, <1>9, LocallyGoesOn DEF ProcessShape
<1> QED
  BY <1>1, <1>3, <1>7, <1>8, <1>9, UnparsableOK

LEMMA ConnectStep ==
  ASSUME Inv, NEW p \in Processes, Connect(p)
  PROVE  Inv'
<1>1. /\ pc[p] \in Made /\ "created" \in Made
      /\ UNCHANGED <<vm, nicOf, nic, ipOf, ips, disks, drawn, failed>> /\ file' = file
      /\ \/ GoTo(p, "created") /\ UNCHANGED <<name, flags, past, todo, found, log>>
         \/ Exit(p, "error")
  BY DEF Connect, cloud, local, Made
<1> QED
  BY <1>1, LocallyGoesOn, ExitStep DEF Inv, ProcessShape

LEMMA ReportStep ==
  ASSUME Inv, NEW p \in Processes, Report(p)
  PROVE  Inv'
<1>1. /\ UNCHANGED <<vm, nicOf, nic, ipOf, ips, disks, file, drawn, failed>>
      /\ Exit(p, "created")
  BY DEF Report, cloud
<1> QED
  BY <1>1, ExitStep

-----------------------------------------------------------------------------
(* The steps of destroy *)

LEMMA DestroyOwnVMStep ==
  ASSUME Inv, NEW p \in Processes, DestroyOwnVM(p)
  PROVE  Inv'
<1>1. /\ pc[p] = "created" /\ pc' = [pc EXCEPT ![p] = "look-up"]
      /\ todo' = [todo EXCEPT ![p] = <<name[p]>>]
      /\ UNCHANGED <<vm, nicOf, nic, ipOf, ips, disks, file, drawn, failed>>
      /\ UNCHANGED <<name, flags, past, found, log>>
  BY DEF DestroyOwnVM, GoTo, cloud
<1>2. /\ CloudShape /\ CloudOK /\ ProcessShape /\ MakingOK(p) /\ TaskOK(p)
      /\ \A i \in 1..drawn : i \in VMs
  BY Bounds DEF Inv, ProcessOK
<1>3. name[p] \in 0..drawn /\ name[p] # Blank /\ name[p] \in VMs /\ vm[name[p]] # "none"
  <2>1. pc[p] \in Made
    BY <1>1 DEF Made
  <2>2. name[p] \in 0..drawn /\ name[p] # Blank /\ vm[name[p]] # "none" /\ drawn \in Nat
    BY <1>2, <2>1, Bounds DEF MakingOK
  <2> QED
    BY <1>2, <2>2 DEF Blank
<1>4. past[p] = NoFile
  BY <1>1, <1>2 DEF TaskOK, Unmaking, Forgetful
<1>5. ProcessShape'
  <2>1. <<name[p]>> \in Seq(VMs)
    BY <1>3
  <2> QED
    BY <1>1, <1>2, <2>1 DEF ProcessShape, Labels
<1>6. Others(p)
  BY <1>1, <1>2 DEF ProcessShape, Others, Frame
<1>7. pc'[p] = "look-up" /\ todo'[p] = <<name[p]>> /\ name'[p] = name[p] /\ past'[p] = NoFile
      /\ vm' = vm /\ drawn' = drawn
  BY <1>1, <1>2, <1>4 DEF ProcessShape
<1>8. MakingOK(p)'
  BY <1>3, <1>7 DEF MakingOK, Making, Made
<1>9. TaskOK(p)'
  BY <1>3, <1>7 DEF TaskOK, Unmaking, Forgetful
<1>10. ProgressOK(p)'
  BY <1>7 DEF ProgressOK, Unmaking
<1>11. FileOK(file[p])'
  BY <1>1, <1>2, SameCloud, SameFile
<1> QED
  BY <1>1, <1>5, <1>6, <1>7, <1>8, <1>9, <1>10, <1>11, LocalStepOf DEF ProcessOK

\* All that the file names is still to be destroyed.
LEMMA DestroyWindowsVMsStep ==
  ASSUME Inv, NEW p \in Processes, DestroyWindowsVMs(p)
  PROVE  Inv'
<1> DEFINE list == file[p]
<1>1. /\ pc[p] = "idle" /\ Readable(list) /\ pc' = [pc EXCEPT ![p] = "look-up"]
      /\ past' = [past EXCEPT ![p] = list] /\ todo' = [todo EXCEPT ![p] = list.instances]
      /\ UNCHANGED <<vm, nicOf, nic, ipOf, ips, disks, file, drawn, failed>>
      /\ UNCHANGED <<name, flags, found, log>>
  BY DEF DestroyWindowsVMs, GoTo, cloud
<1>2. /\ CloudShape /\ CloudOK /\ ProcessShape /\ MakingOK(p) /\ FileOK(list)
      /\ list \in Contents /\ list # NoFile
  BY <1>1, AzureAssumption DEF Inv, ProcessOK, ProcessShape, Readable
<1> HIDE DEF list
<1>3. list.instances \in Seq(VMs) /\ InstancesIn(list) = Elements(list.instances)
  <2>1. /\ list \in Contents /\ Ascending(list.instances)
        /\ InstancesIn(list) = Elements(list.instances)
    BY <1>1, <1>2, ProperLists DEF FileOK, Proper, Readable
  <2>2. Elements(list.instances) \subseteq VMs
    BY <1>2, <2>1 DEF FileOK
  <2> QED
    BY <2>1, <2>2, ListOf, AzureAssumption DEF Ascending
<1>4. ProcessShape'
  BY <1>1, <1>2, <1>3 DEF ProcessShape, Labels
<1>5. Others(p)
  BY <1>1, <1>2 DEF ProcessShape, Others, Frame
<1>6. /\ pc'[p] = "look-up" /\ past'[p] = list /\ todo'[p] = list.instances
      /\ name'[p] = name[p] /\ file'[p] = list /\ drawn' = drawn
  BY <1>1, <1>2 DEF ProcessShape, list
<1>7. MakingOK(p)'
  BY <1>2, <1>6 DEF MakingOK, Making, Made
<1>8. TaskOK(p)'
  BY <1>1, <1>2, <1>3, <1>6 DEF TaskOK, Unmaking, Forgetful
<1>9. ProgressOK(p)'
  BY <1>3, <1>6 DEF ProgressOK, Unmaking
<1>10. FileOK(file[p])'
  BY <1>1, <1>2, SameCloud, SameFile
<1> QED
  BY <1>1, <1>4, <1>5, <1>6, <1>7, <1>8, <1>9, <1>10, LocalStepOf DEF ProcessOK

\* The look-ups tell nothing, or the truth.
LEMMA ToldTheTruth ==
  ASSUME CloudShape, CloudOK, NEW i \in VMs, vm[i] # "none", NEW heard
  PROVE  LET a == Told(i, heard)
         IN  /\ a \in [vm : BOOLEAN, nic : Nat, ip : Nat]
             /\ a.nic \in {Blank, nicOf[i]}
             /\ a.ip # Blank /\ nicOf[i] = i => a.ip = i \/ i \notin ips
<1>1. nicOf[i] \in Names /\ ipOf[nicOf[i]] \in Nat /\ nicOf[i] \in Nat
  <2>1. Names \subseteq Nat /\ Blank \in Nat
    BY Bounds DEF Names, Given, Blank
  <2>2. nicOf[i] \in {i, Given}
    BY DEF CloudOK
  <2> QED
    BY <2>1, <2>2 DEF CloudShape, Names
<1>2. nicOf[i] = i => ipOf[nicOf[i]] \in {Blank, i} \/ i \notin ips
  BY DEF CloudOK
<1> DEFINE v == "vm" \in heard
           n == IF "nic" \in heard THEN nicOf[i] ELSE Blank
           a == IF "ip" \in heard THEN ipOf[nicOf[i]] ELSE Blank
<1>3. v \in BOOLEAN
  OBVIOUS
<1>4. n \in Nat /\ n \in {Blank, nicOf[i]} /\ a \in Nat /\ a \in {Blank, ipOf[nicOf[i]]}
  BY <1>1 DEF Blank
<1>5. Told(i, heard) = [vm |-> v, nic |-> n, ip |-> a]
  BY DEF Told
<1> HIDE DEF v, n, a
<1>6. Told(i, heard) \in [vm : BOOLEAN, nic : Nat, ip : Nat]
  BY <1>3, <1>4, <1>5
<1>7. Told(i, heard).nic = n /\ Told(i, heard).ip = a
  BY <1>5
<1> QED
  BY <1>2, <1>4, <1>6, <1>7

LEMMA LookUpStep ==
  ASSUME Inv, NEW p \in Processes, LookUp(p)
  PROVE  Inv'
<1> DEFINE i == Head(todo[p])
<1>1. /\ pc[p] = "look-up"
      /\ UNCHANGED <<vm, nicOf, nic, ipOf, ips, disks, file, drawn, failed>>
  BY DEF LookUp, cloud
<1>2. /\ CloudShape /\ CloudOK /\ ProcessShape /\ MakingOK(p) /\ TaskOK(p) /\ ProgressOK(p)
      /\ FileOK(file[p])
  BY DEF Inv, ProcessOK
<1>3. \/ /\ todo[p] = <<>> /\ GoTo(p, "delete-rules")
         /\ UNCHANGED <<name, flags, past, todo, found, log>>
      \/ /\ todo[p] # <<>> /\ GoTo(p, "delete-vm")
         /\ UNCHANGED <<name, flags, past, todo, log>>
         /\ \E heard : found' = [found EXCEPT ![p] = Told(i, heard)]
      \/ Exit(p, "panic")
  BY DEF LookUp
<1>4. CASE Exit(p, "panic")
  BY <1>1, <1>4, ExitStep
<1>5. FileOK(file[p])'
  BY <1>1, <1>2, SameCloud, SameFile
<1>6. /\ past[p] # NoFile => \A j \in InstancesIn(past[p]) \ Elements(todo[p]) : Dealt(p, j)
      /\ past[p] = NoFile => todo[p] = <<name[p]>> /\ name[p] # Blank /\ vm[name[p]] # "none"
  BY <1>1, <1>2 DEF ProgressOK, TaskOK
<1>7. ASSUME log' = log
      PROVE  \A j : Dealt(p, j)' <=> Dealt(p, j)
  BY <1>1, <1>7 DEF Dealt, NoVM, NoNIC, NoIP, NoDisk
<1>8. CASE /\ todo[p] = <<>> /\ GoTo(p, "delete-rules")
           /\ UNCHANGED <<name, flags, past, todo, found, log>>
  <2>1. ProcessShape'
    BY <1>1, <1>2, <1>8 DEF ProcessShape, GoTo, Labels, Forgetful
  <2>2. Others(p)
    BY <1>1, <1>2, <1>8 DEF ProcessShape, GoTo, Others, Frame
  <2>3. pc'[p] = "delete-rules"
    BY <1>2, <1>8 DEF ProcessShape, GoTo
  <2>4. past[p] # NoFile
    BY <1>6, <1>8
  <2>5. MakingOK(p)'
    BY <1>1, <1>2, <1>8, <2>3 DEF MakingOK, Making, Made
  <2>6. TaskOK(p)'
    BY <1>1, <1>2, <1>8, <2>3, <2>4 DEF TaskOK, Unmaking, Forgetful
  <2>7. ProgressOK(p)'
    BY <1>6, <1>7, <1>8, <2>3 DEF ProgressOK, Unmaking
  <2> QED
    BY <1>1, <1>5, <1>8, <2>1, <2>2, <2>5, <2>6, <2>7, LocalStepOf DEF ProcessOK
<1>9. CASE /\ todo[p] # <<>> /\ GoTo(p, "delete-vm")
           /\ UNCHANGED <<name, flags, past, todo, log>>
           /\ \E heard : found' = [found EXCEPT ![p] = Told(i, heard)]
  <2>1. PICK heard, a : a = Told(i, heard) /\ found' = [found EXCEPT ![p] = a]
    BY <1>9
  <2>2. i \in VMs /\ vm[i] # "none"
    <3>1. i \in Elements(todo[p])
      BY <1>2, <1>9, HeadAndTail DEF ProcessShape
    <3> QED
      BY <1>2, <3>1, TaskMade
  <2>3. /\ a \in [vm : BOOLEAN, nic : Nat, ip : Nat]
        /\ a.nic \in {Blank, nicOf[i]}
        /\ a.ip # Blank /\ nicOf[i] = i => a.ip = i \/ i \notin ips
    BY <1>2, <2>1, <2>2, ToldTheTruth
  <2>4. ProcessShape'
    BY <1>1, <1>2, <1>9, <2>1, <2>3 DEF ProcessShape, GoTo, Labels, Unmaking
  <2>5. Others(p)
    BY <1>1, <1>2, <1>9, <2>1 DEF ProcessShape, GoTo, Others, Frame
  <2>6. pc'[p] = "delete-vm" /\ found'[p] = a
    BY <1>2, <1>9, <2>1 DEF ProcessShape, GoTo
  <2>7. MakingOK(p)'
    BY <1>1, <1>2, <1>9, <2>6 DEF MakingOK, Making, Made
  <2>8. TaskOK(p)'
    BY <1>1, <1>2, <1>6, <1>9, <2>6 DEF TaskOK, Unmaking, Forgetful
  <2>9. ProgressOK(p)'
    BY <1>1, <1>6, <1>7, <1>9, <2>3, <2>6 DEF ProgressOK
  <2> QED
    BY <1>1, <1>5, <1>9, <2>4, <2>5, <2>7, <2>8, <2>9, LocalStepOf DEF ProcessOK
<1> QED
  BY <1>3, <1>4, <1>8, <1>9

\* A command goes on to the next call for the VM that it destroys: what the call was for
\* is done, or in the log.
LEMMA Unmakes ==
  ASSUME Inv, CloudShape', CloudOK', NEW p \in Processes, CloudStep(name[p]),
         pc[p] \in Unmaking, NEW label \in Unmaking, GoTo(p, label),
         UNCHANGED <<name, flags, past, todo, found, file>>,
         \/ log' = log
         \/ \E what \in {"vm", "detach", "nic", "ip", "disk"} : Log(p, what),
         NEW i, i = Head(todo[p]),
         label \notin {"delete-vm", "await-gone"} =>
           NoVM(p, i)' \/ pc[p] \notin {"delete-vm", "await-gone"},
         label \in {"delete-ip", "delete-disk"} =>
           NoNIC(p, i)' \/ pc[p] \in {"delete-ip", "delete-disk"},
         label = "delete-disk" => NoIP(p, i)' \/ pc[p] = "delete-disk"
  PROVE  Inv'
<1>1. /\ CloudShape /\ ProcessShape /\ MakingOK(p) /\ TaskOK(p) /\ ProgressOK(p)
      /\ FileOK(file[p])
  BY DEF Inv, ProcessOK
<1>2. /\ i \in VMs /\ vm[i] # "none"
      /\ past[p] # NoFile => \A j \in InstancesIn(past[p]) : j \in VMs /\ vm[j] # "none"
  BY <1>1, TaskMade
<1>3. /\ log' \in [Processes -> SUBSET (VMs \X {"vm", "detach", "nic", "ip", "disk"})]
      /\ log[p] \subseteq log'[p] /\ \A q \in Processes \ {p} : log'[q] = log[q]
  <2>1. CASE log' = log
    BY <1>1, <2>1 DEF ProcessShape
  <2>2. CASE \E what \in {"vm", "detach", "nic", "ip", "disk"} : Log(p, what)
    <3>1. PICK what \in {"vm", "detach", "nic", "ip", "disk"} :
            log' = [log EXCEPT ![p] = log[p] \cup {<<i, what>>}]
      BY <2>2 DEF Log
    <3>2. <<i, what>> \in VMs \X {"vm", "detach", "nic", "ip", "disk"}
      BY <1>2, <3>1
    <3>3. log \in [Processes -> SUBSET (VMs \X {"vm", "detach", "nic", "ip", "disk"})]
      BY <1>1 DEF ProcessShape
    <3> QED
      BY <3>1, <3>2, <3>3
  <2> QED
    BY <2>1, <2>2
<1>4. ProcessShape'
  BY <1>1, <1>3 DEF ProcessShape, GoTo, Labels
<1>5. Others(p)
  BY <1>1, <1>3 DEF ProcessShape, GoTo, Others, Frame
<1>6. pc'[p] = label /\ label \notin Making \cup Made \cup {"idle", "look-up", "done"}
  BY <1>1 DEF ProcessShape, GoTo, Making, Made, Unmaking
<1>7. FileOK(file[p])'
  BY SameFile
<1>8. name[p] \in 0..drawn'
  BY <1>1, Bounds DEF MakingOK, CloudStep, CloudShape
<1>9. MakingOK(p)'
  BY <1>6, <1>8 DEF MakingOK, Making
<1>10. name[p] # Blank /\ vm[name[p]] # "none" => vm'[name[p]] # "none"
  <2>1. name[p] # Blank => name[p] \in VMs
    BY <1>1, Bounds DEF MakingOK, Blank
  <2> QED
    BY <2>1 DEF CloudStep
<1>11. TaskOK(p)'
  <2>1. /\ pc'[p] \in Unmaking /\ pc'[p] \notin Forgetful /\ pc'[p] # "done"
    BY <1>6 DEF Unmaking, Forgetful
  <2>2. /\ past'[p] = past[p] /\ todo'[p] = todo[p] /\ name'[p] = name[p]
        /\ file'[p] = file[p]
    OBVIOUS
  <2>3. /\ past[p] \in {NoFile, file[p]}
        /\ past[p] # NoFile => Readable(past[p])
        /\ todo[p] # <<>>
        /\ past[p] = NoFile => /\ name[p] # Blank /\ vm[name[p]] # "none"
                              /\ todo[p] = <<name[p]>>
        /\ past[p] # NoFile => Elements(todo[p]) \subseteq InstancesIn(past[p])
    <3>1. pc[p] # "done"
      BY DEF Unmaking
    <3> QED
      BY <1>1, <3>1 DEF TaskOK
  <2> QED
    BY <1>10, <2>1, <2>2, <2>3 DEF TaskOK
<1>12. ProgressOK(p)'
  <2>1. ASSUME past[p] # NoFile, NEW j \in InstancesIn(past[p]) \ Elements(todo[p])
        PROVE  Dealt(p, j)'
    <3>1. Dealt(p, j) /\ j \in VMs /\ vm[j] # "none"
      BY <1>1, <1>2, <2>1 DEF ProgressOK
    <3> QED
      BY <1>3, <3>1, DealtKept
  <2>2. /\ NoVM(p, i) => NoVM(p, i)'
        /\ NoNIC(p, i) => NoNIC(p, i)'
        /\ NoIP(p, i) => NoIP(p, i)'
    BY <1>2, <1>3, DealtKept
  <2>3. /\ found[p].nic \in {Blank, nicOf[i]}
        /\ found[p].ip # Blank /\ nicOf[i] = i => found[p].ip = i \/ i \notin ips
        /\ pc[p] \notin {"delete-vm", "await-gone"} => NoVM(p, i)
        /\ pc[p] \in {"delete-ip", "delete-disk"} => NoNIC(p, i)
        /\ pc[p] = "delete-disk" => NoIP(p, i)
    BY <1>1 DEF ProgressOK
  <2>4. nicOf'[i] = nicOf[i] /\ (i \notin ips => i \notin ips')
    BY <1>2 DEF CloudStep
  <2>5. /\ found[p].nic \in {Blank, nicOf'[i]}
        /\ found[p].ip # Blank /\ nicOf'[i] = i => found[p].ip = i \/ i \notin ips'
        /\ label \notin {"delete-vm", "await-gone"} => NoVM(p, i)'
        /\ label \in {"delete-ip", "delete-disk"} => NoNIC(p, i)'
        /\ label = "delete-disk" => NoIP(p, i)'
    BY <2>2, <2>3, <2>4
  <2>6. UNCHANGED <<past[p], todo[p], found[p]>>
    OBVIOUS
  <2>7. label # "done"
    BY <1>6
  <2> QED
    BY <1>6, <2>1, <2>5, <2>6, <2>7 DEF ProgressOK
<1> QED
  BY <1>4, <1>5, <1>7, <1>9, <1>11, <1>12, StepOf DEF ProcessOK

\* The VM in the hands of a command that destroys.
LEMMA Unmade ==
  ASSUME Inv, NEW p \in Processes, pc[p] \in Unmaking, NEW i, i = Head(todo[p])
  PROVE  /\ CloudShape /\ CloudOK /\ drawn \in Nat
         /\ i \in VMs /\ vm[i] # "none" /\ nicOf[i] \in Names
         /\ found[p].nic \in {Blank, nicOf[i]}
         /\ found[p].ip # Blank /\ nicOf[i] = i => found[p].ip = i \/ i \notin ips
<1>1. CloudShape /\ CloudOK /\ ProcessShape /\ TaskOK(p) /\ ProgressOK(p) /\ FileOK(file[p])
  BY DEF Inv, ProcessOK
<1>2. i \in VMs /\ vm[i] # "none"
  BY <1>1, TaskMade
<1>3. nicOf[i] \in Names
  BY <1>1, <1>2 DEF CloudOK, Names
<1> QED
  BY <1>1, <1>2, <1>3, Bounds DEF ProgressOK

LEMMA DeleteVMStep ==
  ASSUME Inv, NEW p \in Processes, DeleteVM(p)
  PROVE  Inv'
<1> DEFINE i == Head(todo[p])
<1>1. /\ pc[p] = "delete-vm" /\ UNCHANGED <<nicOf, nic, ipOf, ips, disks, drawn, failed>>
      /\ UNCHANGED <<name, flags, past, todo, found, file>>
      /\ \/ /\ vm' = [vm EXCEPT ![i] = IF Exists(i) THEN "deleting" ELSE @]
            /\ GoTo(p, "await-gone") /\ log' = log
         \/ Log(p, "vm") /\ GoTo(p, "detach") /\ vm' = vm
  BY DEF DeleteVM
<1>2. pc[p] \in Unmaking /\ "await-gone" \in Unmaking /\ "detach" \in Unmaking
  BY <1>1 DEF Unmaking
<1>3. CloudShape /\ CloudOK /\ drawn \in Nat /\ i \in VMs /\ vm[i] # "none"
  BY <1>2, Unmade
<1>4. CASE Log(p, "vm") /\ GoTo(p, "detach") /\ vm' = vm
  <2>1. CloudShape' /\ CloudOK' /\ CloudStep(name[p])
    BY <1>1, <1>3, <1>4, SameCloud
  <2>2. <<i, "vm">> \in log'[p]
    BY <1>4 DEF Log, Inv, ProcessShape
  <2>3. NoVM(p, i)'
    BY <1>1, <2>2 DEF NoVM
  <2> QED
    BY <1>1, <1>2, <1>4, <2>1, <2>3, Unmakes
<1>5. CASE /\ vm' = [vm EXCEPT ![i] = IF Exists(i) THEN "deleting" ELSE @]
           /\ GoTo(p, "await-gone") /\ log' = log
  <2> HIDE DEF i
  <2>1. /\ Exists(i) => vm'[i] = "deleting"
        /\ ~Exists(i) => vm'[i] = vm[i]
        /\ \A j \in VMs \ {i} : vm'[j] = vm[j]
    BY <1>3, <1>5 DEF CloudShape
  <2>2. vm' \in [VMs -> VMStates]
    BY <1>3, <1>5 DEF CloudShape, VMStates
  <2>3. CloudShape'
    BY <1>1, <1>3, <2>2 DEF CloudShape
  <2>4. \A j \in VMs : (Exists(j)' <=> Exists(j)) /\ (vm'[j] = "none" <=> vm[j] = "none")
    BY <2>1 DEF Exists
  <2>5. CloudOK'
    BY <1>1, <1>3, <2>4 DEF CloudOK
  <2>6. \A j \in VMs : vm[j] = "gone" => vm'[j] = "gone"
    BY <2>1 DEF Exists
  <2>7. CloudStep(name[p])
    BY <1>1, <1>3, <2>4, <2>6 DEF CloudStep
  <2> QED
    BY <1>1, <1>2, <1>5, <2>3, <2>5, <2>7, Unmakes DEF i
<1> QED
  BY <1>1, <1>4, <1>5

LEMMA AwaitGoneStep ==
  ASSUME Inv, NEW p \in Processes, AwaitGone(p)
  PROVE  Inv'
<1> DEFINE i == Head(todo[p])
<1>1. /\ pc[p] = "await-gone" /\ UNCHANGED <<vm, nicOf, nic, ipOf, ips, disks, drawn, failed>>
      /\ UNCHANGED <<name, flags, past, todo, found, file>> /\ GoTo(p, "detach")
      /\ (vm[i] = "gone" /\ log' = log) \/ Log(p, "vm")
  BY DEF AwaitGone, cloud
<1>2. pc[p] \in Unmaking /\ "detach" \in Unmaking
  BY <1>1 DEF Unmaking
<1>3. CloudShape' /\ CloudOK' /\ CloudStep(name[p])
  BY <1>1, SameCloud DEF Inv
<1>4. vm'[i] = "gone" \/ <<i, "vm">> \in log'[p]
  BY <1>1 DEF Log, Inv, ProcessShape
<1>5. NoVM(p, i)'
  BY <1>1, <1>4 DEF NoVM
<1> QED
  BY <1>1, <1>2, <1>3, <1>5, Unmakes

LEMMA DisassociateIPStep ==
  ASSUME Inv, NEW p \in Processes, DisassociateIP(p)
  PROVE  Inv'
<1> DEFINE i == Head(todo[p])
           n == found[p].nic
<1>1. /\ pc[p] = "detach" /\ UNCHANGED <<vm, nicOf, nic, ips, disks, drawn, failed>>
      /\ UNCHANGED <<name, flags, past, todo, found, file>> /\ GoTo(p, "delete-nic")
      /\ \/ n # Blank /\ ipOf' = [ipOf EXCEPT ![n] = Blank] /\ log' = log
         \/ Log(p, "detach") /\ ipOf' = ipOf
  BY DEF DisassociateIP, Attempt
<1>2. pc[p] \in Unmaking /\ "delete-nic" \in Unmaking
  BY <1>1 DEF Unmaking
<1>3. /\ CloudShape /\ CloudOK /\ drawn \in Nat /\ nicOf[i] \in Names /\ n \in {Blank, nicOf[i]}
  BY <1>2, Unmade
<1> HIDE DEF i, n
<1>4. ipOf' \in [Names -> Names \cup {Blank}] /\ \A m \in Names : ipOf'[m] \in {ipOf[m], Blank}
  BY <1>1, <1>3 DEF CloudShape
<1>5. CloudShape'
  BY <1>1, <1>3, <1>4 DEF CloudShape
<1>6. CloudOK'
  BY <1>1, <1>3, <1>4 DEF CloudOK, Exists, Names
<1>7. CloudStep(name[p])
  BY <1>1, <1>3, <1>4 DEF CloudStep, Names
<1> QED
  BY <1>1, <1>2, <1>5, <1>6, <1>7, Unmakes DEF i

LEMMA DeleteNICStep ==
  ASSUME Inv, NEW p \in Processes, DeleteNIC(p)
  PROVE  Inv'
<1>0. PICK i, n : i = Head(todo[p]) /\ n = found[p].nic
  OBVIOUS
<1>1. /\ pc[p] = "delete-nic" /\ UNCHANGED <<vm, nicOf, ipOf, ips, disks, drawn, failed>>
      /\ UNCHANGED <<name, flags, past, todo, found, file>> /\ GoTo(p, "delete-ip")
      /\ \/ /\ n # Blank /\ ~NICInUse(n) /\ nic' = [nic EXCEPT ![n] = "deleting"]
            /\ log' = log
         \/ Log(p, "nic") /\ nic' = nic
  BY <1>0 DEF DeleteNIC, Attempt
<1>2. pc[p] \in Unmaking /\ "delete-ip" \in Unmaking
  BY <1>1 DEF Unmaking
<1>3. /\ CloudShape /\ CloudOK /\ drawn \in Nat /\ nicOf[i] \in Names /\ n \in {Blank, nicOf[i]}
  BY <1>0, <1>2, Unmade
<1>4. CASE Log(p, "nic") /\ nic' = nic
  <2>1. CloudShape' /\ CloudOK' /\ CloudStep(name[p])
    BY <1>1, <1>3, <1>4, SameCloud
  <2>2. <<i, "nic">> \in log'[p]
    BY <1>0, <1>4 DEF Log, Inv, ProcessShape
  <2>3. NoNIC(p, i)'
    BY <1>1, <2>2 DEF NoNIC
  <2> QED
    BY <1>0, <1>1, <1>2, <1>4, <2>1, <2>3, Unmakes
<1>5. CASE /\ n # Blank /\ ~NICInUse(n) /\ nic' = [nic EXCEPT ![n] = "deleting"]
           /\ log' = log
  <2>1. /\ nic' \in [Names -> NICStates] /\ nic'[nicOf[i]] = "deleting" /\ n = nicOf[i]
        /\ \A m \in Names : m # n => nic'[m] = nic[m]
    BY <1>3, <1>5 DEF CloudShape, NICStates
  <2>2. CloudShape'
    BY <1>1, <1>3, <2>1 DEF CloudShape
  <2>3. CloudOK'
    <3>1. \A j \in VMs : Exists(j) => nicOf[j] # n /\ nicOf[j] \in Names
      BY <1>3, <1>5 DEF NICInUse, CloudOK, Exists, Names
    <3>2. \A j \in VMs : Exists(j) => nic'[nicOf[j]] = nic[nicOf[j]]
      BY <2>1, <3>1
    <3>3. \A j \in VMs : Exists(j)' <=> Exists(j)
      BY <1>1 DEF Exists
    <3> QED
      BY <1>1, <1>3, <3>2, <3>3 DEF CloudOK
  <2>4. CloudStep(name[p])
    <3>1. \A m \in Names : nic[m] # "there" => nic'[m] # "there"
      BY <2>1
    <3>2. \A j \in VMs : vm[j] # "none" => nicOf[j] \in Names
      BY <1>3 DEF CloudOK, Names
    <3> QED
      BY <1>1, <1>3, <3>1, <3>2 DEF CloudStep
  <2>5. NoNIC(p, i)'
    BY <1>1, <2>1 DEF NoNIC
  <2> QED
    BY <1>0, <1>1, <1>2, <1>5, <2>2, <2>3, <2>4, <2>5, Unmakes
<1> QED
  BY <1>1, <1>4, <1>5

\* When the look-up told of no address, there was none of the VM's name: the call is
\* refused, and the log says so.
LEMMA DestroyIPStep ==
  ASSUME Inv, NEW p \in Processes, DestroyIP(p)
  PROVE  Inv'
<1>0. PICK i, a : i = Head(todo[p]) /\ a = found[p].ip
  OBVIOUS
<1>1. /\ pc[p] = "delete-ip" /\ UNCHANGED <<vm, nicOf, nic, ipOf, disks, drawn>>
      /\ UNCHANGED <<name, flags, past, todo, found, file>> /\ GoTo(p, "delete-disk")
      /\ \/ a # Blank /\ ips' = ips \ {a} /\ log' = log /\ failed' = failed
         \/ Log(p, "ip") /\ ips' = ips /\ failed' = failed
         \/ a # Blank /\ failed' = failed \cup {<<"ip", a>>} /\ ips' = ips /\ log' = log
  BY <1>0 DEF DestroyIP, Attempt, FailsUnseen
<1>2. pc[p] \in Unmaking /\ "delete-disk" \in Unmaking
  BY <1>1 DEF Unmaking
<1>3. /\ CloudShape /\ CloudOK /\ drawn \in Nat /\ i \in VMs
      /\ a # Blank /\ nicOf[i] = i => a = i \/ i \notin ips
  BY <1>0, <1>2, Unmade
<1>4. \/ <<i, "ip">> \in log'[p]
      \/ a # Blank /\ ips' = ips \ {a}
      \/ a # Blank /\ <<"ip", a>> \in failed' /\ ips' = ips
  BY <1>0, <1>1 DEF Log, Inv, ProcessShape
<1>5. NoIP(p, i)'
  BY <1>1, <1>3, <1>4 DEF NoIP
<1>6. ips' \subseteq ips /\ failed \subseteq failed'
  BY <1>1
<1>7. CloudShape'
  BY <1>1, <1>3, <1>6 DEF CloudShape
<1>8. CloudOK'
  BY <1>1, <1>3, <1>6 DEF CloudOK, Exists
<1>9. CloudStep(name[p])
  BY <1>1, <1>3, <1>6 DEF CloudStep
<1> QED
  BY <1>0, <1>1, <1>2, <1>5, <1>7, <1>8, <1>9, Unmakes

\* The command is through with the VM.
LEMMA DestroyDiskStep ==
  ASSUME Inv, NEW p \in Processes, DestroyDisk(p)
  PROVE  Inv'
<1>0. PICK i, next : /\ i = Head(todo[p])
                     /\ next = IF past[p] = NoFile THEN "done" ELSE "look-up"
  OBVIOUS
<1>1. /\ pc[p] = "delete-disk" /\ UNCHANGED <<vm, nicOf, nic, ipOf, ips, drawn>>
      /\ file' = file
      /\ \/ Exit(p, "panic") /\ disks' = disks /\ failed' = failed
         \/ /\ todo' = [todo EXCEPT ![p] = Tail(@)] /\ found' = [found EXCEPT ![p] = Nothing]
            /\ GoTo(p, next) /\ UNCHANGED <<name, flags, past>>
            /\ \/ ~Exists(i) /\ disks' = disks \ {i} /\ log' = log /\ failed' = failed
               \/ Log(p, "disk") /\ disks' = disks /\ failed' = failed
               \/ failed' = failed \cup {<<"disk", i>>} /\ disks' = disks /\ log' = log
  BY <1>0 DEF DestroyDisk, Attempt, FailsUnseen
<1>2. CASE Exit(p, "panic") /\ disks' = disks /\ failed' = failed
  BY <1>1, <1>2, ExitStep
<1>3. CASE /\ todo' = [todo EXCEPT ![p] = Tail(@)] /\ found' = [found EXCEPT ![p] = Nothing]
           /\ GoTo(p, next) /\ UNCHANGED <<name, flags, past>>
           /\ \/ ~Exists(i) /\ disks' = disks \ {i} /\ log' = log /\ failed' = failed
              \/ Log(p, "disk") /\ disks' = disks /\ failed' = failed
              \/ failed' = failed \cup {<<"disk", i>>} /\ disks' = disks /\ log' = log
  <2>1. pc[p] \in Unmaking
    BY <1>1 DEF Unmaking
  <2>2. /\ CloudShape /\ CloudOK /\ drawn \in Nat /\ i \in VMs /\ vm[i] # "none"
        /\ ProcessShape /\ MakingOK(p) /\ TaskOK(p) /\ ProgressOK(p) /\ FileOK(file[p])
    BY <1>0, <2>1, Unmade DEF Inv, ProcessOK
  <2>3. /\ Tail(todo[p]) \in Seq(VMs)
        /\ Elements(todo[p]) = {i} \cup Elements(Tail(todo[p]))
        /\ past[p] # NoFile => \A j \in InstancesIn(past[p]) : j \in VMs /\ vm[j] # "none"
    BY <1>0, <2>1, <2>2, TaskMade
  <2>4. /\ log' \in [Processes -> SUBSET (VMs \X {"vm", "detach", "nic", "ip", "disk"})]
        /\ log[p] \subseteq log'[p] /\ \A q \in Processes \ {p} : log'[q] = log[q]
        /\ <<i, "disk">> \in log'[p] \/ i \notin disks' \/ <<"disk", i>> \in failed'
        /\ failed \subseteq failed'
        /\ disks' \subseteq disks /\ \A j \in VMs : j # i \/ Exists(j) => (j \in disks <=> j \in disks')
    <3>1. log \in [Processes -> SUBSET (VMs \X {"vm", "detach", "nic", "ip", "disk"})]
      BY <2>2 DEF ProcessShape
    <3>2. CASE ~Exists(i) /\ disks' = disks \ {i} /\ log' = log /\ failed' = failed
      BY <2>2, <3>1, <3>2
    <3>4. CASE failed' = failed \cup {<<"disk", i>>} /\ disks' = disks /\ log' = log
      BY <3>1, <3>4
    <3>3. CASE Log(p, "disk") /\ disks' = disks /\ failed' = failed
      <4>1. log' = [log EXCEPT ![p] = log[p] \cup {<<i, "disk">>}]
        BY <1>0, <3>3 DEF Log
      <4>2. <<i, "disk">> \in VMs \X {"vm", "detach", "nic", "ip", "disk"}
        BY <2>2
      <4> QED
        BY <3>1, <3>3, <4>1, <4>2
    <3> QED
      BY <1>3, <3>2, <3>3, <3>4
  <2>5. CloudShape'
    BY <1>1, <2>2, <2>4 DEF CloudShape
  <2>6. CloudOK'
    <3>1. \A j \in VMs : Exists(j)' <=> Exists(j)
      BY <1>1 DEF Exists
    <3> QED
      BY <1>1, <2>2, <2>4, <3>1 DEF CloudOK
  <2>7. CloudStep(name[p])
    BY <1>1, <2>2, <2>4 DEF CloudStep
  <2>8. Nothing \in [vm : BOOLEAN, nic : Nat, ip : Nat]
    BY DEF Nothing, Blank
  <2>9. ProcessShape'
    BY <1>0, <1>1, <1>3, <2>2, <2>3, <2>4, <2>8 DEF ProcessShape, GoTo, Labels
  <2>10. Others(p)
    BY <1>1, <1>3, <2>2, <2>4 DEF ProcessShape, GoTo, Others, Frame
  <2>11. /\ pc'[p] = next /\ todo'[p] = Tail(todo[p]) /\ name'[p] = name[p]
         /\ past'[p] = past[p]
    BY <1>3, <2>2 DEF ProcessShape, GoTo
  <2>12. past[p] = NoFile => /\ name[p] # Blank /\ vm[name[p]] # "none" /\ i = name[p]
                            /\ Tail(todo[p]) = <<>>
    <3>1. past[p] = NoFile => /\ name[p] # Blank /\ vm[name[p]] # "none"
                             /\ todo[p] = <<name[p]>>
      BY <1>1, <2>1, <2>2 DEF TaskOK
    <3>2. \A x : Head(<<x>>) = x /\ Tail(<<x>>) = <<>>
      OBVIOUS
    <3> QED
      BY <1>0, <3>1, <3>2
  <2>13. MakingOK(p)'
    BY <1>0, <1>1, <2>2, <2>11 DEF MakingOK, Making, Made
  <2>14. TaskOK(p)'
    <3>1. past[p] # NoFile => Elements(Tail(todo[p])) \subseteq InstancesIn(past[p])
      BY <2>2, <2>3 DEF TaskOK
    <3> QED
      BY <1>0, <1>1, <2>2, <2>11, <2>12, <3>1 DEF TaskOK, Unmaking, Forgetful
  <2>15. Dealt(p, i)'
    <3>1. NoVM(p, i) /\ NoNIC(p, i) /\ NoIP(p, i)
      BY <1>0, <1>1, <2>1, <2>2 DEF ProgressOK
    <3>2. NoVM(p, i)' /\ NoNIC(p, i)' /\ NoIP(p, i)'
      BY <2>2, <2>4, <2>7, <3>1, DealtKept
    <3>3. NoDisk(p, i)'
      BY <2>4 DEF NoDisk
    <3> QED
      BY <3>2, <3>3 DEF Dealt
  <2>16. ProgressOK(p)'
    <3>1. ASSUME past[p] # NoFile, NEW j \in InstancesIn(past[p]) \ Elements(Tail(todo[p]))
          PROVE  Dealt(p, j)'
      <4>1. CASE j = i
        BY <2>15, <4>1
      <4>2. CASE j # i
        <5>1. Dealt(p, j) /\ j \in VMs /\ vm[j] # "none"
          BY <2>2, <2>3, <3>1, <4>2 DEF ProgressOK
        <5> QED
          BY <2>4, <2>7, <5>1, DealtKept
      <4> QED
        BY <4>1, <4>2
    <3>2. pc'[p] = "done" => name'[p] = i
      BY <1>0, <2>11, <2>12
    <3> QED
      BY <1>0, <2>11, <2>15, <3>1, <3>2 DEF ProgressOK, Unmaking
  <2>17. FileOK(file[p])'
    BY <1>1, <2>7, SameFile
  <2> QED
    BY <1>3, <2>5, <2>6, <2>7, <2>9, <2>10, <2>11, <2>13, <2>14, <2>16, <2>17, StepOf DEF ProcessOK
<1> QED
  BY <1>1, <1>2, <1>3

LEMMA DoneStep ==
  ASSUME Inv, NEW p \in Processes, Done(p)
  PROVE  Inv'
<1>1. /\ UNCHANGED <<vm, nicOf, nic, ipOf, ips, disks, file, drawn, failed>>
      /\ Exit(p, "destroyed-one")
  BY DEF Done, cloud
<1> QED
  BY <1>1, ExitStep

LEMMA DeleteNSGRulesStep ==
  ASSUME Inv, NEW p \in Processes, DeleteNSGRules(p)
  PROVE  Inv'
<1>1. /\ pc[p] = "delete-rules"
      /\ UNCHANGED <<vm, nicOf, nic, ipOf, ips, disks, drawn, failed, file>>
      /\ UNCHANGED <<name, flags, past, todo, found, log>>
      /\ pc' = pc \/ GoTo(p, "forget")
  BY DEF DeleteNSGRules
<1>2. /\ ProcessShape /\ MakingOK(p) /\ TaskOK(p) /\ ProgressOK(p) /\ FileOK(file[p])
      /\ CloudShape /\ CloudOK
  BY DEF Inv, ProcessOK
<1>3. ProcessShape'
  BY <1>1, <1>2 DEF ProcessShape, GoTo, Labels, Forgetful
<1>4. Others(p)
  BY <1>1, <1>2 DEF ProcessShape, GoTo, Others, Frame
<1>5. pc'[p] \in Forgetful /\ pc[p] \in Forgetful
  BY <1>1, <1>2 DEF ProcessShape, GoTo, Forgetful
<1>6. /\ pc[p] \notin Making \cup Made \cup Unmaking \cup {"idle", "look-up", "done"}
      /\ pc'[p] \notin Making \cup Made \cup Unmaking \cup {"idle", "look-up", "done"}
  BY <1>5 DEF Making, Made, Unmaking, Forgetful
<1>7. MakingOK(p)'
  BY <1>1, <1>2, <1>6 DEF MakingOK, Making
<1>8. TaskOK(p)'
  BY <1>1, <1>2, <1>5, <1>6 DEF TaskOK
<1>9. ProgressOK(p)'
  <2>1. \A j : Dealt(p, j)' <=> Dealt(p, j)
    BY <1>1 DEF Dealt, NoVM, NoNIC, NoIP, NoDisk
  <2> QED
    BY <1>1, <1>2, <1>6, <2>1 DEF ProgressOK
<1>10. FileOK(file[p])'
  BY <1>1, <1>2, SameCloud, SameFile
<1> QED
  BY <1>1, <1>3, <1>4, <1>7, <1>8, <1>9, <1>10, LocalStepOf DEF ProcessOK

\* RemoveInstallerInfo leaves a file in order.
LEMMA ForgetStep ==
  ASSUME Inv, NEW p \in Processes, Forget(p)
  PROVE  Inv'
<1> DEFINE list == file[p]
           ids == list.instances
           sgs == list.groups
           result == Removed(list, ids, sgs)
<1>0. /\ list = file[p] /\ ids = list.instances /\ sgs = list.groups
      /\ result = Removed(list, ids, sgs)
  OBVIOUS
<1> HIDE DEF list, ids, sgs
<1>1. /\ ProcessShape /\ TaskOK(p) /\ ProgressOK(p) /\ FileOK(list)
      /\ CloudShape /\ CloudOK /\ Blank \notin VMs
  BY <1>0, Bounds DEF Inv, ProcessOK
<1>2. pc[p] = "forget" /\ past[p] = list /\ past[p] # NoFile /\ Readable(list) /\ todo[p] = <<>>
  BY <1>0, <1>1 DEF Forget, TaskOK, Unmaking, Forgetful
<1>3. /\ UNCHANGED <<vm, nicOf, nic, ipOf, ips, disks, drawn, failed>>
      /\ Exit(p, "destroyed")
      /\ file' = file \/ (result.ok /\ file' = [file EXCEPT ![p] = result.file])
  BY <1>0, <1>2 DEF Forget, cloud
<1>4. Proper(list) /\ ids \in Seq(Nat \ {Blank}) /\ sgs \in Seq(Nat \ {Blank})
  <2>1. /\ Ascending(ids) /\ Ascending(sgs) /\ Elements(ids) \subseteq VMs
        /\ Elements(sgs) \subseteq {NSG} /\ Proper(list)
    BY <1>0, <1>1, <1>2, ProperLists DEF FileOK
  <2>2. Elements(ids) \subseteq Nat \ {Blank} /\ Elements(sgs) \subseteq Nat \ {Blank}
    BY <1>1, <2>1, Bounds DEF NSG, Blank
  <2> QED
    BY <2>1, <2>2, ListOf DEF Ascending
<1>5. result.ok => /\ Proper(result.file)
                   /\ InstancesIn(result.file) \subseteq InstancesIn(list)
                   /\ GroupsIn(result.file) \subseteq GroupsIn(list)
  <2> DEFINE granted == /\ Readable(list) /\ Distinct(ids) /\ Distinct(sgs)
                        /\ Elements(ids) \subseteq InstancesIn(list)
                        /\ Elements(sgs) \subseteq GroupsIn(list)
  <2>1. Proper(list)
    BY <1>4
  <2>2. ids \in Seq(Nat \ {Blank}) /\ sgs \in Seq(Nat \ {Blank})
    BY <1>4
  <2>3. /\ granted => /\ result.ok = TRUE
                      /\ Proper(result.file)
                      /\ InstancesIn(result.file) = InstancesIn(list) \ Elements(ids)
                      /\ GroupsIn(result.file) = GroupsIn(list) \ Elements(sgs)
                      /\ result.file # Absent =>
                           InstancesIn(result.file) \cup GroupsIn(result.file) # {}
        /\ ~granted => result.ok = FALSE
    BY <2>1, <2>2, RemovedEffect
  <2> QED
    BY <2>3
<1> HIDE DEF result
<1>6. result.ok => FileOK(result.file) /\ result.file \in Contents \cup {Absent, Unparsable}
  BY <1>1, <1>5 DEF FileOK, Proper
<1>7. /\ file' \in [Processes -> Contents \cup {Absent, Unparsable}]
      /\ \A q \in Processes \ {p} : file'[q] = file[q]
      /\ file'[p] = list \/ (result.ok /\ file'[p] = result.file)
  BY <1>0, <1>1, <1>3, <1>6 DEF ProcessShape
<1>8. FileOK(file'[p])
  BY <1>1, <1>6, <1>7
<1>9. FileOK(file[p])'
  BY <1>3, <1>8 DEF FileOK
<1>10. CloudShape'
  BY <1>1, <1>3, SameCloud
<1> QED
  BY <1>1, <1>3, <1>7, <1>9, <1>10, Exits, LocalStepOf

-----------------------------------------------------------------------------
(* Faults, and Azure *)

LEMMA CallFailsStep ==
  ASSUME Inv, NEW p \in Processes, CallFails(p)
  PROVE  Inv'
<1>1. /\ UNCHANGED <<vm, nicOf, nic, ipOf, ips, disks, file, drawn, failed>>
      /\ Exit(p, "error")
  BY DEF CallFails, cloud
<1> QED
  BY <1>1, ExitStep

LEMMA KilledStep ==
  ASSUME Inv, NEW p \in Processes, Killed(p)
  PROVE  Inv'
<1>1. /\ UNCHANGED <<vm, nicOf, nic, ipOf, ips, disks, drawn, failed>>
      /\ Exit(p, "killed")
      /\ file' = file \/ file' = [file EXCEPT ![p] = Unparsable]
  BY DEF Killed, StopWriting, cloud
<1>2. CASE file' = file
  BY <1>1, <1>2, ExitStep
<1>3. CASE file' = [file EXCEPT ![p] = Unparsable]
  <2>1. CloudShape' /\ ProcessShape
    BY <1>1, SameCloud DEF Inv
  <2>2. /\ file' \in [Processes -> Contents \cup {Absent, Unparsable}] /\ file'[p] = Unparsable
        /\ \A q \in Processes \ {p} : file'[q] = file[q]
    BY <1>3, <2>1 DEF ProcessShape
  <2>3. FileOK(file[p])'
    BY <1>1, <2>2, UnparsableOK DEF FileOK
  <2>4. ProcessShape' /\ Others(p) /\ name'[p] = Blank /\ ProcessOK(p)'
    BY <1>1, <2>1, <2>2, Exits
  <2> QED
    BY <1>1, <2>3, <2>4, LocalStepOf
<1> QED
  BY <1>1, <1>2, <1>3

\* Azure does what was asked of it.
LEMMA CloudOnly ==
  ASSUME Inv, CloudShape', CloudOK', CloudStep(Blank),
         UNCHANGED <<name, flags, past, todo, found, log, file, pc>>
  PROVE  Inv'
<1>1. ProcessShape'
  BY DEF Inv, ProcessShape
<1>2. NamesOK'
  BY DEF Inv, NamesOK
<1>3. ASSUME NEW p \in Processes
      PROVE  FileOK(file[p])' /\ ProcessOK(p)'
  <2>1. Frame(p)
    BY DEF Frame
  <2>2. name[p] # Blank \/ name[p] = Blank
    OBVIOUS
  <2> QED
    BY <1>3, <2>1, <2>2, ProcessKept DEF Inv
<1> QED
  BY <1>1, <1>2, <1>3 DEF Inv

LEMMA VMChangesStep ==
  ASSUME Inv, NEW i \in VMs, VMComesUp(i) \/ VMGoes(i) \/ VMStays(i)
  PROVE  Inv'
<1>1. PICK from \in {"creating", "deleting"}, to \in {"running", "gone"} :
        /\ vm[i] = from /\ vm' = [vm EXCEPT ![i] = to]
        /\ UNCHANGED <<nicOf, nic, ipOf, ips, disks, drawn, failed>>
        /\ UNCHANGED <<name, flags, past, todo, found, log, file, pc>>
  BY DEF VMComesUp, VMGoes, VMStays, VMChanges, local
<1>2. CloudShape /\ CloudOK /\ drawn \in Nat
  BY Bounds DEF Inv
<1>3. /\ vm' \in [VMs -> VMStates]
      /\ \A j \in VMs : /\ Exists(j)' => Exists(j)
                        /\ vm'[j] = "none" <=> vm[j] = "none"
                        /\ vm[j] = "gone" => vm'[j] = "gone"
  BY <1>1, <1>2 DEF CloudShape, VMStates, Exists
<1>4. CloudShape'
  BY <1>1, <1>2, <1>3 DEF CloudShape
<1>5. CloudOK'
  BY <1>1, <1>2, <1>3 DEF CloudOK
<1>6. CloudStep(Blank)
  BY <1>1, <1>2, <1>3 DEF CloudStep
<1> QED
  BY <1>1, <1>4, <1>5, <1>6, CloudOnly

LEMMA NICGoesStep ==
  ASSUME Inv, NEW n \in Names, NICGoes(n)
  PROVE  Inv'
<1>1. /\ nic[n] = "deleting" /\ nic' = [nic EXCEPT ![n] = "none"]
      /\ ipOf' = [ipOf EXCEPT ![n] = Blank]
      /\ UNCHANGED <<vm, nicOf, ips, disks, drawn, failed>>
      /\ UNCHANGED <<name, flags, past, todo, found, log, file, pc>>
  BY DEF NICGoes, local
<1>2. CloudShape /\ CloudOK /\ drawn \in Nat
  BY Bounds DEF Inv
<1>3. /\ nic' \in [Names -> NICStates] /\ ipOf' \in [Names -> Names \cup {Blank}]
      /\ \A m \in Names : /\ nic'[m] = "there" <=> nic[m] = "there"
                          /\ ipOf'[m] \in {Blank, ipOf[m]}
  BY <1>1, <1>2 DEF CloudShape, NICStates
<1>4. CloudShape'
  BY <1>1, <1>2, <1>3 DEF CloudShape
<1>5. \A j \in VMs : j \in Names /\ (vm[j] # "none" => nicOf[j] \in Names)
  BY <1>2 DEF CloudOK, Names
<1>6. CloudOK'
  <2>1. \A j \in VMs : (Exists(j)' <=> Exists(j)) /\ (Exists(j) => vm[j] # "none")
    BY <1>1 DEF Exists
  <2> QED
    BY <1>1, <1>2, <1>3, <1>5, <2>1 DEF CloudOK
<1>7. CloudStep(Blank)
  BY <1>1, <1>2, <1>3, <1>5 DEF CloudStep
<1> QED
  BY <1>1, <1>4, <1>6, <1>7, CloudOnly

\* A NIC that Azure fails to delete is not lost out of sight.
LEMMA NICStaysStep ==
  ASSUME Inv, NEW n \in Names, NICStays(n)
  PROVE  Inv'
<1>1. /\ nic[n] = "deleting" /\ nic' = [nic EXCEPT ![n] = "there"]
      /\ failed' = failed \cup {<<"nic", n>>}
      /\ UNCHANGED <<vm, nicOf, ipOf, ips, disks, drawn>>
      /\ UNCHANGED <<name, flags, past, todo, found, log, file, pc>>
  BY DEF NICStays, local
<1>2. CloudShape /\ CloudOK /\ drawn \in Nat
  BY Bounds DEF Inv
<1>3. /\ nic' \in [Names -> NICStates]
      /\ \A m \in Names : /\ nic[m] = "there" => nic'[m] = "there"
                          /\ nic[m] # "there" => nic'[m] # "there" \/ <<"nic", m>> \in failed'
  BY <1>1, <1>2 DEF CloudShape, NICStates
<1>4. CloudShape'
  BY <1>1, <1>2, <1>3 DEF CloudShape
<1>5. \A j \in VMs : vm[j] # "none" => nicOf[j] \in Names
  BY <1>2 DEF CloudOK, Names
<1>6. CloudOK'
  <2>1. \A j \in VMs : (Exists(j)' <=> Exists(j)) /\ (Exists(j) => vm[j] # "none")
    BY <1>1 DEF Exists
  <2> QED
    BY <1>1, <1>2, <1>3, <1>5, <2>1 DEF CloudOK
<1>7. failed \subseteq failed'
  BY <1>1
<1>8. CloudStep(Blank)
  BY <1>1, <1>2, <1>3, <1>5, <1>7 DEF CloudStep
<1> QED
  BY <1>1, <1>4, <1>6, <1>8, CloudOnly

-----------------------------------------------------------------------------
(* The theorems *)

LEMMA InitEstablishesInv ==
  Init => Inv
<1> SUFFICES ASSUME Init
             PROVE  Inv
  OBVIOUS
<1>1. MaxVMs \in Nat /\ drawn = 0
  BY AzureAssumption DEF Init
<1>2. /\ VMs \subseteq Nat \ {0} /\ Given \in Nat \ {0} /\ Given \notin VMs /\ Given \in Names
      /\ VMs \subseteq Names
  BY <1>1 DEF VMs, Given, Names
<1>3. CloudShape
  <2>1. vm \in [VMs -> VMStates] /\ nicOf \in [VMs -> Names \cup {Blank}]
    BY DEF Init, VMStates
  <2>2. nic \in [Names -> NICStates]
    BY DEF Init, NICStates
  <2>3. ipOf \in [Names -> Names \cup {Blank}]
    BY <1>2 DEF Init
  <2>4. ips \subseteq Names /\ disks \subseteq 1..drawn /\ drawn \in 0..MaxVMs
    BY <1>1, <1>2 DEF Init
  <2> QED
    BY <2>1, <2>2, <2>3, <2>4 DEF CloudShape
<1>4. CloudOK
  <2>1. \A i \in VMs : vm[i] = "none" /\ ~Exists(i)
    BY DEF Init, Exists
  <2>2. \A n \in VMs : ipOf[n] = Blank /\ n \notin ips
    BY <1>2 DEF Init
  <2> QED
    BY <2>1, <2>2 DEF CloudOK
<1>5. ProcessShape
  <2>1. Nothing \in [vm : BOOLEAN, nic : Nat, ip : Nat]
    BY DEF Nothing, Blank
  <2>2. <<>> \in Seq(VMs)
    OBVIOUS
  <2>3. /\ file \in [Processes -> Contents \cup {Absent, Unparsable}] /\ pc \in [Processes -> Labels]
        /\ name \in [Processes -> Nat] /\ flags \in [Processes -> SUBSET {"nic", "ip"}]
        /\ past \in [Processes -> Contents \cup {Absent, NoFile}]
    BY DEF Init, Labels, Blank
  <2>4. /\ todo \in [Processes -> Seq(VMs)]
        /\ found \in [Processes -> [vm : BOOLEAN, nic : Nat, ip : Nat]]
        /\ log \in [Processes -> SUBSET (VMs \X {"vm", "detach", "nic", "ip", "disk"})]
    BY <2>1, <2>2 DEF Init
  <2> QED
    BY <2>3, <2>4 DEF ProcessShape
<1>6. NamesOK
  BY DEF Init, NamesOK
<1>7. ASSUME NEW p \in Processes
      PROVE  FileOK(file[p]) /\ ProcessOK(p)
  <2>1. /\ file[p] = Absent /\ pc[p] = "idle" /\ name[p] = Blank /\ past[p] = NoFile
        /\ todo[p] = <<>> /\ log[p] = {}
    BY DEF Init
  <2>2. FileOK(file[p])
    BY <2>1, AbsentIsEmpty DEF FileOK, Proper
  <2>3. MakingOK(p)
    BY <1>1, <2>1 DEF MakingOK, Making, Made, Blank
  <2>4. TaskOK(p)
    BY <2>1 DEF TaskOK, Unmaking, Forgetful
  <2>5. ProgressOK(p)
    BY <2>1 DEF ProgressOK, Unmaking
  <2> QED
    BY <2>2, <2>3, <2>4, <2>5 DEF ProcessOK
<1> QED
  BY <1>3, <1>4, <1>5, <1>6, <1>7 DEF Inv

LEMMA StepKeepsInv ==
  ASSUME Inv, [Next]_vars
  PROVE  Inv'
<1>1. CASE UNCHANGED vars
  <2>1. UNCHANGED <<vm, nicOf, nic, ipOf, ips, disks, drawn, failed>>
    BY <1>1 DEF vars, cloud
  <2>2. UNCHANGED <<name, flags, past, todo, found, log, file, pc>>
    BY <1>1 DEF vars, local
  <2> QED
    BY <2>1, <2>2, SameCloud, CloudOnly DEF Inv
<1>2. CASE Next
  <2>1. ASSUME NEW p \in Processes, CreateWindowsVM(p) \/ Create(p) \/ DestroyOwnVM(p)
        PROVE  Inv'
    BY <2>1, CreateWindowsVMStep, GetRulesStep, PutRuleStep, CreatePublicIPStep, CreateNICStep,
       CreateVMStep, AwaitVMStep, RecordStep, ConnectStep, ReportStep, DestroyOwnVMStep DEF Create
  <2>2. ASSUME NEW p \in Processes, DestroyWindowsVMs(p) \/ Destroy(p)
        PROVE  Inv'
    BY <2>2, DestroyWindowsVMsStep, LookUpStep, DeleteVMStep, AwaitGoneStep, DisassociateIPStep,
       DeleteNICStep, DestroyIPStep, DestroyDiskStep, DoneStep, DeleteNSGRulesStep, ForgetStep
       DEF Destroy
  <2>3. ASSUME NEW p \in Processes, CallFails(p) \/ Killed(p)
        PROVE  Inv'
    BY <2>3, CallFailsStep, KilledStep
  <2>4. CASE Azure
    BY <2>4, VMChangesStep, NICGoesStep, NICStaysStep DEF Azure
  <2> QED
    BY <1>2, <2>1, <2>2, <2>3, <2>4 DEF Next
<1> QED
  BY <1>1, <1>2

\* The strengthening holds in every behaviour: what wni relies on between two calls to
\* Azure, whatever Azure and the other commands do in between.
THEOREM InvHolds ==
  Spec => []Inv
<1>1. Inv /\ [Next]_vars => Inv'
  BY StepKeepsInv
<1> QED
  BY InitEstablishesInv, <1>1, PTL DEF Spec

LEMMA InvImpliesTypeOK ==
  Inv => TypeOK
<1> SUFFICES ASSUME Inv
             PROVE  TypeOK
  OBVIOUS
<1>1. CloudShape /\ CloudOK /\ ProcessShape
  BY DEF Inv
<1>2. ASSUME NEW i \in VMs, Exists(i)
      PROVE  /\ i <= drawn /\ i \in disks /\ nic[nicOf[i]] = "there"
             /\ \A j \in VMs \ {i} : Exists(j) => nicOf[j] # nicOf[i]
  BY <1>1, <1>2 DEF CloudOK, Exists
<1>3. ASSUME NEW p \in Processes
      PROVE  /\ name[p] \in 0..drawn
             /\ Elements(todo[p]) \subseteq {name[p]} \cup InstancesIn(file[p])
             /\ past[p] \in {NoFile, file[p]}
             /\ pc[p] = "idle" => name[p] = Blank /\ log[p] = {}
  <2>1. MakingOK(p) /\ TaskOK(p)
    BY DEF Inv, ProcessOK
  <2>2. CASE past[p] # NoFile
    BY <2>1, <2>2 DEF MakingOK, TaskOK
  <2>3. CASE past[p] = NoFile
    <3>1. todo[p] = <<>> \/ todo[p] = <<name[p]>>
      BY <2>1, <2>3 DEF TaskOK, Unmaking
    <3>2. Elements(todo[p]) \subseteq {name[p]}
      <4>1. Elements(<<>>) = {} /\ Elements(<<name[p]>>) = {name[p]}
        BY DEF Elements
      <4> QED
        BY <3>1, <4>1
    <3> QED
      BY <2>1, <3>2 DEF MakingOK, TaskOK
  <2> QED
    BY <2>2, <2>3
<1> QED
  BY <1>1, <1>2, <1>3 DEF TypeOK, CloudShape, VMStates, NICStates

\* However many operators and VMs there are, a VM that exists has a NIC of its own and
\* its disk, and a command works on what it made or what its file names (TypeOK).
THEOREM TypeCorrect ==
  Spec => []TypeOK
BY InvHolds, InvImpliesTypeOK, PTL

\* However many operators, VMs and faults there are, when RemoveInstallerInfo takes a VM
\* out of the file, or DestroyWindowsVM returns, the VM is gone with its NIC, its disk and
\* the address made for that NIC, or the log of the command says which is not, or Azure
\* accepted its deletion and failed to do it (ForgetsWithAWord).
THEOREM NothingLostWithoutAWord ==
  Spec => ForgetsWithAWord
<1>1. ASSUME Inv, NEW p \in Processes, NEW i \in VMs,
             \/ pc[p] = "forget" /\ i \in InstancesIn(file[p]) \ InstancesIn(file'[p])
             \/ pc[p] = "done" /\ i = name[p]
      PROVE  /\ vm[i] = "gone" \/ <<i, "vm">> \in log[p]
             /\ i \notin disks \/ <<i, "disk">> \in log[p] \/ <<"disk", i>> \in failed
             /\ nic[nicOf[i]] # "there" \/ <<i, "nic">> \in log[p]
                                        \/ <<"nic", nicOf[i]>> \in failed
             /\ nicOf[i] = i => i \notin ips \/ <<i, "ip">> \in log[p] \/ <<"ip", i>> \in failed
  <2>1. TaskOK(p) /\ ProgressOK(p)
    BY <1>1 DEF Inv, ProcessOK
  <2>2. CASE pc[p] = "forget" /\ i \in InstancesIn(file[p]) \ InstancesIn(file'[p])
    <3>1. past[p] = file[p] /\ past[p] # NoFile /\ todo[p] = <<>>
      BY <2>1, <2>2 DEF TaskOK, Unmaking, Forgetful
    <3>2. Elements(todo[p]) = {}
      BY <3>1 DEF Elements
    <3>3. Dealt(p, i)
      BY <2>1, <2>2, <3>1, <3>2 DEF ProgressOK
    <3> QED
      BY <3>3 DEF Dealt, NoVM, NoNIC, NoIP, NoDisk
  <2>3. CASE pc[p] = "done" /\ i = name[p]
    BY <2>1, <2>3 DEF ProgressOK, Dealt, NoVM, NoNIC, NoIP, NoDisk
  <2> QED
    BY <1>1, <2>2, <2>3
<1>2. Inv /\ [Next]_vars =>
        [\A p \in Processes, i \in VMs :
           \/ pc[p] = "forget" /\ i \in InstancesIn(file[p]) \ InstancesIn(file'[p])
           \/ pc[p] = "done" /\ i = name[p]
           => /\ vm[i] = "gone" \/ <<i, "vm">> \in log[p]
              /\ i \notin disks \/ <<i, "disk">> \in log[p] \/ <<"disk", i>> \in failed
              /\ nic[nicOf[i]] # "there" \/ <<i, "nic">> \in log[p] \/ <<"nic", nicOf[i]>> \in failed
              /\ nicOf[i] = i => i \notin ips \/ <<i, "ip">> \in log[p] \/ <<"ip", i>> \in failed]_vars
  BY <1>1
<1> QED
  BY InvHolds, <1>2, PTL DEF Spec, ForgetsWithAWord

=============================================================================
