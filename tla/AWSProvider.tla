----------------------------- MODULE AWSProvider -----------------------------
(***************************************************************************)
(* wni aws create and wni aws destroy: createWindowsVM, handleSg,          *)
(* DestroyWindowsVM and DestroyWindowsVMs of tools/windows-node-installer/ *)
(* pkg/cloudprovider/aws/ec2.go, one step per call that changes or depends *)
(* on EC2 or the windows-node-installer.json file, with the calls failing  *)
(* and wni being killed anywhere.                                          *)
(*                                                                         *)
(* EC2 is modelled from how the code uses it: instances that come up, are  *)
(* terminated and after a while forgotten, and one Windows security group  *)
(* of the cluster at a time, since its name is taken while it exists.      *)
(***************************************************************************)
EXTENDS InstallerInfo

CONSTANTS
  Processes,    \* wni commands that may run at the same time
  Dirs,         \* the directories that --dir names
  DirOf,        \* process |-> its directory
  Addresses,    \* process |-> what GetMyIp returns
  FoundRules,   \* the rules a group that was there before wni may have
  NoFile,       \* nothing has been read
  MaxInstances, \* bound on the instances ever created: EC2 refuses more
  MaxGroups,    \* bound on the security groups ever created: EC2 refuses more
  MaxFaults,    \* bound on calls that fail and on kills
  MaxForgets    \* bound on the instances that EC2 forgets

ASSUME AWSAssumption ==
  /\ DirOf \in [Processes -> Dirs]
  /\ DOMAIN Addresses = Processes
  /\ {MaxInstances, MaxGroups, MaxFaults, MaxForgets} \subseteq Nat
  /\ FoundRules # {} => MaxGroups # 0

InstanceIDs == 1..MaxInstances
GroupIDs    == 1..MaxGroups

\* The states in which an instance holds on to its security group.
Living == {"pending", "running", "shutting-down"}

VARIABLES
  vm,        \* instance |-> its state, "none" before it is created
  sgOf,      \* instance |-> its Windows security group, 0 for none
  rules,     \* security group |-> its ingress rules; {} where there is no group
  group,     \* the Windows security group of the cluster, 0 for none
  groups,    \* number of groups created so far
  file,      \* directory |-> its windows-node-installer.json
  pc,        \* process |-> the next call, or "idle"
  sg,        \* process |-> the group it found or created
  known,     \* process |-> the rules that its look-up returned
  id,        \* process |-> the instance that it created
  past,      \* process |-> the contents it read of its file, or NoFile
  todo,      \* process |-> the identifiers that remain of the loop it is in
  ended,     \* process |-> the lists terminatedInstances and deletedSg
  damaged,   \* the directories whose file was overwritten unseen or left half written
  reported,  \* directory |-> the instances that create commands have reported there
  outcome,   \* process |-> how its last command ended
  faults     \* number of faults so far

cloud == <<vm, sgOf, rules, group, groups>>
local == <<sg, known, id, past, todo, ended>>
vars  == <<cloud, local, file, damaged, pc, reported, outcome, faults>>

Init ==
  /\ vm = [i \in InstanceIDs |-> "none"]
  /\ sgOf = [i \in InstanceIDs |-> 0]
  /\ \/ group = 0 /\ groups = 0 /\ rules = [g \in GroupIDs |-> {}]
     \/ /\ group = 1 /\ groups = 1
        /\ \E found \in FoundRules : rules = [g \in GroupIDs |-> IF g = 1 THEN found ELSE {}]
  /\ file = [d \in Dirs |-> Absent]
  /\ pc = [p \in Processes |-> "idle"]
  /\ sg = [p \in Processes |-> 0]
  /\ known = [p \in Processes |-> {}]
  /\ id = [p \in Processes |-> 0]
  /\ past = [p \in Processes |-> NoFile]
  /\ todo = [p \in Processes |-> <<>>]
  /\ ended = [p \in Processes |-> Info(<<>>, <<>>)]
  /\ damaged = {}
  /\ reported = [d \in Dirs |-> {}]
  /\ outcome = [p \in Processes |-> "none"]
  /\ faults = 0

GoTo(p, label) == pc' = [pc EXCEPT ![p] = label]

\* The command ends, and with it the process and all that it knew.
Exit(p, result) ==
  /\ GoTo(p, "idle")
  /\ outcome' = [outcome EXCEPT ![p] = result]
  /\ sg' = [sg EXCEPT ![p] = 0]
  /\ known' = [known EXCEPT ![p] = {}]
  /\ id' = [id EXCEPT ![p] = 0]
  /\ past' = [past EXCEPT ![p] = NoFile]
  /\ todo' = [todo EXCEPT ![p] = <<>>]
  /\ ended' = [ended EXCEPT ![p] = Info(<<>>, <<>>)]

Fault == faults < MaxFaults /\ faults' = faults + 1

-----------------------------------------------------------------------------
(* The file *)

\* What Append- or RemoveInstallerInfo makes of what it read, by what p is at.
Rewritten(p) ==
  CASE pc[p] \in {"read-group", "write-group"}       -> Appended(past[p], <<>>, <<sg[p]>>)
    [] pc[p] \in {"read-instance", "write-instance"} -> Appended(past[p], <<id[p]>>, <<>>)
    [] OTHER -> Removed(past[p], ended[p].instances, ended[p].groups)

\* ReadInstallerInfo: a call that fails finds what a file does that is no JSON.
ReadFile(p, from, to) ==
  /\ pc[p] = from
  /\ \/ past' = [past EXCEPT ![p] = file[DirOf[p]]] /\ UNCHANGED faults
     \/ past' = [past EXCEPT ![p] = Unparsable] /\ Fault
  /\ GoTo(p, to)
  /\ UNCHANGED <<cloud, file, damaged, sg, known, id, todo, ended, reported, outcome>>

Writing == {"write-group", "write-instance", "write-rest"}

\* ioutil.WriteFile or os.Remove; whether the file is still what p read is not
\* looked at, and only noted.
WriteFile(p) ==
  /\ Rewritten(p).ok
  /\ file' = [file EXCEPT ![DirOf[p]] = Rewritten(p).file]
  /\ damaged' = IF past[p] = file[DirOf[p]] THEN damaged ELSE damaged \cup {DirOf[p]}

\* The write that p is at stops before its end, which leaves the file as it was, or
\* without the end of its text: ioutil.WriteFile truncates it first.
StopWriting(p) ==
  \/ UNCHANGED <<file, damaged>>
  \/ /\ pc[p] \in Writing
     /\ Rewritten(p).ok /\ Rewritten(p).file # Absent
     /\ file' = [file EXCEPT ![DirOf[p]] = Unparsable]
     /\ damaged' = damaged \cup {DirOf[p]}

-----------------------------------------------------------------------------
(* createWindowsVM *)

CreateWindowsVM(p) ==
  /\ pc[p] = "idle"
  /\ GoTo(p, "find-group")
  /\ outcome' = [outcome EXCEPT ![p] = "none"]
  /\ UNCHANGED <<cloud, local, file, damaged, reported, faults>>

\* findWindowsWorkerSg: a look-up that fails counts as one that finds nothing.
FindGroup(p) ==
  /\ pc[p] = "find-group"
  /\ \/ /\ group # 0
        /\ sg' = [sg EXCEPT ![p] = group]
        /\ known' = [known EXCEPT ![p] = rules[group]]
        /\ GoTo(p, "add-rules")
        /\ UNCHANGED faults
     \/ /\ IF group = 0 THEN UNCHANGED faults ELSE Fault
        /\ GoTo(p, "create-group")
        /\ UNCHANGED <<sg, known>>
  /\ UNCHANGED <<cloud, id, past, todo, ended, file, damaged, reported, outcome>>

\* Defective variant: each group gets a name of its own.
CreateAnotherGroup(p) ==
  /\ pc[p] = "create-group"
  /\ \/ /\ groups = MaxGroups
        /\ Exit(p, "error")
        /\ UNCHANGED cloud
     \/ /\ groups < MaxGroups
        /\ groups' = groups + 1
        /\ group' = groups'
        /\ sg' = [sg EXCEPT ![p] = groups']
        /\ GoTo(p, "read-group")
        /\ UNCHANGED <<vm, sgOf, rules, known, id, past, todo, ended, outcome>>
  /\ UNCHANGED <<file, damaged, reported, faults>>

\* createWindowsWorkerSg: refused while a group has the name.
CreateGroup(p) ==
  /\ pc[p] = "create-group"
  /\ \/ /\ group # 0 \/ groups = MaxGroups
        /\ Exit(p, "error")
        /\ UNCHANGED cloud
     \/ /\ group = 0 /\ groups < MaxGroups
        /\ groups' = groups + 1
        /\ group' = groups'
        /\ sg' = [sg EXCEPT ![p] = groups']
        /\ GoTo(p, "read-group")
        /\ UNCHANGED <<vm, sgOf, rules, known, id, past, todo, ended, outcome>>
  /\ UNCHANGED <<file, damaged, reported, faults>>

ReadForGroup(p) == ReadFile(p, "read-group", "write-group")

RecordGroup(p) ==
  /\ pc[p] = "write-group"
  /\ \/ WriteFile(p) /\ GoTo(p, "add-rules") /\ UNCHANGED <<local, outcome>>
     \/ ~Rewritten(p).ok /\ Exit(p, "error") /\ UNCHANGED <<file, damaged>>
  /\ UNCHANGED <<cloud, reported, faults>>

\* The rules that a group needs: traffic within the VPC, and three ports for the
\* address of the machine that wni runs on.
Rules(p) == {<<"vpc", "all">>} \cup ({Addresses[p]} \X {"winrm", "ssh", "rdp"})

\* Defective variant: the missing rules replace the ones that are there.
AddRulesOver(p) ==
  LET missing == Rules(p) \ known[p]
  IN  /\ pc[p] = "add-rules"
      /\ IF missing = {} \/ group # sg[p] THEN UNCHANGED rules
         ELSE rules' = [rules EXCEPT ![sg[p]] = missing]
      /\ GoTo(p, "run-instance")
      /\ UNCHANGED <<vm, sgOf, group, groups, local, file, damaged, reported, outcome, faults>>

\* verifyAndUpdateSg: one request for all rules that the look-up did not show,
\* which EC2 refuses when one of them is there by now or the group is gone.
\* The error is not looked at.
AddRules(p) ==
  LET missing == Rules(p) \ known[p]
      refused == group # sg[p] \/ missing \intersect rules[sg[p]] # {}
  IN  /\ pc[p] = "add-rules"
      /\ \/ /\ missing = {} \/ refused
            /\ UNCHANGED <<rules, faults>>
         \/ /\ missing # {} /\ ~refused
            /\ rules' = [rules EXCEPT ![sg[p]] = @ \cup missing]
            /\ UNCHANGED faults
         \/ /\ missing # {} /\ ~refused
            /\ Fault
            /\ UNCHANGED rules
      /\ GoTo(p, "run-instance")
      /\ UNCHANGED <<vm, sgOf, group, groups, local, file, damaged, reported, outcome>>

\* createInstance: refused when the group is gone.
RunInstance(p) ==
  /\ pc[p] = "run-instance"
  /\ \/ /\ group # sg[p] \/ "none" \notin {vm[i] : i \in InstanceIDs}
        /\ Exit(p, "error")
        /\ UNCHANGED cloud
     \/ /\ group = sg[p]
        /\ \E i \in InstanceIDs :
             /\ vm[i] = "none"
             /\ \A j \in 1..(i - 1) : vm[j] # "none"
             /\ vm' = [vm EXCEPT ![i] = "pending"]
             /\ sgOf' = [sgOf EXCEPT ![i] = sg[p]]
             /\ id' = [id EXCEPT ![p] = i]
        /\ GoTo(p, "await-instance")
        /\ UNCHANGED <<rules, group, groups, sg, known, past, todo, ended, outcome>>
  /\ UNCHANGED <<file, damaged, reported, faults>>

\* waitUntilInstanceRunning and the calls that need a running instance, the one
\* for its password in a loop: an instance that is being terminated ends it.
AwaitInstance(p) ==
  /\ pc[p] = "await-instance"
  /\ vm[id[p]] # "pending"
  /\ IF vm[id[p]] = "running"
       THEN GoTo(p, "connect") /\ UNCHANGED <<local, outcome>>
       ELSE Exit(p, "error")
  /\ UNCHANGED <<cloud, file, damaged, reported, faults>>

\* GetSSHClient: only an instance that lets this machine in can be reached.
Connect(p) ==
  /\ pc[p] = "connect"
  /\ IF vm[id[p]] = "running" /\ <<Addresses[p], "ssh">> \in rules[sg[p]]
       THEN GoTo(p, "read-instance") /\ UNCHANGED <<local, outcome>>
       ELSE Exit(p, "error")
  /\ UNCHANGED <<cloud, file, damaged, reported, faults>>

ReadForInstance(p) == ReadFile(p, "read-instance", "write-instance")

RecordInstance(p) ==
  /\ pc[p] = "write-instance"
  /\ \/ /\ WriteFile(p)
        /\ reported' = [reported EXCEPT ![DirOf[p]] = @ \cup {id[p]}]
        /\ Exit(p, "created")
     \/ ~Rewritten(p).ok /\ Exit(p, "error") /\ UNCHANGED <<file, damaged, reported>>
  /\ UNCHANGED <<cloud, faults>>

-----------------------------------------------------------------------------
(* DestroyWindowsVMs *)

\* Refused when the file cannot be read.
DestroyWindowsVMs(p) ==
  /\ pc[p] = "idle"
  /\ LET list == file[DirOf[p]]
     IN  /\ Readable(list)
         /\ past' = [past EXCEPT ![p] = list]
         /\ todo' = [todo EXCEPT ![p] = list.instances]
  /\ GoTo(p, "terminate")
  /\ outcome' = [outcome EXCEPT ![p] = "none"]
  /\ UNCHANGED <<cloud, file, damaged, sg, known, id, ended, reported, faults>>

\* The loop that p is in is over, and the next one begins.
NextLoop(p, label, list) ==
  /\ todo[p] = <<>>
  /\ GoTo(p, label)
  /\ todo' = [todo EXCEPT ![p] = list]
  /\ UNCHANGED <<cloud, ended, faults>>

\* TerminateInstance: a call that fails is logged, and the loop goes on with what
\* remains; it fails for an instance that EC2 has forgotten, and may fail for any.
TerminateOne(p, i, rest) ==
  /\ \/ /\ vm[i] \in Living
        /\ vm' = [vm EXCEPT ![i] = "shutting-down"]
        /\ todo' = [todo EXCEPT ![p] = Tail(@)]
        /\ UNCHANGED faults
     \/ /\ vm[i] \in Living
        /\ Fault
        /\ todo' = [todo EXCEPT ![p] = rest]
        /\ UNCHANGED vm
     \/ /\ vm[i] \notin Living
        /\ todo' = [todo EXCEPT ![p] = IF vm[i] = "gone" THEN rest ELSE Tail(@)]
        /\ UNCHANGED <<vm, faults>>
  /\ UNCHANGED <<sgOf, rules, group, groups, pc, ended>>

\* Defective variant: the loop ends at the first call that fails.
TerminateUntilError(p) ==
  /\ pc[p] = "terminate"
  /\ \/ NextLoop(p, "await-end", past[p].instances)
     \/ todo[p] # <<>> /\ TerminateOne(p, Head(todo[p]), <<>>)
  /\ UNCHANGED <<file, damaged, sg, known, id, past, reported, outcome>>

Terminate(p) ==
  /\ pc[p] = "terminate"
  /\ \/ NextLoop(p, "await-end", past[p].instances)
     \/ todo[p] # <<>> /\ TerminateOne(p, Head(todo[p]), Tail(todo[p]))
  /\ UNCHANGED <<file, damaged, sg, known, id, past, reported, outcome>>

Drop(p) == todo' = [todo EXCEPT ![p] = Tail(@)]

End(p, i) == ended' = [ended EXCEPT ![p].instances = Append(@, i)]

\* Defective variant: every instance counts as terminated.
AwaitNothing(p) ==
  /\ pc[p] = "await-end"
  /\ \/ NextLoop(p, "delete-group", past[p].groups)
     \/ /\ todo[p] # <<>>
        /\ Drop(p)
        /\ End(p, Head(todo[p]))
        /\ UNCHANGED <<cloud, pc, faults>>
  /\ UNCHANGED <<file, damaged, sg, known, id, past, reported, outcome>>

\* waitUntilInstanceTerminated: until the instance is terminated.  It gives up on
\* an instance that EC2 has forgotten, on one that does not end, and on any when
\* the call fails.
AwaitTerminated(p) ==
  /\ pc[p] = "await-end"
  /\ \/ NextLoop(p, "delete-group", past[p].groups)
     \/ /\ todo[p] # <<>>
        /\ Drop(p)
        /\ LET i == Head(todo[p])
           IN  \/ /\ vm[i] = "terminated"
                  /\ End(p, i)
                  /\ UNCHANGED faults
               \/ /\ vm[i] \in {"gone", "pending", "running"}
                  /\ UNCHANGED <<ended, faults>>
               \/ /\ vm[i] \in {"terminated", "shutting-down"}
                  /\ Fault
                  /\ UNCHANGED ended
        /\ UNCHANGED <<cloud, pc>>
  /\ UNCHANGED <<file, damaged, sg, known, id, past, reported, outcome>>

InUse(g) == \E i \in InstanceIDs : sgOf[i] = g /\ vm[i] \in Living

\* Defective variant: a group in use is left alone, and counts as deleted.
DeleteSGOrNot(p) ==
  /\ pc[p] = "delete-group"
  /\ \/ NextLoop(p, "read-rest", <<>>)
     \/ /\ todo[p] # <<>> /\ InUse(Head(todo[p]))
        /\ Drop(p)
        /\ ended' = [ended EXCEPT ![p].groups = Append(@, Head(todo[p]))]
        /\ UNCHANGED <<cloud, pc, faults>>
     \/ /\ todo[p] # <<>> /\ ~InUse(Head(todo[p]))
        /\ GoTo(p, "delete-sg")
        /\ UNCHANGED <<cloud, todo, ended, faults>>
  /\ UNCHANGED <<file, damaged, sg, known, id, past, reported, outcome>>

\* DeleteSG: first isSGInUse, and a group in use is left alone, as is one for which
\* the question fails.
DeleteSG(p) ==
  /\ pc[p] = "delete-group"
  /\ \/ NextLoop(p, "read-rest", <<>>)
     \/ /\ todo[p] # <<>>
        /\ IF InUse(Head(todo[p])) THEN UNCHANGED faults ELSE Fault
        /\ Drop(p)
        /\ UNCHANGED <<cloud, pc, ended>>
     \/ /\ todo[p] # <<>> /\ ~InUse(Head(todo[p]))
        /\ GoTo(p, "delete-sg")
        /\ UNCHANGED <<cloud, todo, ended, faults>>
  /\ UNCHANGED <<file, damaged, sg, known, id, past, reported, outcome>>

\* Then DeleteSecurityGroup, which EC2 refuses for a group that is gone, or that an
\* instance has come to use since the question.
DeleteSecurityGroup(p) ==
  LET g == Head(todo[p])
  IN  /\ pc[p] = "delete-sg"
      /\ \/ /\ group = g /\ ~InUse(g)
            /\ group' = 0
            /\ rules' = [rules EXCEPT ![g] = {}]
            /\ ended' = [ended EXCEPT ![p].groups = Append(@, g)]
            /\ UNCHANGED faults
         \/ /\ IF group # g \/ InUse(g) THEN UNCHANGED faults ELSE Fault
            /\ UNCHANGED <<group, rules, ended>>
      /\ Drop(p)
      /\ GoTo(p, "delete-group")
      /\ UNCHANGED <<vm, sgOf, groups, file, damaged, sg, known, id, past, reported, outcome>>

ReadForRest(p) == ReadFile(p, "read-rest", "write-rest")

\* The command succeeds whether or not the file could be read and updated.
RecordRest(p) ==
  /\ pc[p] = "write-rest"
  /\ WriteFile(p) \/ (~Rewritten(p).ok /\ UNCHANGED <<file, damaged>>)
  /\ Exit(p, "destroyed")
  /\ UNCHANGED <<cloud, reported, faults>>

-----------------------------------------------------------------------------
(* DestroyWindowsVM, of an instance that create has reported *)

Reported == UNION {reported[d] : d \in Dirs}

DestroyWindowsVM(p) ==
  /\ pc[p] = "idle"
  /\ \E i \in Reported : todo' = [todo EXCEPT ![p] = <<i>>]
  /\ GoTo(p, "terminate-one")
  /\ outcome' = [outcome EXCEPT ![p] = "none"]
  /\ UNCHANGED <<cloud, file, damaged, sg, known, id, past, ended, reported, faults>>

\* A call that fails ends the command; the file is not looked at.
TerminateTheOne(p) ==
  LET i == Head(todo[p])
  IN  /\ pc[p] = "terminate-one"
      /\ \/ /\ vm[i] # "gone"
            /\ vm' = [vm EXCEPT ![i] = IF @ \in Living THEN "shutting-down" ELSE @]
            /\ GoTo(p, "await-one")
            /\ UNCHANGED <<local, outcome>>
         \/ /\ vm[i] = "gone"
            /\ Exit(p, "error")
            /\ UNCHANGED vm
      /\ UNCHANGED <<sgOf, rules, group, groups, file, damaged, reported, faults>>

AwaitTheOne(p) ==
  LET i == Head(todo[p])
  IN  /\ pc[p] = "await-one"
      /\ vm[i] \in {"terminated", "gone"}
      /\ Exit(p, IF vm[i] = "gone" THEN "error" ELSE "destroyed-one")
      /\ UNCHANGED <<cloud, file, damaged, reported, faults>>

-----------------------------------------------------------------------------
(* Faults *)

\* A call fails whose error ends the command.
CallFails(p) ==
  /\ pc[p] \in {"find-group", "create-group", "run-instance", "await-instance", "connect",
                "terminate-one", "await-one"}
  /\ Fault
  /\ Exit(p, "error")
  /\ UNCHANGED <<cloud, file, damaged, reported>>

\* Writing or removing the file fails, which ends create, and which destroy logs.
WriteFails(p) ==
  /\ pc[p] \in Writing /\ Rewritten(p).ok
  /\ Fault
  /\ StopWriting(p)
  /\ Exit(p, IF pc[p] = "write-rest" THEN "destroyed" ELSE "error")
  /\ UNCHANGED <<cloud, reported>>

\* wni is killed.
Killed(p) ==
  /\ pc[p] # "idle"
  /\ Fault
  /\ StopWriting(p)
  /\ Exit(p, "killed")
  /\ UNCHANGED <<cloud, reported>>

-----------------------------------------------------------------------------
(* EC2 *)

Change(i, from, to) ==
  /\ vm[i] = from
  /\ vm' = [vm EXCEPT ![i] = to]
  /\ UNCHANGED <<sgOf, rules, group, groups, local, file, damaged, pc, reported, outcome, faults>>

ComesUp(i)    == Change(i, "pending", "running")
Terminates(i) == Change(i, "shutting-down", "terminated")

\* A terminated instance is forgotten after some time.
IsForgotten(i) ==
  /\ Cardinality({j \in InstanceIDs : vm[j] = "gone"}) < MaxForgets
  /\ Change(i, "terminated", "gone")

Create(p) ==
  \/ FindGroup(p) \/ CreateGroup(p) \/ ReadForGroup(p) \/ RecordGroup(p)
  \/ AddRules(p) \/ RunInstance(p) \/ AwaitInstance(p) \/ Connect(p)
  \/ ReadForInstance(p) \/ RecordInstance(p)

Destroy(p) ==
  \/ Terminate(p) \/ AwaitTerminated(p) \/ DeleteSG(p) \/ DeleteSecurityGroup(p)
  \/ ReadForRest(p) \/ RecordRest(p) \/ TerminateTheOne(p) \/ AwaitTheOne(p)

EC2 == \E i \in InstanceIDs : ComesUp(i) \/ Terminates(i) \/ IsForgotten(i)

Next ==
  \/ \E p \in Processes :
       \/ CreateWindowsVM(p) \/ Create(p)
       \/ DestroyWindowsVMs(p) \/ DestroyWindowsVM(p) \/ Destroy(p)
       \/ CallFails(p) \/ WriteFails(p) \/ Killed(p)
  \/ EC2

Spec == Init /\ [][Next]_vars

\* The operator keeps running destroy in every directory; a command that runs goes
\* on, and EC2 brings instances up and terminates them.
Fairness ==
  /\ \A p \in Processes :
       WF_vars(Create(p)) /\ WF_vars(Destroy(p)) /\ SF_vars(DestroyWindowsVMs(p))
  /\ \A i \in InstanceIDs : WF_vars(ComesUp(i)) /\ WF_vars(Terminates(i))

FairSpec == Spec /\ Fairness

-----------------------------------------------------------------------------
(* What holds of the cloud and the files *)

\* The shape of the state; a process holds a group and an instance that were
\* created, and only while it runs.
TypeOK ==
  /\ vm \in [InstanceIDs -> Living \cup {"none", "terminated", "gone"}]
  /\ \A i \in InstanceIDs : sgOf[i] \in 0..groups /\ (vm[i] = "none" <=> sgOf[i] = 0)
  /\ group \in 0..groups /\ groups \in 0..MaxGroups
  /\ \A g \in GroupIDs : rules[g] # {} => g = group
  /\ \A p \in Processes :
       /\ sg[p] \in 0..groups
       /\ id[p] # 0 => vm[id[p]] # "none" /\ sgOf[id[p]] = sg[p]
       /\ pc[p] = "idle" => sg[p] = 0 /\ id[p] = 0 /\ todo[p] = <<>>

\* Whatever create has reported to the operator is in the file of its directory, from
\* which destroy finds it, until it is terminated: failing calls, in create or in
\* destroy, kills, groups in use and what EC2 forgets do not make wni lose an instance
\* that somebody counts on it to remove.  It loses them in one way: the file is
\* overwritten by a command that could not read it, or read it before another command
\* changed it, or is left half written.
ReportedIsRecorded ==
  \A d \in Dirs \ damaged : \A i \in reported[d] :
    vm[i] \in Living => i \in InstancesIn(file[d])

\* As long as an instance that create has reported lives, its security group lets
\* in the machine of one of the operators, so that somebody can work on it: no
\* later create, and no destroy from another directory, takes that rule away.
ReportedIsReachable ==
  \A i \in Reported : vm[i] \in Living =>
    \E p \in Processes : <<Addresses[p], "ssh">> \in rules[sgOf[i]]

\* A command finishes with a file that is no longer what it read.
OverwritesUnseen(d) ==
  \E p \in Processes :
    DirOf[p] = d /\ pc[p] \in Writing /\ pc'[p] # pc[p] /\ past[p] # file[d]

\* wni forgets an instance only when it is terminated, and a security group only
\* when it is deleted, unless what it writes is not based on what is in the file or
\* writing stops half way: what destroy counts as ended has ended, whatever other
\* commands have done to the instance or the group since it looked.
ForgetsOnlyTheDead ==
  [][\A d \in Dirs :
       \/ /\ \A i \in InstancesIn(file[d]) \ InstancesIn(file'[d]) : vm[i] \notin Living
          /\ group \notin GroupsIn(file[d]) \ GroupsIn(file'[d])
       \/ file'[d] = Unparsable
       \/ OverwritesUnseen(d)]_vars

\* The operator who keeps running destroy gets rid of every instance that is in his
\* file and stays there, whatever is in the file besides and whatever failed before.
DestroyConverges ==
  \A d \in Dirs : \A i \in InstanceIDs :
    i \in InstancesIn(file[d]) ~> vm[i] \notin Living \/ i \notin InstancesIn(file[d])

-----------------------------------------------------------------------------
(* What the README and the comments claim *)

\* "The IDs of created instance and security group are saved to the
\* windows-node-installer.json file": with no command running, and none killed,
\* every instance that wni created, and that is not terminated, is in a file.
CreatedIsSaved ==
  (\A p \in Processes : pc[p] = "idle" /\ outcome[p] # "killed") =>
    \A i \in InstanceIDs : vm[i] \in Living => \E d \in Dirs : i \in InstancesIn(file[d])
=============================================================================
