---------------------------- MODULE AzureProvider ----------------------------
(***************************************************************************)
(* wni azure create and wni azure destroy: CreateWindowsVM,                *)
(* DestroyWindowsVM and DestroyWindowsVMs of                               *)
(* tools/windows-node-installer/pkg/cloudprovider/azure/vm.go, one step    *)
(* per call that changes Azure or the windows-node-installer.json file, or *)
(* whose answer is used later, with the calls failing and wni being killed *)
(* anywhere.                                                               *)
(*                                                                         *)
(* A Windows VM is made of four resources that are created one by one: a   *)
(* public address, a network interface (NIC), the VM and its disk.  The VM *)
(* is known by its name only; the rest is found by asking Azure for it.    *)
(* All VMs share the network security group (NSG) of the worker subnet.    *)
(*                                                                         *)
(* Azure is modelled from how the code uses it: it refuses to delete what  *)
(* another resource is attached to, a deletion that it has accepted may    *)
(* still fail, VMs and NICs take time to go, and the rules of the NSG are  *)
(* written one at a time, as a whole.                                      *)
(***************************************************************************)
EXTENDS InstallerInfo

CONSTANTS
  Processes,    \* operators, each with a directory of his own
  Addresses,    \* process |-> what GetMyIP returns
  Flags,        \* which of --nicName and --ipName an operator may give
  GivenPooled,  \* whether the given NIC is behind the workers' load balancer
  FoundRules,   \* the rules that the NSG may have before wni runs
  NoFile,       \* nothing has been read
  MaxVMs,       \* bound on the VM names ever drawn
  MaxFaults     \* bound on calls that fail and on kills

ASSUME AzureAssumption ==
  /\ DOMAIN Addresses = Processes
  /\ Flags \subseteq SUBSET {"nic", "ip"}
  /\ GivenPooled \in BOOLEAN
  /\ {MaxVMs, MaxFaults} \subseteq Nat
  /\ NoFile \notin Contents

\* NICs and addresses have the name of the VM they are made for, but for the one
\* of each that the operator made himself.
VMs   == 1..MaxVMs
Given == MaxVMs + 1
Names == VMs \cup {Given}

NSG       == 1
RuleNames == {"rdp", "winrm", "vnet", "ssh"}
NoRules   == [r \in RuleNames |-> {}]
Nothing   == [vm |-> FALSE, nic |-> Blank, ip |-> Blank]

VARIABLES
  vm,        \* VM |-> its state, "none" before it is created
  nicOf,     \* VM |-> its NIC
  nic,       \* NIC |-> its state
  ipOf,      \* NIC |-> the address attached to it, or Blank
  ips,       \* the addresses that exist
  disks,     \* the VMs whose disks exist
  rules,     \* rule of the NSG |-> its list of sources; {} if it has none
  file,      \* process |-> the windows-node-installer.json of its directory
  drawn,     \* number of VM names drawn so far
  pc,        \* process |-> the next call, or "idle"
  name,      \* process |-> the name it drew, Blank in a destroy command
  flags,     \* process |-> the flags given
  known,     \* process |-> the rules collected from the NSG
  left,      \* process |-> the rules still to be written or deleted
  past,      \* process |-> the contents it read of its file, or NoFile
  todo,      \* process |-> the VMs still to be destroyed
  found,     \* process |-> what the look-ups told of the first of them
  log,       \* process |-> what it could not destroy, by its log
  failed,    \* the NICs, addresses and disks that an accepted deletion failed to delete
  outcome,   \* process |-> how its last command ended
  faults     \* number of faults so far

cloud == <<vm, nicOf, nic, ipOf, ips, disks, rules>>
local == <<name, flags, known, left, past, todo, found, log>>
vars  == <<cloud, local, file, drawn, pc, failed, outcome, faults>>

Init ==
  /\ vm = [i \in VMs |-> "none"]
  /\ nicOf = [i \in VMs |-> Blank]
  /\ nic = [n \in Names |-> IF n = Given THEN "there" ELSE "none"]
  /\ \E a \in {Blank, Given} : ipOf = [n \in Names |-> IF n = Given THEN a ELSE Blank]
  /\ ips = {Given}
  /\ disks = {}
  /\ rules \in FoundRules
  /\ file = [p \in Processes |-> Absent]
  /\ drawn = 0
  /\ pc = [p \in Processes |-> "idle"]
  /\ name = [p \in Processes |-> Blank]
  /\ flags = [p \in Processes |-> {}]
  /\ known = [p \in Processes |-> NoRules]
  /\ left = [p \in Processes |-> {}]
  /\ past = [p \in Processes |-> NoFile]
  /\ todo = [p \in Processes |-> <<>>]
  /\ found = [p \in Processes |-> Nothing]
  /\ log = [p \in Processes |-> {}]
  /\ failed = {}
  /\ outcome = [p \in Processes |-> "none"]
  /\ faults = 0

GoTo(p, label) == pc' = [pc EXCEPT ![p] = label]

\* The command ends, and with it the process and all that it knew.
Exit(p, result) ==
  /\ GoTo(p, "idle")
  /\ outcome' = [outcome EXCEPT ![p] = result]
  /\ name' = [name EXCEPT ![p] = Blank]
  /\ flags' = [flags EXCEPT ![p] = {}]
  /\ known' = [known EXCEPT ![p] = NoRules]
  /\ left' = [left EXCEPT ![p] = {}]
  /\ past' = [past EXCEPT ![p] = NoFile]
  /\ todo' = [todo EXCEPT ![p] = <<>>]
  /\ found' = [found EXCEPT ![p] = Nothing]
  /\ log' = [log EXCEPT ![p] = {}]

Fault == faults < MaxFaults /\ faults' = faults + 1

\* The fields NicName and IpName of the provider: what the flags gave, or what
\* constructNetworkProfile made of the VM's name.
NicName(p) == IF "nic" \in flags[p] THEN Given ELSE name[p]
IpName(p)  == IF "ip"  \in flags[p] THEN Given ELSE name[p]

Exists(i) == vm[i] \in {"creating", "running", "deleting"}

\* Azure refuses to delete what something else needs.
NICInUse(n) == \E i \in VMs : nicOf[i] = n /\ Exists(i)
IPInUse(a)  == \E n \in Names : ipOf[n] = a /\ nic[n] # "none"

-----------------------------------------------------------------------------
(* CreateWindowsVM: the rules of the NSG *)

\* A name is drawn at random: never one that was drawn before.
CreateWindowsVM(p) ==
  /\ pc[p] = "idle"
  /\ drawn < MaxVMs
  /\ drawn' = drawn + 1
  /\ name' = [name EXCEPT ![p] = drawn']
  /\ \E given \in Flags : flags' = [flags EXCEPT ![p] = given]
  /\ outcome' = [outcome EXCEPT ![p] = "none"]
  /\ GoTo(p, "get-rules")
  /\ UNCHANGED <<cloud, known, left, past, todo, found, log, file, failed, faults>>

\* updateSecurityGroup: the rules that are there are collected, but for SSH, which
\* the switch does not know.
GetRules(p) ==
  /\ pc[p] = "get-rules"
  /\ known' = [known EXCEPT ![p] = [rules EXCEPT !["ssh"] = {}]]
  /\ left' = [left EXCEPT ![p] = RuleNames]
  /\ GoTo(p, "put-rules")
  /\ UNCHANGED <<cloud, name, flags, past, todo, found, log, file, drawn, failed, outcome, faults>>

Source(p, r) == IF r = "vnet" THEN "10.0.0.0/16" ELSE Addresses[p]

\* createOrUpdate, of one rule after the other in the order of a Go map: nothing
\* if the source was there, or else the rule as it was collected, with the source.
PutRule(p) ==
  /\ pc[p] = "put-rules"
  /\ \E r \in left[p] :
       /\ left' = [left EXCEPT ![p] = @ \ {r}]
       /\ IF Source(p, r) \in known[p][r] THEN UNCHANGED rules
          ELSE rules' = [rules EXCEPT ![r] = known[p][r] \cup {Source(p, r)}]
       /\ IF left[p] # {r} THEN UNCHANGED <<pc, known>>
          ELSE GoTo(p, "create-ip") /\ known' = [known EXCEPT ![p] = NoRules]
  /\ UNCHANGED <<vm, nicOf, nic, ipOf, ips, disks, name, flags, past, todo, found, log,
                 file, drawn, failed, outcome, faults>>

-----------------------------------------------------------------------------
(* CreateWindowsVM: the resources *)

CreatePublicIP(p) ==
  /\ pc[p] = "create-ip"
  /\ IF "ip" \in flags[p] THEN UNCHANGED ips ELSE ips' = ips \cup {IpName(p)}
  /\ GoTo(p, "create-nic")
  /\ UNCHANGED <<vm, nicOf, nic, ipOf, disks, rules, local, file, drawn, failed, outcome, faults>>

\* getWorkerBackendAddressPools looks at every VM with "worker" in its name, which
\* the Windows ones have: a single one outside the load balancer is an error.
PoolsFound == \A i \in VMs : Exists(i) => nicOf[i] # Given \/ GivenPooled

\* The NIC that was given, or a new one with the address, if that is to be had;
\* looking at a VM that is going may fail.
CreateNIC(p) ==
  LET obtained == IF "nic" \in flags[p] THEN nic[Given] # "none"
                  ELSE PoolsFound /\ IpName(p) \in ips /\ ~IPInUse(IpName(p))
  IN  /\ pc[p] = "create-nic"
      /\ \/ /\ obtained
            /\ IF "nic" \in flags[p] THEN UNCHANGED <<nic, ipOf>>
               ELSE /\ nic' = [nic EXCEPT ![NicName(p)] = "there"]
                    /\ ipOf' = [ipOf EXCEPT ![NicName(p)] = IpName(p)]
            /\ GoTo(p, "create-vm")
            /\ UNCHANGED <<local, outcome>>
         \/ /\ ~obtained \/ ("nic" \notin flags[p] /\ \E i \in VMs : vm[i] = "deleting")
            /\ Exit(p, "error")
            /\ UNCHANGED <<nic, ipOf>>
      /\ UNCHANGED <<vm, nicOf, ips, disks, rules, file, drawn, failed, faults>>

\* vmClient.CreateOrUpdate, refused when the NIC is taken or on its way out.
CreateVM(p) ==
  /\ pc[p] = "create-vm"
  /\ IF nic[NicName(p)] # "there" \/ NICInUse(NicName(p))
       THEN Exit(p, "error") /\ UNCHANGED <<vm, nicOf, disks>>
       ELSE /\ vm' = [vm EXCEPT ![name[p]] = "creating"]
            /\ nicOf' = [nicOf EXCEPT ![name[p]] = NicName(p)]
            /\ disks' = disks \cup {name[p]}
            /\ GoTo(p, "await-vm")
            /\ UNCHANGED <<local, outcome>>
  /\ UNCHANGED <<nic, ipOf, ips, rules, file, drawn, failed, faults>>

AwaitVM(p) ==
  /\ pc[p] = "await-vm"
  /\ vm[name[p]] = "running"
  /\ GoTo(p, "record")
  /\ UNCHANGED <<cloud, local, file, drawn, failed, outcome, faults>>

\* ioutil.WriteFile truncates the file first: one that fails, or is cut short, may
\* leave it unparsable.
StopWriting(p) ==
  \/ UNCHANGED file
  \/ pc[p] = "record" /\ file' = [file EXCEPT ![p] = Unparsable]

\* AppendInstallerInfo: a file that cannot be read counts as none, and is written
\* over; what is refused, or cannot be written, is only logged.
Record(p) ==
  /\ pc[p] = "record"
  /\ \/ \E content \in {file[p], Unparsable} :
          LET result == Appended(content, <<name[p]>>, <<NSG>>)
          IN  /\ file' = IF result.ok THEN [file EXCEPT ![p] = result.file] ELSE file
              /\ IF content = file[p] THEN UNCHANGED faults ELSE Fault
     \/ Fault /\ StopWriting(p)
  /\ GoTo(p, "connect")
  /\ UNCHANGED <<cloud, local, drawn, failed, outcome>>

\* GetSSHClient, with the address named IpName: it must be that of the VM's NIC,
\* and the NSG must let this machine in.
Connect(p) ==
  /\ pc[p] = "connect"
  /\ IF ipOf[NicName(p)] = IpName(p) /\ Addresses[p] \in rules["ssh"]
       THEN GoTo(p, "created") /\ UNCHANGED <<local, outcome>>
       ELSE Exit(p, "error")
  /\ UNCHANGED <<cloud, file, drawn, failed, faults>>

\* wni is done; the end-to-end test goes on to destroy the VM with the same
\* provider, and without the file.
Report(p) ==
  /\ pc[p] = "created"
  /\ Exit(p, "created")
  /\ UNCHANGED <<cloud, file, drawn, failed, faults>>

DestroyOwnVM(p) ==
  /\ pc[p] = "created"
  /\ todo' = [todo EXCEPT ![p] = <<name[p]>>]
  /\ GoTo(p, "look-up")
  /\ UNCHANGED <<cloud, name, flags, known, left, past, found, log, file, drawn, failed, outcome, faults>>

-----------------------------------------------------------------------------
(* DestroyWindowsVMs and DestroyWindowsVM *)

\* Refused when the file cannot be read.
DestroyWindowsVMs(p) ==
  /\ pc[p] = "idle"
  /\ Readable(file[p])
  /\ past' = [past EXCEPT ![p] = file[p]]
  /\ todo' = [todo EXCEPT ![p] = file[p].instances]
  /\ outcome' = [outcome EXCEPT ![p] = "none"]
  /\ GoTo(p, "look-up")
  /\ UNCHANGED <<cloud, name, flags, known, left, found, log, file, drawn, failed, faults>>

\* The look-ups ask for the VM three times, for its own description, for the name
\* of its NIC, and for that of its address.  Nothing is heard of a VM once it is gone.
Heard(i) == CASE vm[i] = "gone"     -> {{}}
              [] vm[i] = "deleting" -> {{"vm"}, {"vm", "nic"}, {"vm", "nic", "ip"}}
              [] OTHER              -> {{"vm", "nic", "ip"}}

Told(i, heard) ==
  [vm  |-> "vm" \in heard,
   nic |-> IF "nic" \in heard THEN nicOf[i] ELSE Blank,
   ip  |-> IF "ip" \in heard THEN ipOf[nicOf[i]] ELSE Blank]

\* One that fails is logged, and the loop goes on, but for two that end in a nil
\* dereference: a NIC without an address, and a NIC that cannot be read.
LookUp(p) ==
  LET i == Head(todo[p])
  IN  /\ pc[p] = "look-up"
      /\ \/ /\ todo[p] = <<>>
            /\ left' = [left EXCEPT ![p] = IF past[p].groups = <<>> THEN {} ELSE RuleNames]
            /\ GoTo(p, "delete-rules")
            /\ UNCHANGED <<name, flags, known, past, todo, found, log, outcome, faults>>
         \/ /\ todo[p] # <<>>
            /\ \E heard \in Heard(i), lost \in SUBSET {"vm", "nic", "ip"} :
                 LET rest == heard \ lost
                 IN  /\ IF lost = {} THEN UNCHANGED faults
                        ELSE Fault /\ lost \subseteq heard /\ Cardinality(lost) = 1
                     /\ IF "ip" \in rest /\ ipOf[nicOf[i]] = Blank
                          THEN Exit(p, "panic")
                          ELSE /\ found' = [found EXCEPT ![p] = Told(i, rest)]
                               /\ GoTo(p, "delete-vm")
                               /\ UNCHANGED <<name, flags, known, left, past, todo, log, outcome>>
         \/ /\ todo[p] # <<>> /\ Exists(i)
            /\ Fault
            /\ Exit(p, "panic")
      /\ UNCHANGED <<cloud, file, drawn, failed>>

Log(p, what) == log' = [log EXCEPT ![p] = @ \cup {<<Head(todo[p]), what>>}]

\* A call of DestroyWindowsVM: it goes through, it is refused, or it fails; the
\* latter two are logged.  The next call follows in any case.
Attempt(p, what, granted, effect, rest) ==
  \/ granted /\ effect /\ UNCHANGED <<log, faults>>
  \/ ~granted /\ Log(p, what) /\ UNCHANGED <<rest, faults>>
  \/ granted /\ Fault /\ Log(p, what) /\ UNCHANGED rest

\* A deletion that is accepted, and fails when nobody waits for it any more.
FailsUnseen(granted, resource, rest) ==
  /\ granted
  /\ Fault
  /\ failed' = failed \cup {resource}
  /\ UNCHANGED <<rest, log>>

\* Defective variant: the deletion is not awaited.
DeleteVMUnawaited(p) ==
  LET i == Head(todo[p])
  IN  /\ pc[p] = "delete-vm"
      /\ \/ vm' = [vm EXCEPT ![i] = IF Exists(i) THEN "deleting" ELSE @] /\ UNCHANGED <<log, faults>>
         \/ Fault /\ Log(p, "vm") /\ UNCHANGED vm
      /\ GoTo(p, "detach")
      /\ UNCHANGED <<nicOf, nic, ipOf, ips, disks, rules, name, flags, known, left, past, todo, found,
                     file, drawn, failed, outcome>>

\* Defective variant: the file is to forget the VM before it is deleted.
ForgetAndDeleteVM(p) ==
  LET i == Head(todo[p])
      result == Removed(file[p], <<i>>, <<>>)
  IN  /\ pc[p] = "delete-vm"
      /\ file' = IF result.ok THEN [file EXCEPT ![p] = result.file] ELSE file
      /\ vm' = [vm EXCEPT ![i] = IF Exists(i) THEN "deleting" ELSE @]
      /\ GoTo(p, "await-gone")
      /\ UNCHANGED <<nicOf, nic, ipOf, ips, disks, rules, local, drawn, failed, outcome, faults>>

\* destroyInstance: a VM that is gone counts as deleted.
DeleteVM(p) ==
  LET i == Head(todo[p])
  IN  /\ pc[p] = "delete-vm"
      /\ \/ /\ vm' = [vm EXCEPT ![i] = IF Exists(i) THEN "deleting" ELSE @]
            /\ GoTo(p, "await-gone")
            /\ UNCHANGED <<log, faults>>
         \/ /\ Fault
            /\ Log(p, "vm")
            /\ GoTo(p, "detach")
            /\ UNCHANGED vm
      /\ UNCHANGED <<nicOf, nic, ipOf, ips, disks, rules, name, flags, known, left, past, todo, found,
                     file, drawn, failed, outcome>>

\* Defective variant: the NIC, which nobody has deleted yet, is awaited as well.
AwaitAllGone(p) ==
  /\ pc[p] = "await-gone"
  /\ LET i == Head(todo[p])
     IN  \/ vm[i] = "gone" /\ nic[nicOf[i]] = "none" /\ UNCHANGED <<log, faults>>
         \/ vm[i] # "gone" /\ Fault /\ Log(p, "vm")
  /\ GoTo(p, "detach")
  /\ UNCHANGED <<cloud, name, flags, known, left, past, todo, found, file, drawn, failed, outcome>>

\* The wait ends when the VM is gone, or is known to stay, or when it fails itself.
AwaitGone(p) ==
  LET i == Head(todo[p])
  IN  /\ pc[p] = "await-gone"
      /\ \/ vm[i] = "gone" /\ UNCHANGED <<log, faults>>
         \/ vm[i] = "running" /\ Log(p, "vm") /\ UNCHANGED faults
         \/ vm[i] # "gone" /\ Fault /\ Log(p, "vm")
      /\ GoTo(p, "detach")
      /\ UNCHANGED <<cloud, name, flags, known, left, past, todo, found, file, drawn, failed, outcome>>

\* disassociateIP updates the NIC named NicName with what was found of the other:
\* in a destroy command NicName is empty, and the update fails.
DisassociateIP(p) ==
  LET n == found[p].nic
  IN  /\ pc[p] = "detach"
      /\ Attempt(p, "detach", NicName(p) # Blank /\ n # Blank, ipOf' = [ipOf EXCEPT ![n] = Blank], ipOf)
      /\ GoTo(p, "delete-nic")
      /\ UNCHANGED <<vm, nicOf, nic, ips, disks, rules, name, flags, known, left, past, todo, found,
                     file, drawn, failed, outcome>>

\* destroyNIC, which does not wait until the NIC is gone.
DeleteNIC(p) ==
  LET n == found[p].nic
  IN  /\ pc[p] = "delete-nic"
      /\ Attempt(p, "nic", n # Blank /\ ~NICInUse(n), nic' = [nic EXCEPT ![n] = "deleting"], nic)
      /\ GoTo(p, "delete-ip")
      /\ UNCHANGED <<vm, nicOf, ipOf, ips, disks, rules, name, flags, known, left, past, todo, found,
                     file, drawn, failed, outcome>>

\* destroyIP does not wait either.
DestroyIP(p) ==
  LET a == found[p].ip
      granted == a # Blank /\ ~IPInUse(a)
  IN  /\ pc[p] = "delete-ip"
      /\ \/ Attempt(p, "ip", granted, ips' = ips \ {a}, ips) /\ UNCHANGED failed
         \/ FailsUnseen(granted, <<"ip", a>>, ips)
      /\ GoTo(p, "delete-disk")
      /\ UNCHANGED <<vm, nicOf, nic, ipOf, disks, rules, name, flags, known, left, past, todo, found,
                     file, drawn, outcome>>

\* destroyDisk, which does not wait, takes the name of the disk from the VM's
\* description, and ends in a nil dereference when there was none.
DestroyDisk(p) ==
  LET i == Head(todo[p])
  IN  /\ pc[p] = "delete-disk"
      /\ \/ /\ found[p].vm
            /\ \/ Attempt(p, "disk", ~Exists(i), disks' = disks \ {i}, disks) /\ UNCHANGED failed
               \/ FailsUnseen(~Exists(i), <<"disk", i>>, disks)
            /\ todo' = [todo EXCEPT ![p] = Tail(@)]
            /\ found' = [found EXCEPT ![p] = Nothing]
            /\ GoTo(p, IF past[p] = NoFile THEN "done" ELSE "look-up")
            /\ UNCHANGED <<name, flags, known, left, past, outcome>>
         \/ /\ ~found[p].vm
            /\ Exit(p, "panic")
            /\ UNCHANGED <<disks, failed, faults>>
      /\ UNCHANGED <<vm, nicOf, nic, ipOf, ips, rules, file, drawn>>

\* DestroyWindowsVM has returned nil to the end-to-end test.
Done(p) ==
  /\ pc[p] = "done"
  /\ Exit(p, "destroyed-one")
  /\ UNCHANGED <<cloud, file, drawn, failed, faults>>

\* deleteNSGRules: every rule, whoever needs it; none when the NSG cannot be read.
DeleteNSGRules(p) ==
  /\ pc[p] = "delete-rules"
  /\ \/ /\ left[p] = {}
        /\ GoTo(p, "forget")
        /\ UNCHANGED <<rules, left, faults>>
     \/ /\ \E r \in left[p] :
             /\ left' = [left EXCEPT ![p] = @ \ {r}]
             /\ \/ rules' = [rules EXCEPT ![r] = {}] /\ UNCHANGED faults
                \/ Fault /\ UNCHANGED rules
        /\ UNCHANGED pc
     \/ /\ left[p] = RuleNames
        /\ Fault
        /\ left' = [left EXCEPT ![p] = {}]
        /\ UNCHANGED <<rules, pc>>
  /\ UNCHANGED <<vm, nicOf, nic, ipOf, ips, disks, name, flags, known, past, todo, found, log,
                 file, drawn, failed, outcome>>

\* RemoveInstallerInfo, of all that the file names: it is removed, not rewritten.
\* The command succeeds, whatever became of the resources and of the file.
Forget(p) ==
  LET result == Removed(file[p], past[p].instances, past[p].groups)
  IN  /\ pc[p] = "forget"
      /\ \/ /\ file' = IF result.ok THEN [file EXCEPT ![p] = result.file] ELSE file
            /\ UNCHANGED faults
         \/ Fault /\ UNCHANGED file
      /\ Exit(p, "destroyed")
      /\ UNCHANGED <<cloud, drawn, failed>>

-----------------------------------------------------------------------------
(* Faults *)

\* A call fails whose error, or nil result, ends the command.
CallFails(p) ==
  /\ pc[p] \in {"get-rules", "put-rules", "create-ip", "create-nic", "create-vm",
                "await-vm", "record", "connect"}
  /\ Fault
  /\ Exit(p, "error")
  /\ UNCHANGED <<cloud, file, drawn, failed>>

\* wni is killed, in the middle of a write or not.
Killed(p) ==
  /\ pc[p] # "idle"
  /\ Fault
  /\ StopWriting(p)
  /\ Exit(p, "killed")
  /\ UNCHANGED <<cloud, drawn, failed>>

-----------------------------------------------------------------------------
(* Azure *)

VMChanges(i, from, to) ==
  /\ vm[i] = from
  /\ vm' = [vm EXCEPT ![i] = to]
  /\ UNCHANGED <<nicOf, nic, ipOf, ips, disks, rules, local, file, drawn, pc, failed, outcome>>

VMComesUp(i) == VMChanges(i, "creating", "running") /\ UNCHANGED faults
VMGoes(i)    == VMChanges(i, "deleting", "gone") /\ UNCHANGED faults
VMStays(i)   == VMChanges(i, "deleting", "running") /\ Fault

NICGoes(n) ==
  /\ nic[n] = "deleting"
  /\ nic' = [nic EXCEPT ![n] = "none"]
  /\ ipOf' = [ipOf EXCEPT ![n] = Blank]
  /\ UNCHANGED <<vm, nicOf, ips, disks, rules, local, file, drawn, pc, failed, outcome, faults>>

NICStays(n) ==
  /\ nic[n] = "deleting"
  /\ Fault
  /\ nic' = [nic EXCEPT ![n] = "there"]
  /\ failed' = failed \cup {<<"nic", n>>}
  /\ UNCHANGED <<vm, nicOf, ipOf, ips, disks, rules, local, file, drawn, pc, outcome>>

Create(p) ==
  \/ GetRules(p) \/ PutRule(p) \/ CreatePublicIP(p) \/ CreateNIC(p) \/ CreateVM(p)
  \/ AwaitVM(p) \/ Record(p) \/ Connect(p) \/ Report(p)

Destroy(p) ==
  \/ LookUp(p) \/ DeleteVM(p) \/ AwaitGone(p) \/ DisassociateIP(p) \/ DeleteNIC(p)
  \/ DestroyIP(p) \/ DestroyDisk(p) \/ Done(p) \/ DeleteNSGRules(p) \/ Forget(p)

Azure ==
  \/ \E i \in VMs : VMComesUp(i) \/ VMGoes(i) \/ VMStays(i)
  \/ \E n \in Names : NICGoes(n) \/ NICStays(n)

Next ==
  \/ \E p \in Processes :
       \/ CreateWindowsVM(p) \/ Create(p) \/ DestroyOwnVM(p)
       \/ DestroyWindowsVMs(p) \/ Destroy(p)
       \/ CallFails(p) \/ Killed(p)
  \/ Azure

Spec == Init /\ [][Next]_vars

\* Every operator keeps running destroy; a command that runs goes on, and Azure
\* does what it has accepted.
Fairness ==
  /\ \A p \in Processes :
       WF_vars(Create(p)) /\ WF_vars(Destroy(p)) /\ SF_vars(DestroyWindowsVMs(p))
  /\ \A i \in VMs : WF_vars(VMComesUp(i)) /\ WF_vars(VMGoes(i))
  /\ \A n \in Names : WF_vars(NICGoes(n))

FairSpec == Spec /\ Fairness

-----------------------------------------------------------------------------
(* What holds *)

\* The shape of the state: a VM that exists has a NIC of its own and its disk; a
\* process works on VMs that it made, or that its file names.
TypeOK ==
  /\ vm \in [VMs -> {"none", "creating", "running", "deleting", "gone"}]
  /\ nic \in [Names -> {"none", "there", "deleting"}]
  /\ \A i \in VMs : Exists(i) =>
       /\ i <= drawn /\ i \in disks /\ nic[nicOf[i]] = "there"
       /\ \A j \in VMs \ {i} : Exists(j) => nicOf[j] # nicOf[i]
  /\ ips \subseteq Names /\ disks \subseteq 1..drawn
  /\ \A p \in Processes :
       /\ name[p] \in 0..drawn
       /\ Elements(todo[p]) \subseteq {name[p]} \cup InstancesIn(file[p])
       /\ past[p] \in {NoFile, file[p]}
       /\ pc[p] = "idle" => name[p] = Blank /\ log[p] = {}

\* What destroy takes out of the file, or was asked to destroy by name, is gone,
\* with its NIC, its disk and the address that was put on a NIC made for it, or the
\* log of the command says which of them is not, or Azure accepted its deletion and
\* failed to do it: nothing else that the look-ups, the order of the deletions and
\* their failures leave behind is left without a word.  The address of a VM on a NIC
\* of the operator's is attached to nothing, so that destroy never hears of it.
ForgetsWithAWord ==
  [][\A p \in Processes, i \in VMs :
       \/ pc[p] = "forget" /\ i \in InstancesIn(file[p]) \ InstancesIn(file'[p])
       \/ pc[p] = "done" /\ i = name[p]
       => /\ vm[i] = "gone" \/ <<i, "vm">> \in log[p]
          /\ i \notin disks \/ <<i, "disk">> \in log[p] \/ <<"disk", i>> \in failed
          /\ nic[nicOf[i]] # "there" \/ <<i, "nic">> \in log[p] \/ <<"nic", nicOf[i]>> \in failed
          /\ nicOf[i] = i => i \notin ips \/ <<i, "ip">> \in log[p] \/ <<"ip", i>> \in failed]_vars

\* destroy cannot get past a VM in the file that is gone, or has no address.
Stuck(p) ==
  pc[p] = "idle" /\ \E i \in InstancesIn(file[p]) : vm[i] = "gone" \/ ipOf[nicOf[i]] = Blank

\* The operator who keeps running destroy gets what his file names out of it, in
\* spite of failures and kills, as long as it does not name a VM that destroy
\* cannot get past.  (A create may lose the file under him, see Record.)
DestroyGetsThrough ==
  \A p \in Processes, i \in VMs :
    i \in InstancesIn(file[p]) ~> i \notin InstancesIn(file[p]) \/ Stuck(p)

-----------------------------------------------------------------------------
(* What the comments claim *)

\* "DestroyWindowsVMs destroys all the resources created by the CreateWindows
\* method": when the last thing that every operator did was a destroy that
\* succeeded, nothing is left of the VMs.
DestroyLeavesNothing ==
  (\A p \in Processes : pc[p] = "idle" /\ outcome[p] = "destroyed") =>
    \A i \in VMs : ~Exists(i) /\ i \notin disks /\ nic[i] # "there" /\ i \notin ips
=============================================================================
