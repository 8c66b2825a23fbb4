# TLA+ models of windows-machine-config-bootstrapper

This directory holds TLA+ specifications of the programs in this repository, the
TLC configurations that check them on small instances, and proofs, checked by
TLAPS, of what the specifications promise for every instance. Line numbers refer to the repository at the commit the directory was written for.

- [The system](#the-system)
- [Modules](#modules)
- [The core: wmcb and the Windows services](#the-core-wmcb-and-the-windows-services)
- [The kubelet command line](#the-kubelet-command-line)
- [The files of a node](#the-files-of-a-node)
- [The tracker file](#the-tracker-file)
- [The AWS provider](#the-aws-provider)
- [The Azure provider](#the-azure-provider)
- [Runs](#runs)
- [Proofs](#proofs)
- [What is not modelled](#what-is-not-modelled)
- [Plan](#plan)

To check a run: `tlc -config Bootstrap_two.cfg MCKubeletBootstrap.tla`. To check
the proofs of a module: `tlapm KubeletBootstrapProofs.tla`, and so for each module
of the proofs column below.

## The system

The repository has two programs. **wmcb** runs on a Windows host and makes it a
node of an OpenShift cluster: it installs the kubelet as a Windows service and
later gives it its CNI configuration. **wni** (windows-node-installer) runs on an
administrator's machine and creates and destroys the Windows instances in a
cloud. A test framework and an Ansible playbook drive both.

| part | state it keeps | operations | talks to |
|---|---|---|---|
| **wmcb commands** (`cmd/bootstrapper`) | none; one process per command | `initialize-kubelet`, `configure-cni` | the bootstrapper; exit code and success message to the operator |
| **bootstrapper** (`pkg/bootstrapper/bootstrapper.go`) | handles (`kubeletSVC`, `svcMgr`), `cni`, paths | `InitializeKubelet`, `Configure`, `Disconnect` | SCM, file system |
| **kubelet service** (`pkg/bootstrapper/kubelet.go`) | `obj`, `dependents` handles | `start`, `stop`, `refresh`, `remove`, `stopAndRemove`, `control` | SCM |
| **Windows SCM** (external) | registrations, handles, service states | create, delete, start, stop, query, change | wmcb, the services, other programs |
| **ignition translation** (`bootstrapper.go:230-387`) | files below `installDir`, `kubeletArgs` | `parseIgnitionFileContents`, `translateFile`, `copyFile` | file system |
| **kubelet command line** (`bootstrapper.go:723-814`) | the service's `BinaryPathName` | deconstruct, update, reconstruct | the SCM registration |
| **tracker** (`tools/windows-node-installer/pkg/resource`) | `windows-node-installer.json` | append, read, remove; credential files | the cloud providers |
| **AWS provider** (`pkg/cloudprovider/aws`) | instances, security group and its rules, the tracker file | `CreateWindowsVM`, `DestroyWindowsVMs`, `DestroyWindowsVM` | EC2, tracker, SSH |
| **Azure provider** (`pkg/cloudprovider/azure`) | VM, NIC, address, disk, NSG rules, the tracker file | the same three | ARM, tracker, SSH |
| **test framework** (`internal/test`) | MachineSet, list of VMs, credentials | `Setup`, `TearDown`, remote commands | cluster API, WinRM, SSH |
| **WSU playbook** (`tools/ansible`) | none | runs both wmcb commands, waits for the node | wmcb, the cluster |

What is hard in them, and what makes each part correct:

- *wmcb and the services.* The code is sequential, but the services are not: a
  service changes state by itself between any two calls, `DeleteService` only
  marks a registration, a stop request outlives the command that gave up waiting
  for it, a died kubelet is restarted by the SCM, a second wmcb may run, and wmcb
  may be killed or the host rebooted anywhere. Correct means: one registration,
  from one ignition file; no process of an older one beside it; configuration
  read is still current when written back; success messages are true; and
  repeating the command gets a node out of whatever an interrupted run left.
- *Files and ignition translation.* Files are overwritten in place, block by
  block, and the arguments of the service come from the same pass over the
  ignition file that writes the files. Correct means: a registered service has
  its files, and after success each file is what the inputs, and nothing but what the
  code leaves in place, make it.
- *Command line.* It is taken apart and put together by every `configure-cni`,
  in Go's arbitrary map order. Correct means: the kubelet sees the CNI options
  changed and nothing else.
- *Providers and tracker.* Every resource that is created has to be found again
  by a later process that has nothing but the file; calls fail and processes die
  between creating and recording, and between destroying and forgetting.
- *Test framework.* Waits, retries and tear-down of what was set up, after a
  set-up that failed half-way.

`PROJECT.json` lists each of these hazards with its line and with the property
that would notice.

## Modules

| module | models | checked by | proofs |
|---|---|---|---|
| `ServiceManager` | the SCM, as far as wmcb relies on it | (part of `KubeletBootstrap`) | |
| `KubeletBootstrap` | wmcb processes, call by call | `MCKubeletBootstrap` | `KubeletBootstrapProofs` |
| `NodeService` | abstract: what wmcb promises the operator | as a property of two modules | refinement proved for both |
| `KubeletCommand` | `updateKubeletArgs` | `MCKubeletCommand` | |
| `KubeletOptions` | abstract: what the kubelet sees of a command line | as a property | |
| `NodeFiles` | the files, the ignition file and the command line together | `MCNodeFiles` | `NodeFilesProofs` |
| `InstallerInfo` | operators: the tracker file's contents and its functions | through `TrackerFile` and the providers | `InstallerInfoProofs` (lemmas) |
| `TrackerFile` | the tracker file under any sequence of calls | `MCTrackerFile` | `TrackerFileProofs` |
| `ResourceTracker` | abstract: two sets of identifiers | as a property | refinement proved |
| `AWSProvider` | `wni aws create` and `wni aws destroy`, call by call | `MCAWSProvider` | `AWSProviderProofs` |
| `AzureProvider` | `wni azure create` and `wni azure destroy`, call by call | `MCAzureProvider` | `AzureProviderProofs` |
| `SetInduction` | nothing of the code: induction over the naturals, as a fact about sets | | (lemmas for all but the core's) |

`KubeletBootstrap` EXTENDS `ServiceManager`; `TrackerFile`, `AWSProvider` and
`AzureProvider` EXTEND `InstallerInfo`; the abstract modules are instantiated
with refinement mappings. An operator called a *defective variant* in a comment is not part of a
specification: put in place of the operator that follows it, it makes one of the
properties fail, which shows that the property depends on that piece of code.

## The core: wmcb and the Windows services

`KubeletBootstrap` follows the two commands from `NewWinNodeBootstrapper` to the
success message. `pc[p]` names the call that process `p` makes next, and every
call is one action.

| state | in the code |
|---|---|
| `image`, `marked`, `recovery` | the service registration: `BinaryPathName`, marked for deletion, recovery actions |
| `kubelet`, `proc` | state of the service; the command line its live process was started with |
| `overlay`, `deps[p]` | the dependent service `hybrid-overlay-node`; whether `kubeletService.dependents` has it |
| `handles` | who has the kubelet service open: `kubeletService.obj`, or a program outside |
| `conf[p]` | the `mgr.Config` that the run read, or the command line it is about to register |
| `caller[p]` | which of `Configure`, `refresh`, `stopAndRemove` called `stop()` |
| `restartDue` | the SCM's recovery restart of a kubelet that died |

A command line is abstracted to the ignition file it came from and whether it has
the CNI options; the next two modules look inside. `serviceWaitTime` is modelled
by `StopTimesOut`: the wait may end at any time, without an effect on the
service, which stops later. The wait in `refreshServiceManager` is taken to be
long enough for the SCM to drop a registration that it *can* drop (`Reconnect`
waits for `~CanReap`), not for anything else.

Faults are actions: `api` (any call fails without effect, or `UpdateConfig` after
its effect), `timeout`, `kill`, `crash` of a service, `reboot`, and `outsider`,
a program that holds a handle. `MaxFaults` bounds them, time-outs excepted.

Safety: `NoStrayKubelet`, `ConfigNotStale`, `OnlyGainsCNI`, `SuccessIsTruthful`,
for every operator and all faults; `ImplementsNodeService`, the refinement of the
abstract promise; `SuccessMeansServing` and `OverlayRestarted` for an operator
who lets the services settle before running wmcb (`PatientOperator`), as the
playbook does (`tools/ansible/tasks/wsu/main.yaml:276` and `:427`). The
restriction is needed: run `refresh` shows what happens otherwise. There,
`configure-cni` meets a kubelet that is still `StartPending`; `isRunning` is
false, so `stop()` does nothing and returns nil; the new command line is
registered; `start()` waits for nothing either, and success is reported for a
kubelet that runs with the old command line until something restarts it. For the
same reason `stop()` returns to `Configure` with the kubelet alive, although its
comment (`kubelet.go:89`) says it ensures that the service is stopped.

Liveness: `CommandTerminates`, `RetriesSucceed` and `BothSucceed`. Fairness assumes that a
process that runs goes on running (`WF` of its steps), that the SCM completes
what is pending (`WF`), that a marked registration is dropped if it becomes
droppable again and again (`SF` of `Reap`: a wmcb that is started over and over
opens and closes its handle each time), that a program outside closes its handle
in the end, and that the operator runs the command again. Nothing assumes that a
fault happens or that a wait is long enough, and no fairness is put on the
operator's waiting.

`RetriesSucceed` is about `initialize-kubelet` alone. `BothSucceed` is about the
operator who repeats both commands in any order, as one does after
`configure-cni` gave up with the kubelet stopped (`bootstrapper.go:591` returns
without starting it again): each of the two succeeds again and again
(`BothFairSpec`, strong fairness of each command). It has a premise that
`RetriesSucceed` does not need: from some time on, services stop within
`serviceWaitTime`. Without it, `configure-cni` may time out in `stop()` each
time, find the kubelet started again by an `initialize-kubelet` in between, and
never get to write.

## The kubelet command line

`KubeletCommand` models `deconstructKubeletCmd`, the update, and
`reconstructKubeletCmd` on lines that are sequences of words, each a sequence of
pieces around `=`. That is the level on which the code can go wrong: values that
contain `=`, options given twice, switches, empty words between two spaces, the
order of a Go map. `ImplementsKubeletOptions` says that the kubelet sees the CNI
options set and nothing else changed; `OnlyGrowsByCNI`, that running
`configure-cni` any number of times does not make the line grow;
`StaysEditable`, that the next run finds a line it can edit. The run starts from
every line of at most four words after the program, out of six kinds of word.
`CHECK_DEADLOCK FALSE` is stated because a line without `kubelet.exe` is refused
for ever. Observed and allowed: a line without switches gets a second space.

## The files of a node

`NodeFiles` runs one wmcb at a time, with service calls as single steps, and
writes files block by block. What the service calls leave behind is kept: a
service that cannot be opened goes unnoticed (`bootstrapper.go:184`), and
`initialize-kubelet` then writes beside it (`unseen`); removing a service only
marks it (`marked`), and Windows drops it some time after wmcb has closed its
handle (`Unregistered`), before, while or after files are written, or too late
for `CreateService`, or `UpdateConfig`, which then fails. An ignition file is a record: whether the parsers
take it, the options of its kubelet unit, its files. `disk` maps paths to
sequences of blocks, `jobs` are the files still to be written and `at` is the
position in the open one. `Interrupted` ends a command between any two blocks.
`before` is a history variable, the disk that the command found; the code has
nothing like it, and no guard reads it.

`RegisteredIsComplete`: a registration is never found beside a truncated
`kubelet.conf` or half of a `kubelet.exe`, unless it went unseen or is marked; in
those two cases the code does write beside it. `InitializedFromInputs` and
`ConfiguredFromPackage`: what success means for the disk and the line. They
determine every file to its last block: a file that the command wrote in whole is
its source; one that was copied is its source and, behind it, the end of the longer
file that was there (`CopyOf`); every other file is `AsBefore`, which is also what
becomes of a translated file that the new ignition file lacks.
`ImplementsNodeService`: the same promise as in the core, with the options
themselves as the command line. Two blocks, two kubelets and two packages of
different lengths are enough to make a new file shorter or longer than the one it
replaces; two failures, to interrupt the run that was to repair an interrupted one.
The five ignition files are an AWS one, an Azure one with its `cloud.conf`, one
whose unit names a `cloud.conf` that it lacks, one with a unit without contents,
and one with a file that cannot be decoded.

In two places the properties state what the code does against a comment of its own,
which would be violated here. The `--cloud-config` argument is added whether or not
the ignition file has the file (`bootstrapper.go:354`); the comment at
`bootstrapper_test.go:298` says that it is added only if the file is present.
`InitializedFromInputs` has no exception for it: the option names a file that is
`AsBefore`, or absent. And `copyFile` (`bootstrapper.go:619`) opens without
`O_TRUNC`, so that a shorter plugin keeps the tail of the longer one it replaces;
the comment of `copyFiles` says that it copies the binaries. `CopyOf` is what it does.

Assumed of the constants: `--cloud-config` never names a file that wmcb calls
`kubelet.conf` or `kubelet.exe`, nor one of the two files it translates anyway
(`ConfNamesAssumption`; nothing in the code checks the former, and then two inputs
would be written to one path); what `createKubeletService` gives every kubelet does
not overlap with what it takes from the unit or gets from `configure-cni`
(`BaseOptionsAssumption`); no path is twice in an ignition file, as its validation
demands, and a directory has no name twice (`FilesAssumption`).

One more observation, made while translating `parseIgnitionFileContents`: the check
of the base name at line 345 can never refuse, since line 103's regular expression
only matches paths that end in `conf`; `TestCloudConfInvalidNames` passes because the
ignition parser rejects the data URL in its input.

## The tracker file

`InstallerInfo` defines what `tracker.go` does with the contents of
`windows-node-installer.json`: `Absent`, `Unparsable`, or two sequences of
identifiers. Identifiers are numbers, for their order. `TrackerFile` applies
`AppendInstallerInfo` and `RemoveInstallerInfo` in any order with any lists.
`ImplementsResourceTracker`: sorting, bisecting, inserting and deleting in the
two sequences is adding to and removing from two sets, all or nothing, and fails
exactly when an identifier to be added is there or one to be removed is not.
`FileNamesSomething`: the file is gone as soon as it names nothing, as
`test/e2e/aws_test.go:467` expects. Three instances give every position in a list
(first, middle, last, beyond) to the binary search.

Reading and writing the file succeed here, and are one step with what comes
between. In the code they may fail, be cut short (`ioutil.WriteFile` truncates
first) and interleave with those of another process; all that is in the two
providers, where the file is one part of the state.

## The AWS provider

`AWSProvider` has one action for each call that changes EC2 or the file, or
whose answer matters later: find or create the security group, record it, add
rules, run the instance, wait, connect, record it; and for destroy: terminate
each, await each, delete each group, update the file. Look-ups that change
nothing are merged with the step they precede. Processes work in directories of
their own or in one (`DirOf`), on one cluster, so they share the security group.

The file is read and written in separate steps, as in `tracker.go`. A read that
fails is a step too, and has the effect of finding the file unparsable:
`AppendInstallerInfo` takes any error for a file that is not there and writes a new
one (`tracker.go:27`), `RemoveInstallerInfo` gives up, which `destroy` only logs. A
write that fails, or a kill while writing, leaves the file as it was or `Unparsable`
(`StopWriting`), since `ioutil.WriteFile` truncates first. `isSGInUse` and
`DeleteSecurityGroup` (`ec2.go:1071-1081`) are two steps (`DeleteSG`,
`DeleteSecurityGroup`), between which another process may use the group.

`damaged` is a history variable: the directories whose file was overwritten by a
command that had not read it as it was then, or was left half written. No guard
reads it.

EC2 is modelled from how the code uses it: an instance is pending, running,
shutting down, terminated, and forgotten some time after; a group's name is
taken while the group exists; a group in use cannot be deleted; a request to add
rules is refused as a whole if one of them is there. Calls that fail, and kills
at any step, are bounded by `MaxFaults`.

The test framework calls `DestroyWindowsVM` with the identifier of one instance:
it terminates it, awaits its end and leaves file and group alone
(`DestroyWindowsVM`, `TerminateTheOne`, `AwaitTheOne`).

`ReportedIsRecorded`: what `create` reported to its operator is in the file of its
directory until it is terminated, if that file is not damaged. This is as much as
the code keeps: one failing read makes the next `create` write over everything that
was in the file, and succeed, although the comment of `AppendInstallerInfo`
(`tracker.go:23`) says that it appends. What the property does say is that a file is
lost in no other way, whichever calls fail and wherever a command is killed. Run
`aws` gives each process a directory of its own; two processes in one lose each
other's entries between reading and writing, which counts as damage too, and the
theorems hold for them. `ReportedIsReachable`: as long as a reported instance lives, its
group lets in one of the operators by SSH, although they all add their rules to
one group, each to what it read some time before.
`ForgetsOnlyTheDead`: no step takes out of a file what is alive, except by
overwriting it unseen (`OverwritesUnseen`) or leaving it half written.
`DestroyConverges`: the operator who keeps running `destroy` gets rid of every
instance that stays in his file, although calls fail, commands are killed, and identifiers
of instances that EC2 has forgotten stay in the file for ever. Its fairness: a
command that runs goes on, EC2 brings up and terminates instances, and `destroy`
is run again and again (`SF`, because the operator may also run `create`, which
disables it meanwhile).

Run `aws_saved` shows where the README of the tool promises more than the code
keeps: an instance whose set-up fails after `createInstance` runs on and is in no
file. An observation that no run is about: `handleSg` drops the error of
`verifyAndUpdateSg` (`ec2.go:691`), so that an instance may be reported whose
group lacks the rules for RDP and WinRM, of which the README of wni
(`tools/windows-node-installer/README.md:55`) says that they are there. SSH is
different: `create` connects by SSH before it reports.

## The Azure provider

On Azure a Windows VM is a public address, a NIC, the VM and its disk, created
one by one, and rules in the network security group (NSG) of the worker subnet,
which all VMs share. Only the VM's name and the NSG's are in the file; the others
are found by asking Azure. `AzureProvider` has one action for each call that
changes one of them or the file.

| state | in the code, or in Azure |
|---|---|
| `vm`, `nicOf` | state of a VM; its `NetworkProfile` |
| `nic`, `ipOf` | state of a NIC; the address in its `IPConfigurations` |
| `ips`, `disks`, `rules` | addresses, disks; the source prefixes of the four rules |
| `name`, `flags` | the drawn VM name; `--nicName`, `--ipName` (`NicName(p)`, `IpName(p)`: the provider's fields after `constructNetworkProfile`, `vm.go:801`) |
| `known`, `left` | the rules as `updateSecurityGroup` collected them; the ones still to be written or deleted |
| `past`, `todo`, `found` | the file as `DestroyWindowsVMs` read it; its VMs still to be destroyed; what the look-ups of the present one returned |
| `log` | which deletions the command's log says have failed |
| `failed` | history: the deletions that Azure accepted and failed to do, when nobody waited for them |

`create` is `CreateWindowsVM`, `GetRules`, `PutRule` (four times, in any order),
`CreatePublicIP`, `CreateNIC`, `CreateVM`, `AwaitVM`, `Record`, `Connect`,
`Report`. `destroy` is `DestroyWindowsVMs`, then for each VM `LookUp`,
`DeleteVM`, `AwaitGone`, `DisassociateIP`, `DeleteNIC`, `DestroyIP`,
`DestroyDisk`, and at last `DeleteNSGRules` and `Forget`. In destroy almost every
call is logged when it fails and the next one follows; that is `Attempt`.
`DestroyOwnVM` is the end-to-end test, which destroys the VM with the provider
that created it. Azure is modelled from how the code uses it: it refuses to delete
what something is attached to, VMs and NICs take time to go, and a rule is
replaced as a whole. The operator may give a NIC and an address of his own, and
may have put that NIC behind the load balancer of the workers or not
(`GivenPooled`).

The deletions of NIC, address and disk are started and their futures dropped
(`vm.go:1120`, `1095`, `1167`). What Azure accepted may therefore fail later, without
a trace in `wni`: `FailsUnseen` for address and disk, `NICStays` for a NIC, whose
deletion takes time; all of it is noted in `failed`. `Record` has the swallowed read
failure of `AppendInstallerInfo` and the torn writes, as on AWS.

`ForgetsWithAWord`: what leaves the file, or was destroyed by name, is gone with
its NIC, its disk and the address that was put on a NIC made for it, or the log of
that very command says what is not, or its deletion is one of those that failed
unseen. An address made for a VM on the operator's NIC (`vm.go:861`) is attached to
nothing; `destroy` never hears of it, and the property does not speak of it. The
file is no ledger here as it is on AWS: `DestroyWindowsVM` returns nil
whatever happened (`vm.go:1191`), so that the log is all that is left to tell the
operator, and this is the weakest thing that must hold.
`DestroyGetsThrough`: the operator who keeps running `destroy` gets a VM out of his
file, unless it is one that `destroy` cannot get past (`Stuck`): a VM that is
gone, or one without an address, ends `destroy` in a nil dereference every time.
Fairness: a command that runs goes on, Azure does what it accepted, and `destroy`
is run again and again (`SF`, as on AWS).

Bounds of run `azure`: one operator, two VM names, one fault; the given NIC is
outside the load balancer. Two operators write four rules each in any order, and
with the resources on top that is beyond TLC (more than five million states).
What two operators share on Azure is the NSG, about which nothing is promised;
two VMs of one operator share it as well, and the NIC and the address that he
gives for both. `CHECK_DEADLOCK FALSE` is stated because the drawn names run out.

Run `azure_leaves` shows a disagreement with the comment of `DestroyWindowsVMs`,
that it "destroys all the resources created by the CreateWindows method". Without
any fault, one `create` and one `destroy` leave the address behind: in a destroy
command `NicName` is empty, so that `disassociateIP` (`vm.go:1082`) fails; the
deletion of the NIC is not awaited (`vm.go:1120`, called at `:1201`); and the
address, still attached, cannot be deleted (`vm.go:1206`). All of it is logged.

Observations made while translating, which no run is about:

- Every VM is recorded with the one NSG. `AppendInstallerInfo` refuses a group
  that is in the file, so the second VM of a directory is never recorded
  (`vm.go:968`); the refusal is only logged. `azure_leaves` has a second VM, and
  would show this too if the address did not come first.
- A `destroy` killed after it deleted the VM leaves a file with a VM that is
  gone: `getIPname` or `destroyDisk` dereferences nil, and the file has to be
  edited by hand (this is `Stuck`).
- The operator's own NIC and address are deleted with the VM.
- The switch of `ensureSecurityGroupRules` (`vm.go:447`) does not collect the SSH
  rule, so that each `create` replaces its sources by its own.
- The rules are read once and written one by one, later: two creates may lose
  each other's sources.
- `deleteNSGRules` (`vm.go:1249`) deletes the rules of all VMs, those of other
  operators included.
- `--nicName` without `--ipName` creates an address that is attached to nothing;
  `create` then fails at `GetSSHClient`, and the VM runs on, recorded.
- A Windows VM on a NIC outside the load balancer makes every later `create`
  without `--nicName` fail: `getWorkerBackendAddressPools` (`vm.go:505-595`)
  takes it for a worker by its name.

## Runs

| run | instance | shows |
|---|---|---|
| `two` | 2 processes, 2 ignition files, 2 faults of any of 6 kinds | `TypeOK`, the inductive invariant `Inv`, all safety properties, the refinement of `NodeService` |
| `patient` | 1 process, 2 ignition files, 2 faults, patient operator, fair | success means a serving kubelet and a restarted dependent; both commands, repeated, succeed again and again |
| `retry` | 1 process, initialize-kubelet only, 2 faults, fair | commands end; retries succeed |
| `refresh` | 1 process, no faults | **violation** of `refresh`'s comment |
| `command` | all lines of 4 words of 6 kinds, 2 install directories | the command line is edited as the kubelet would see it |
| `files` | 5 ignition files, 2 kubelets, 2 packages, 2 failures | files, ignition file and line agree, to the last block |
| `tracker` | 3 instances, 2 groups, all lists | lists behave as sets |
| `aws` | 2 processes in 2 directories, 2 instances, 2 groups, 2 faults | what is alive is lost only from a file that is overwritten unseen or left half written; what was reported can be reached |
| `aws_converge` | 1 process, 2 instances, 2 faults, fair | destroy converges |
| `aws_saved` | 1 process, 1 fault | **violation** of the README of wni |
| `azure` | 1 process, 2 VMs, 1 fault, own or given NIC and address, fair | nothing is lost but with a word in the log, or because an accepted deletion failed; destroy converges |
| `azure_leaves` | 1 process, 2 VMs, no faults | **violation** of the comment of `DestroyWindowsVMs` |

Why the bounds suffice. In the core, properties relate at most two processes (one
that holds a handle or a configuration, and one that removes and recreates the
service) and two ignition files (an old and a new one); the proofs remove these
bounds and the one on faults for the safety properties. With two faults a run
that repairs the damage of a failed one can fail itself. In `AWSProvider`,
one instance of each operator suffices for losing one, and the second group is
there to be created after the first one's deletion. Process identifiers and
ignition files are symmetric in `two`, where no liveness is checked.

## Proofs

### The core

`KubeletBootstrapProofs` proves, for any sets of processes and ignition files,
any faults in any number and any operator, from the assumptions named in
`ServiceManager` and `KubeletBootstrap` (the outsider is no process, `NoCommand`
no command line):

| theorem | |
|---|---|
| `AlwaysIInv` | `Spec => []IInv`, the inductive invariant |
| `TypeCorrect` | `Spec => []TypeOK` |
| `InvHolds` | `Spec => []Inv` |
| `NoStrayKubeletHolds` | `Spec => []NoStrayKubelet` |
| `ConfigNotStaleHolds` | `Spec => []ConfigNotStale` |
| `OnlyGainsCNIHolds` | `Spec => OnlyGainsCNI` |
| `SuccessIsTruthfulHolds` | `Spec => SuccessIsTruthful` |
| `Implements` | `Spec => ImplementsNodeService` |
| `SuccessServes` | `Spec => []SuccessMeansServing`, if `PatientlyAlone` and no crashes |
| `OverlayIsRestarted` | `Spec => []OverlayRestarted`, if moreover no call fails |

The argument. None of the properties is inductive. What carries them is a fact
about the SCM that the code relies on without saying so: *an open handle pins the
registration* (`HandlesPin`), because a marked registration is dropped only when
no handle is open, and `CreateService` refuses a name that exists. Every process
holds a handle from `OpenService` or `CreateService` to its exit, but for the
labels between `Disconnect` and `CreateService` (`HoldsHandle`, `Unheld`). So
what it read at `readConfig`, or registered at `create`, is still about the same
registration at any later label (`ConfigurePrepared`, `InitializePrepared`),
however other processes, reboots and crashes interleave; a reboot closes handles
but ends the processes too. `OnTrack` ties labels to commands, and
`ProcessMatchesState` a live process to the service's state; with both, a kubelet
can be launched only from the current registration, which is `NoStrayKubelet`.
`IInv` is the conjunction of `TypeOK` and `Inv`; `TypeOK` is not inductive by
itself, because `WithCNI` of a configuration is a command line only if one was
read. The proof has one lemma per group of actions and one step per action in
it; `OneSteps` reduces each to the process that moves.

The last two theorems have hypotheses that are not about the code but about how it is
used: `PatientlyAlone` is an operator who runs one wmcb at a time on settled services
(the playbook), and the faults named do not occur. Each is needed: run `refresh`
shows an operator in a hurry; a kubelet that dies after the success message is down;
and a failing call may hide the dependent service from wmcb, which then does not
restart it. `Serving` says by label where the kubelet is: stopped, with nothing due
to start it, from `readConfig` or `create` to `startKubelet` (`Down`), and up with
the registered command line from then on (`Up`). `OverlayOK` says that a dependent
service of which the command does not know (`~deps`) is not there when the kubelet
is started.

### The files of a node

`NodeFilesProofs`, for any ignition files, kubelets, packages, contents and
interruptions, from the assumptions that `NodeFiles` names:

| theorem | |
|---|---|
| `InvHolds` | `Spec => []Inv`, the inductive invariant |
| `TypeCorrect` | `Spec => []TypeOK` |
| `RegisteredStaysComplete` | `Spec => []RegisteredIsComplete` |
| `InitializedFromItsInputs` | `Spec => []InitializedFromInputs` |
| `ConfiguredFromItsPackage` | `Spec => []ConfiguredFromPackage` |
| `Implements` | `Spec => ImplementsNodeService` |

The properties speak of the moment of success; the invariant has to speak of every
block before it. `Settled`: whatever is due is either still in `jobs` or is on
the disk as it was to be written (`Fulfilled`). `Kept` says the same of what is not
due, and of the ends of the files that are: they are as in `before`. It survives the
writing of the next file only because no two files of one command go to one path
(lemmas on `InitializeTasks` and `ConfigureTasks`; for this the assumptions on
names are needed). `WritingOK`: of the file that is open, the blocks before `at`
are the source's, and a truncated file has no others. `Complete` is
`RegisteredIsComplete` in those terms: it is kept because `initialize-kubelet`
marks a service that it sees before it opens the first file, and `configure-cni`
writes to other directories. `LineOK` and `ControlOK` say which line a command finds
and leaves, and that one found while `initialize-kubelet` writes is marked or unseen; from them, step by step, the refinement: `Over(CNIArgs, r)` loses none of
the options of `r`, and shows its CNI options to `Registered`.

### The tracker file

`TrackerFileProofs`, for identifiers without bound and lists of any length:

| theorem | |
|---|---|
| `FileInOrder` | `Spec => []Inv`: the lists are strictly ascending, not both empty |
| `FileAlwaysNamesSomething` | `Spec => []FileNamesSomething` |
| `TrackerImplementsSets` | `Spec => ImplementsResourceTracker` |

The lemmas are in `InstallerInfoProofs`, and the providers use them too:
`sort.SearchStrings` on an ascending list finds where an identifier is or would
be; a round of the loop in `writeToInfo` inserts or deletes there and keeps the
order, or fails; the whole list is done, all of it or nothing (`AppendedEffect`,
`RemovedEffect`). The last is an induction over the rounds. The library's
induction theorems take an operator as parameter, which the provers cannot
instantiate; `SetInduction` states induction for a *set* of numbers instead, and
proves it from the well-foundedness of `<`. That the recursive functions (`Rounds`
in `InstallerInfo`, `upto` in `Pick` of `NodeFiles`) are what their definitions say
is shown by the same induction. Assumed: that the file's two special contents are no
contents (`ContentsAssumption`), and that identifiers are natural numbers other than
`Blank`.

### AWS

`AWSProviderProofs`, for any number of commands, directories, instances, groups
and faults:

| theorem | |
|---|---|
| `InvHolds` | `Spec => []Inv`, the inductive invariant |
| `TypeCorrect` | `Spec => []TypeOK` |
| `ReportedStaysReachable` | `Spec => []ReportedIsReachable` |
| `ReportedStaysRecorded` | `Spec => []ReportedIsRecorded` |
| `OnlyTheDeadAreForgotten` | `Spec => ForgetsOnlyTheDead` |

`Inv` says, label by label, what a command holds: the group it found or made was
created (`HoldsOK`), the rule it connected through is still there (`LetInOK`: rules
are only added while the group exists, and a group in use is not deleted), what it
read of its file is two lists in order (`PastOK`), and what it counts as ended is
dead (`EndedOK`), which dead things stay. The last two theorems need no hypothesis
about who works where. A write either starts from what is in the file, and then
`AppendedEffect` or `RemovedEffect` says what it changes, or it does not, and then
`damaged` says so, by the guard of `WriteFile` and not by the theorem. Found while
proving: with rules to be found in the group at the start, `MaxGroups` must not be 0
(`AWSAssumption`).

### Azure

`AzureProviderProofs`, for any operators, VM names, flags, addresses and faults,
thus also for two operators at once, which no run reaches:

| theorem | |
|---|---|
| `InvHolds` | `Spec => []Inv`, the inductive invariant |
| `TypeCorrect` | `Spec => []TypeOK` |
| `NothingLostWithoutAWord` | `Spec => ForgetsWithAWord` |

The invariant's centre is `Dealt(p, i)`: of VM `i`, machine, NIC, address and disk
are each gone, in the log of `p`, or in `failed`. `ProgressOK` has it for all VMs of the file that
`p` is through with, and part by part for the one it works on (`NoVM` from `detach` on,
`NoNIC` from `delete-ip` on, and so forth). It stays true because nothing that was
deleted is made again: `MakingOK` and `NamesOK` say that a drawn name is nobody
else's, and that before each step of `create` the thing it makes is not there. What
the look-ups found is the truth or nothing (`found`), as the NIC of a VM never
changes. `TypeOK` is proved from the invariant; it is not inductive, since a NIC of
a running VM stays only as long as the VM is attached to it.

### Only model-checked

- Liveness: `CommandTerminates`, `RetriesSucceed`, `BothSucceed`,
  `DestroyConverges` and `DestroyGetsThrough`.
- `KubeletCommand`: its refinement, `OnlyGrowsByCNI` and `StaysEditable`.

In front of each proof, TLC checked the inductive invariant on the instance of the
module's run; for the core that check is part of run `two`.

## What is not modelled

- The test framework: planned, see below.
- Two operators on Azure at once: the module allows it, no run does; the theorems
  about it hold for any number.
- Azure's and AWS's look-ups, the generated `bindata.go`, flag handling, and the
  end-to-end tests: no state of their own.
- Parsers (ignition, JSON, URLs, regular expressions): by their result.
- Several wni processes in one directory on Azure; on AWS they are modelled and
  proved about, but no run has them.
- Images, passwords, OS profiles, key pairs and credential files: inputs of the
  cloud calls that nothing else depends on.
- Time, other than as waits that may end early.

## Plan

Done: inventory; `ServiceManager`, `KubeletBootstrap`, `NodeService` with proofs;
`KubeletCommand`; `NodeFiles`, `TrackerFile`, `AWSProvider` with all its operations
and `AzureProvider`, each with proofs of its safety properties; the liveness of both
commands together.

Next, proofs:

1. `KubeletCommand`: lemmas on joining and splitting words, then the refinement.

Then, the model:

2. `TestFramework`: set-up and tear-down of the MachineSet and its VMs
   (`windowsvm.go`, `framework.go`) and the SSH client of a VM
   (`types.go:220`), with failures between the steps.
3. An abstract module of a resource ledger that both providers implement: what is
   reported, recorded and alive.

Liveness stays with TLC throughout.
