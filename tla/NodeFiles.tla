------------------------------ MODULE NodeFiles ------------------------------
(***************************************************************************)
(* What wmcb writes to the disk of a node, and how the files, the worker   *)
(* ignition file and the registered command line go together:              *)
(* initializeKubeletFiles, parseIgnitionFileContents, copyFile and         *)
(* cniOptions.configure of pkg/bootstrapper/bootstrapper.go.               *)
(*                                                                         *)
(* One wmcb runs at a time, any number of times, and may be interrupted at *)
(* any block of any file.  Of the service calls, which KubeletBootstrap    *)
(* takes apart, those are here that decide whether files are written       *)
(* beside a registration: opening it, which may fail unnoticed, deleting   *)
(* it, which only marks it, and creating the next one.  The order of the   *)
(* options in a line, which KubeletCommand shows to be of no account, is   *)
(* left out.                                                               *)
(***************************************************************************)
EXTENDS Naturals, Sequences

CONSTANTS
  Ignitions,     \* worker ignition files, see IgnitionFile
  ConfNames,     \* the paths cloudConfigRegex matches |-> their base names
  Kubelets,      \* the contents of the kubelet.exe files to install
  Packages,      \* the inputs of configure-cni, see Package
  KubeletConf,   \* the contents of kubelet.conf: the template, filled in
  BaseOptions,   \* option |-> value, of what every kubelet gets
  Blocks,        \* what files consist of, written one by one
  NoLine,        \* no kubelet service is registered
  Unreadable,    \* a source without contents, or that cannot be decoded
  MaxFailures    \* bound on the interruptions of a behaviour

Contents == Seq(Blocks)
Sources  == {Unreadable} \cup (Contents \ {<<>>})

\* An ignition file: whether ignition's parsers accept it, as version 3 or as
\* version 2 that can be converted; the options that its kubelet.service unit
\* names, if there is one; whether that unit has no contents; and its files, no
\* path twice.
IgnitionFile(ign) ==
  /\ ign.parses \in BOOLEAN
  /\ ign.emptyUnit \in BOOLEAN
  /\ DOMAIN ign.options \subseteq {"cloud-provider", "v", "cloud-config"}
  /\ ign.files \in Seq([path : STRING, source : Sources])
  /\ \A i, j \in DOMAIN ign.files : ign.files[i].path = ign.files[j].path => i = j

\* A directory of plugins and a configuration file that checkCNIInputs accepts.
Package(package) ==
  /\ package.dir \in Seq([name : STRING, isDir : BOOLEAN, source : Sources]) \ {<<>>}
  /\ \A i, j \in DOMAIN package.dir : package.dir[i].name = package.dir[j].name => i = j
  /\ package.config \in Sources

ASSUME FilesAssumption ==
  /\ \A ign \in Ignitions : IgnitionFile(ign)
  /\ \A package \in Packages : Package(package)
  /\ Kubelets \subseteq Sources
  /\ KubeletConf \in Sources \ {Unreadable}
  /\ Unreadable \notin Contents
  /\ MaxFailures \in Nat

\* cloudConfigRegex matches only what ends in conf.  That it does not match a file
\* called kubelet.conf is taken for granted by the code.
ASSUME ConfNamesAssumption ==
  /\ \A path \in DOMAIN ConfNames : ConfNames[path] \notin
       {"kubelet.conf", "kubelet.exe", "bootstrap-kubeconfig", "kubelet-ca.crt"}
  /\ DOMAIN ConfNames \intersect
       {"/etc/kubernetes/kubeconfig", "/etc/kubernetes/kubelet-ca.crt"} = {}

\* What createKubeletService gives to every kubelet.
ASSUME BaseOptionsAssumption ==
  DOMAIN BaseOptions \intersect
    {"cloud-provider", "v", "cloud-config",
     "resolv-conf", "network-plugin", "cni-bin-dir", "cni-conf-dir"} = {}

\* A function of one argument; f, and what g has beyond it; what g has beyond f.
Only(x, y) == [z \in {x} |-> y]
Over(f, g) == [x \in DOMAIN f \cup DOMAIN g |-> IF x \in DOMAIN f THEN f[x] ELSE g[x]]
Beyond(g, f) == [x \in DOMAIN g \ DOMAIN f |-> g[x]]

\* The members of a sequence that are at one of the places, in their order.
Pick(s, places) ==
  LET upto[n \in 0..Len(s)] ==
        IF n = 0 THEN <<>>
        ELSE IF n \in places THEN Append(upto[n - 1], s[n])
        ELSE upto[n - 1]
  IN  upto[Len(s)]

\* Where wmcb puts a file: a directory and a name.
InstallDir(name) == <<"k", name>>
CNIBinDir(name)  == <<"k/cni", name>>
CNIConfDir(name) == <<"k/cni/config", name>>

VARIABLES
  disk,      \* path |-> contents, of the files that are there
  line,      \* option |-> value, of the registered command line, or NoLine
  marked,    \* the registration is marked for deletion
  unseen,    \* history: an initialize-kubelet has taken it for absent
  pc,        \* "idle" or the next thing wmcb does
  input,     \* the inputs of the command that runs, or ran last
  jobs,      \* the files that are still to be written, in order
  at,        \* the block of the first of them to be written next; 0: not open
  args,      \* wmcb.kubeletArgs
  before,    \* history: the disk when the command, unless it has failed, began
  outcome,   \* how the last command ended
  failures   \* number of interruptions so far

registration == <<line, marked, unseen>>
vars == <<disk, registration, pc, input, jobs, at, args, before, outcome, failures>>

Init ==
  /\ disk = <<>>
  /\ line = NoLine
  /\ marked = FALSE
  /\ unseen = FALSE
  /\ pc = "idle"
  /\ input = [command |-> "none"]
  /\ jobs = <<>>
  /\ at = 0
  /\ args = <<>>
  /\ before = <<>>
  /\ outcome = "none"
  /\ failures = 0

Exit(result) ==
  /\ pc' = "idle"
  /\ outcome' = result
  /\ jobs' = <<>>
  /\ at' = 0
  /\ args' = <<>>
  /\ before' = IF result = "success" THEN before ELSE <<>>

-----------------------------------------------------------------------------
(* Writing files *)

\* copyFile does not truncate its destination; os.Create and ioutil.WriteFile do.
Copy(source, path)  == [source |-> source, path |-> path, truncate |-> FALSE]
Write(source, path) == [source |-> source, path |-> path, truncate |-> TRUE]

\* A source that cannot be read ends the command before its destination is opened.
OpenFile ==
  /\ pc = "write"
  /\ jobs # <<>>
  /\ at = 0
  /\ \/ /\ Head(jobs).source = Unreadable
        /\ Exit("error")
        /\ UNCHANGED disk
     \/ /\ Head(jobs).source # Unreadable
        /\ at' = 1
        /\ disk' = LET path == Head(jobs).path
                   IN  IF path \in DOMAIN disk /\ ~Head(jobs).truncate
                         THEN disk ELSE Over(Only(path, <<>>), disk)
        /\ UNCHANGED <<pc, jobs, args, before, outcome>>
  /\ UNCHANGED <<registration, input, failures>>

\* Contents with a block written over the i-th, or appended.
PutBlock(content, i, block) ==
  [j \in 1..(IF i > Len(content) THEN i ELSE Len(content)) |->
     IF j = i THEN block ELSE content[j]]

\* Defective variant: on to a block after the last one.
AdvancePast(source) ==
  IF at <= Len(source) THEN at' = at + 1 /\ UNCHANGED jobs
                       ELSE at' = 0 /\ jobs' = Tail(jobs)

\* On to the next block, or to the next file.
Advance(source) ==
  IF at < Len(source) THEN at' = at + 1 /\ UNCHANGED jobs
                      ELSE at' = 0 /\ jobs' = Tail(jobs)

WriteBlock ==
  /\ pc = "write"
  /\ at > 0
  /\ LET job == Head(jobs)
     IN  /\ disk' = [disk EXCEPT ![job.path] = PutBlock(@, at, job.source[at])]
         /\ Advance(job.source)
  /\ UNCHANGED <<registration, pc, input, args, before, outcome, failures>>

\* All files are written: on to what the command does next.  The arguments are
\* empty only before the ignition file is parsed: the verbosity is always there.
Written ==
  /\ pc = "write"
  /\ jobs = <<>>
  /\ pc' = IF input.command = "configure-cni" THEN "update"
           ELSE IF args = <<>> THEN "parse" ELSE "create"
  /\ UNCHANGED <<disk, registration, input, jobs, at, args, before, outcome, failures>>

-----------------------------------------------------------------------------
(* initialize-kubelet *)

\* kubelet.conf is created and kubelet.exe copied.
Opening(kubelet) == << Write(KubeletConf, InstallDir("kubelet.conf")),
                       Copy(kubelet, InstallDir("kubelet.exe")) >>

BeginInitialize(next) ==
  /\ pc = "idle"
  /\ \E ign \in Ignitions, kubelet \in Kubelets :
       /\ input' = [command |-> "initialize-kubelet", ign |-> ign, kubelet |-> kubelet]
       /\ jobs' = Opening(kubelet)
  /\ pc' = next
  /\ before' = disk
  /\ outcome' = "none"
  /\ UNCHANGED <<disk, line, marked, at, args>>

\* Defective variant: the old service is still registered while the files change.
InitializeInPlace == BeginInitialize("write") /\ UNCHANGED <<unseen, failures>>

\* An old service is removed before the first file is written, unless it cannot be
\* opened: then wmcb takes it for absent.
InitializeKubelet ==
  \/ /\ BeginInitialize(IF line = NoLine THEN "write" ELSE "remove")
     /\ UNCHANGED <<unseen, failures>>
  \/ /\ line # NoLine
     /\ BeginInitialize("write")
     /\ unseen' = TRUE
     /\ failures < MaxFailures
     /\ failures' = failures + 1

\* Delete marks the registration, and fails on one that is marked.  wmcb then
\* closes its handle and waits for a fixed time, whatever becomes of it.
StopAndRemove ==
  /\ pc = "remove"
  /\ \/ /\ ~marked
        /\ marked' = TRUE
        /\ pc' = "write"
        /\ UNCHANGED <<jobs, at, args, before, outcome>>
     \/ /\ marked
        /\ Exit("error")
        /\ UNCHANGED marked
  /\ UNCHANGED <<disk, line, unseen, input, failures>>

\* wmcb has the service open: until it removes it, or as long as it configures it.
Holding == pc = "remove" \/ (pc # "idle" /\ input.command = "configure-cni")

\* Windows drops a marked registration some time after the last handle is closed,
\* when the kubelet has ended.
Unregistered ==
  /\ marked
  /\ ~Holding
  /\ line' = NoLine
  /\ marked' = FALSE
  /\ unseen' = FALSE
  /\ UNCHANGED <<disk, pc, input, jobs, at, args, before, outcome, failures>>

\* What the regular expressions find in the kubelet unit: --cloud-config only
\* with a path that begins with a slash and ends in conf.  The check of the base
\* name that follows never fails on such a path.
FoundOptions(ign) ==
  [option \in {o \in DOMAIN ign.options :
                 o = "cloud-config" => ign.options[o] \in DOMAIN ConfNames} |->
     ign.options[option]]

\* Where the files of an ignition file go that wmcb is interested in: two fixed
\* ones, and the one that --cloud-config names.
FilesToTranslate(ign) ==
  LET found == FoundOptions(ign)
      conf  == IF "cloud-config" \in DOMAIN found THEN {found["cloud-config"]} ELSE {}
  IN  Over([path \in conf |-> InstallDir(ConfNames[path])],
           Over(Only("/etc/kubernetes/kubeconfig", InstallDir("bootstrap-kubeconfig")),
                Only("/etc/kubernetes/kubelet-ca.crt", InstallDir("kubelet-ca.crt"))))

ArgsOf(options) ==
  Over([o \in DOMAIN options |->
          IF o = "cloud-config" THEN InstallDir(ConfNames[options[o]]) ELSE options[o]],
       Only("v", "3"))

\* Defective variant: the default is for a missing verbosity, not for an empty one.
KubeletArgsBareV(ign) == ArgsOf(FoundOptions(ign))

\* The arguments taken from the unit; a verbosity that is missing or empty is 3.
KubeletArgs(ign) ==
  LET found == FoundOptions(ign)
  IN  ArgsOf([o \in {p \in DOMAIN found : p = "v" => found[p] # ""} |-> found[o]])

WantedFiles(ign) ==
  Pick(ign.files, {i \in DOMAIN ign.files : ign.files[i].path \in DOMAIN FilesToTranslate(ign)})

\* They are written in the order of the ignition file.
Translated(ign) ==
  [i \in DOMAIN WantedFiles(ign) |->
     LET file == WantedFiles(ign)[i]
     IN  Write(file.source, FilesToTranslate(ign)[file.path])]

\* parseIgnitionFileContents, but for the writing.
ParseIgnition ==
  /\ pc = "parse"
  /\ LET ign == input.ign
     IN  \/ /\ ~ign.parses \/ ign.emptyUnit
            /\ Exit("error")
         \/ /\ ign.parses /\ ~ign.emptyUnit
            /\ args' = KubeletArgs(ign)
            /\ jobs' = Translated(ign)
            /\ pc' = "write"
            /\ UNCHANGED <<at, before, outcome>>
  /\ UNCHANGED <<disk, registration, input, failures>>

\* The command lines that wmcb registers, before configure-cni changes them.
Registrations == {Over(KubeletArgs(ign), BaseOptions) : ign \in Ignitions}

\* CreateService fails while a registration is left, marked or not.
CreateKubeletService ==
  /\ pc = "create"
  /\ \/ /\ line = NoLine
        /\ line' = Over(args, BaseOptions)
        /\ pc' = "start"
        /\ UNCHANGED <<jobs, at, args, before, outcome>>
     \/ /\ line # NoLine
        /\ Exit("error")
        /\ UNCHANGED line
  /\ UNCHANGED <<disk, marked, unseen, input, failures>>

-----------------------------------------------------------------------------
(* configure-cni *)

CNIArgs ==
  Over(Only("resolv-conf", "\"\""),
    Over(Only("network-plugin", "cni"),
      Over(Only("cni-bin-dir", "k/cni"), Only("cni-conf-dir", "k/cni/config"))))

\* The plugins: the files of the directory, but no directories.
Binaries(package) ==
  LET files == Pick(package.dir, {i \in DOMAIN package.dir : ~package.dir[i].isDir})
  IN  [i \in DOMAIN files |-> Copy(files[i].source, CNIBinDir(files[i].name))]

\* Defective variant: the configuration stays beside the plugins.
CopyFlat(package) ==
  Append(Binaries(package), Copy(package.config, CNIBinDir(package.configName)))

CopyFiles(package) ==
  Append(Binaries(package), Copy(package.config, CNIConfDir(package.configName)))

\* Refused when no service is registered, or the one that is cannot be opened.
Configure ==
  /\ pc = "idle"
  /\ line # NoLine
  /\ \E package \in Packages :
       /\ input' = [command |-> "configure-cni", package |-> package]
       /\ jobs' = CopyFiles(package)
  /\ pc' = "write"
  /\ before' = disk
  /\ outcome' = "none"
  /\ UNCHANGED <<disk, registration, at, args, failures>>

\* ChangeServiceConfig fails on a marked service.
UpdateTo(options) ==
  /\ pc = "update"
  /\ \/ /\ ~marked
        /\ line' = options
        /\ pc' = "start"
        /\ UNCHANGED <<jobs, at, args, before, outcome>>
     \/ /\ marked
        /\ Exit("error")
        /\ UNCHANGED line
  /\ UNCHANGED <<disk, marked, unseen, input, failures>>

\* Defective variant: the options of the ignition file are forgotten.
UpdateDefaults == UpdateTo(Over(CNIArgs, BaseOptions))

\* updateKubeletArgs on the options that config() returned, and their registration.
UpdateConfig == UpdateTo(Over(CNIArgs, line))

\* NoLine is no command line, in the terms of NodeService neither.
ASSUME NoLineAssumption ==
  NoLine \notin Registrations \cup {Over(CNIArgs, r) : r \in Registrations}
                  \cup [ign : Registrations, cni : BOOLEAN]

-----------------------------------------------------------------------------

\* The kubelet is started, and the command is done.
Start ==
  /\ pc = "start"
  /\ Exit("success")
  /\ UNCHANGED <<disk, registration, input, failures>>

\* wmcb is killed, or a call fails, between any two steps.
Interrupted ==
  /\ pc # "idle"
  /\ failures < MaxFailures
  /\ failures' = failures + 1
  /\ Exit("error")
  /\ UNCHANGED <<disk, registration, input>>

Next ==
  \/ InitializeKubelet
  \/ StopAndRemove
  \/ Unregistered
  \/ OpenFile
  \/ WriteBlock
  \/ Written
  \/ ParseIgnition
  \/ CreateKubeletService
  \/ Configure
  \/ UpdateConfig
  \/ Start
  \/ Interrupted

Spec == Init /\ [][Next]_vars

-----------------------------------------------------------------------------
(* What the files and the command line say together *)

\* The shape of the state; a file that is open is the first job's, and exists.
TypeOK ==
  /\ \A path \in DOMAIN disk : disk[path] \in Contents
  /\ line = NoLine => ~marked /\ ~unseen
  /\ pc \in {"idle", "remove", "write", "parse", "create", "update", "start"}
  /\ at \in Nat
  /\ at > 0 => /\ pc = "write" /\ jobs # <<>>
               /\ Head(jobs).path \in DOMAIN disk
               /\ Head(jobs).source # Unreadable
               /\ at <= Len(Head(jobs).source)
               /\ at <= Len(disk[Head(jobs).path]) + 1
  /\ outcome \in {"none", "success", "error"}
  /\ failures \in 0..MaxFailures

Initialized == pc = "idle" /\ outcome = "success" /\ input.command = "initialize-kubelet"
Configured  == pc = "idle" /\ outcome = "success" /\ input.command = "configure-cni"

\* A file is what it was when the command began.
AsBefore(path) ==
  IF path \in DOMAIN before
    THEN path \in DOMAIN disk /\ disk[path] = before[path]
    ELSE path \notin DOMAIN disk

\* A file is made of a source, and of what was longer in the file before it.
CopyOf(path, source) ==
  /\ path \in DOMAIN disk
  /\ disk[path] = Over(source, IF path \in DOMAIN before THEN before[path] ELSE <<>>)

AllBut(paths) == (DOMAIN disk \cup DOMAIN before) \ paths

\* A service is never registered beside half of its files: as long as there is
\* one, kubelet.conf is complete and kubelet.exe begins with a whole kubelet,
\* however many runs were interrupted before it came to be.  It takes a service
\* that wmcb could not open, or one that Windows is about to drop, to have the
\* files of a registration rewritten beside it.
RegisteredIsComplete ==
  line # NoLine /\ ~unseen /\ ~marked =>
    /\ InstallDir("kubelet.conf") \in DOMAIN disk
    /\ disk[InstallDir("kubelet.conf")] = KubeletConf
    /\ InstallDir("kubelet.exe") \in DOMAIN disk
    /\ \E kubelet \in Kubelets \ {Unreadable} :
         SubSeq(disk[InstallDir("kubelet.exe")], 1, Len(kubelet)) = kubelet

\* After initialize-kubelet the disk is what its inputs and the disk that it found
\* say, to the last block, however many runs were interrupted before: kubelet.conf
\* is the template; kubelet.exe the new kubelet, and the end of a longer old one; a
\* file of the ignition file is there as it has it, under the name the command line
\* gives if it names it, and one that it lacks is as before; so is all the rest.
\* The verbosity is the one of the unit, and never empty; no CNI option survives.
InitializedFromInputs ==
  Initialized =>
    LET options == input.ign.options
        files   == input.ign.files
        Brought(path, dest) ==
          \/ \E i \in DOMAIN files :
               /\ files[i].path = path
               /\ dest \in DOMAIN disk
               /\ disk[dest] = files[i].source
          \/ (\A i \in DOMAIN files : files[i].path # path) /\ AsBefore(dest)
        Named == IF "cloud-config" \in DOMAIN line THEN {line["cloud-config"]} ELSE {}
    IN  /\ InstallDir("kubelet.conf") \in DOMAIN disk
        /\ disk[InstallDir("kubelet.conf")] = KubeletConf
        /\ CopyOf(InstallDir("kubelet.exe"), input.kubelet)
        /\ Brought("/etc/kubernetes/kubeconfig", InstallDir("bootstrap-kubeconfig"))
        /\ Brought("/etc/kubernetes/kubelet-ca.crt", InstallDir("kubelet-ca.crt"))
        /\ \A dest \in Named : Brought(options["cloud-config"], dest)
        /\ \A path \in AllBut(Named \cup
             {InstallDir(name) : name \in {"kubelet.conf", "kubelet.exe",
                                           "bootstrap-kubeconfig", "kubelet-ca.crt"}}) :
             AsBefore(path)
        /\ line.v # ""
        /\ "v" \in DOMAIN options => options.v \in {"", line.v}
        /\ DOMAIN line \intersect DOMAIN CNIArgs = {}

\* After configure-cni the directories that the command line names hold the
\* plugins and the configuration of the package, each followed by the end of a
\* longer file that was there; every other file is as before.
ConfiguredFromPackage ==
  Configured =>
    LET package == input.package
        plugins == {i \in DOMAIN package.dir : ~package.dir[i].isDir}
        Plugin(i) == <<line["cni-bin-dir"], package.dir[i].name>>
        Config    == <<line["cni-conf-dir"], package.configName>>
    IN  /\ \A i \in plugins : CopyOf(Plugin(i), package.dir[i].source)
        /\ CopyOf(Config, package.config)
        /\ \A path \in AllBut({Plugin(i) : i \in plugins} \cup {Config}) : AsBefore(path)

\* The registration in the terms of NodeService: what it has beside the CNI
\* options, and whether it has those; and what wmcb reported.
Registered ==
  IF line = NoLine THEN NoLine
  ELSE [ign |-> Beyond(line, CNIArgs), cni |-> DOMAIN CNIArgs \subseteq DOMAIN line]

Reported ==
  [p \in {"wmcb"} |-> IF pc = "idle" /\ outcome = "success" THEN input.command ELSE "none"]

\* wmcb implements NodeService at this level of detail too: between installation
\* and withdrawal a registration keeps all the options that its ignition file and
\* the defaults gave it, and only configure-cni adds to them.
Promise == INSTANCE NodeService WITH
  Processes <- {"wmcb"},
  Ignitions <- Registrations,
  NoCommand <- NoLine,
  report    <- Reported,
  service   <- Registered

ImplementsNodeService == Promise!Spec
=============================================================================
