--------------------------- MODULE NodeFilesProofs ---------------------------
(***************************************************************************)
(* Proofs about NodeFiles, for any ignition files, kubelets, packages,     *)
(* blocks and interruptions.                                               *)
(***************************************************************************)
EXTENDS NodeFiles, SetInduction, SequenceTheorems, TLAPS

Members(s) == {s[i] : i \in DOMAIN s}

\* What the commands write, and what the one that runs has taken on so far: the
\* files of the ignition file only once it is parsed.
InitializeTasks(ign, kubelet) == Members(Opening(kubelet)) \cup Members(Translated(ign))
ConfigureTasks(package)       == Members(CopyFiles(package))

Tasks ==
  CASE input.command = "initialize-kubelet" -> InitializeTasks(input.ign, input.kubelet)
    [] input.command = "configure-cni"      -> ConfigureTasks(input.package)
    [] OTHER                                -> {}

Due == IF input.command = "initialize-kubelet" /\ pc # "idle" /\ args = <<>>
         THEN Members(Opening(input.kubelet)) ELSE Tasks

\* What is at a path begins with the given contents.
Begins(path, content) ==
  /\ path \in DOMAIN disk
  /\ Len(content) <= Len(disk[path])
  /\ \A i \in 1..Len(content) : disk[path][i] = content[i]

\* A file is as it was to be written.
Fulfilled(job) ==
  /\ job.source # Unreadable
  /\ Begins(job.path, job.source)
  /\ job.truncate => Len(disk[job.path]) = Len(job.source)

Inputs ==
  [command : {"none"}]
    \cup [command : {"initialize-kubelet"}, ign : Ignitions, kubelet : Kubelets]
    \cup [command : {"configure-cni"}, package : Packages]

Initializing == input.command = "initialize-kubelet"
Configuring  == input.command = "configure-cni"

\* The last thing a command that succeeds has done is behind it.
Finished == pc = "start" \/ (pc = "idle" /\ outcome = "success")

WithCNI == {Over(CNIArgs, r) : r \in Registrations}

ShapeOK ==
  /\ \A path \in DOMAIN disk : disk[path] \in Contents
  /\ \A path \in DOMAIN before : before[path] \in Contents
  /\ marked \in BOOLEAN /\ unseen \in BOOLEAN
  /\ input \in Inputs
  /\ pc \in {"idle", "remove", "write", "parse", "create", "update", "start"}
  /\ outcome \in {"none", "success", "error"}
  /\ failures \in 0..MaxFailures
  /\ line \in {NoLine} \cup Registrations \cup WithCNI

\* What is due at each label.
ControlOK ==
  /\ pc = "idle" => jobs = <<>> /\ args = <<>>
  /\ pc # "idle" => outcome = "none" /\ input.command # "none"
  /\ pc \in {"remove", "parse", "create"} => Initializing
  /\ pc = "update" => Configuring
  /\ pc \in {"parse", "create", "update", "start"} => jobs = <<>>
  /\ pc \in {"remove", "parse"} => args = <<>>
  /\ Configuring => args = <<>>
  /\ Initializing => args \in {<<>>, KubeletArgs(input.ign)}
  /\ pc = "create" => args = KubeletArgs(input.ign)
  /\ pc = "start" /\ Initializing => args = KubeletArgs(input.ign)

\* The line that a command finds, and the one it leaves.  While initialize-kubelet
\* writes, a registration is one that is about to go, or that it did not see.
LineOK ==
  /\ line = NoLine => ~marked /\ ~unseen
  /\ pc = "remove" => line # NoLine
  /\ Initializing /\ pc \in {"write", "parse", "create"} => line = NoLine \/ marked \/ unseen
  /\ Finished => ~marked
  /\ Configuring /\ pc # "idle" => line # NoLine
  /\ Finished /\ Initializing => line = Over(KubeletArgs(input.ign), BaseOptions)
  /\ Finished /\ Configuring => line \in WithCNI
  /\ Finished => Initializing \/ Configuring

\* An open file is the first job's, and has all its blocks before the next one.
WritingOK ==
  /\ jobs \in Seq(Tasks)
  /\ at \in Nat
  /\ at > 0 => LET job == Head(jobs)
               IN  /\ pc = "write" /\ jobs # <<>>
                   /\ job.path \in DOMAIN disk
                   /\ job.source # Unreadable
                   /\ at <= Len(job.source)
                   /\ at <= Len(disk[job.path]) + 1
                   /\ job.truncate => Len(disk[job.path]) = at - 1
                   /\ \A i \in 1..(at - 1) : disk[job.path][i] = job.source[i]

\* Whatever is due is either still to be written or as it was to be written.
Settled ==
  pc # "idle" \/ outcome = "success" =>
    \A job \in Due : job \in Members(jobs) \/ Fulfilled(job)

\* What was at a path when the command began.
Old(path) == IF path \in DOMAIN before THEN before[path] ELSE <<>>

\* A file that is copied over grows to its source's length at most, and keeps what is
\* beyond that.
TailKept(path, source) ==
  /\ Len(Old(path)) <= Len(disk[path])
  /\ Len(disk[path]) <= Len(Old(path)) \/ Len(disk[path]) <= Len(source)
  /\ \A i \in 1..Len(Old(path)) : i > Len(source) => disk[path][i] = Old(path)[i]

Untouched(path) == path \in DOMAIN disk => path \in DOMAIN before /\ disk[path] = before[path]

\* What a command does not write is as the command found it.
Kept ==
  pc # "idle" \/ outcome = "success" =>
    /\ DOMAIN before \subseteq DOMAIN disk
    /\ \A path : (\A job \in Tasks : job.path # path) => Untouched(path)
    /\ \A job \in Tasks : ~job.truncate /\ job.source # Unreadable /\ job.path \in DOMAIN disk
         => TailKept(job.path, job.source)

\* No registration without its files.
Complete ==
  line # NoLine /\ ~unseen /\ ~marked =>
    /\ Fulfilled(Write(KubeletConf, InstallDir("kubelet.conf")))
    /\ \E kubelet \in Kubelets \ {Unreadable} : Begins(InstallDir("kubelet.exe"), kubelet)

Inv == ShapeOK /\ ControlOK /\ LineOK /\ WritingOK /\ Settled /\ Kept /\ Complete

-----------------------------------------------------------------------------
(* Operators *)

LEMMA OnlyOne ==
  ASSUME NEW x, NEW y
  PROVE  DOMAIN Only(x, y) = {x} /\ Only(x, y)[x] = y
BY DEF Only

LEMMA OverDomain ==
  ASSUME NEW f, NEW g
  PROVE  DOMAIN Over(f, g) = DOMAIN f \cup DOMAIN g
BY DEF Over

LEMMA OverThere ==
  ASSUME NEW f, NEW g, NEW x \in DOMAIN f
  PROVE  Over(f, g)[x] = f[x]
BY DEF Over

LEMMA OverBeyond ==
  ASSUME NEW f, NEW g, NEW x \in DOMAIN g \ DOMAIN f
  PROVE  Over(f, g)[x] = g[x]
BY DEF Over

LEMMA OverIsFunction ==
  ASSUME NEW f, NEW g
  PROVE  Over(f, g) = [x \in DOMAIN Over(f, g) |-> Over(f, g)[x]]
<1> DEFINE h == Over(f, g)
           F(x) == IF x \in DOMAIN f THEN f[x] ELSE g[x]
<1>1. DOMAIN h = DOMAIN f \cup DOMAIN g /\ \A x \in DOMAIN h : h[x] = F(x)
  BY DEF Over
<1>2. h = [x \in DOMAIN h |-> F(x)]
  <2>1. h = [x \in DOMAIN f \cup DOMAIN g |-> F(x)]
    BY DEF Over
  <2> QED
    BY <1>1, <2>1, Zenon
<1> HIDE DEF h, F
<1>3. [x \in DOMAIN h |-> F(x)] = [x \in DOMAIN h |-> h[x]]
  BY <1>1, Zenon
<1>4. h = [x \in DOMAIN h |-> h[x]]
  BY <1>2, <1>3, Zenon
<1> QED
  BY <1>4, Zenon DEF h

\* configure-cni a second time changes nothing.
LEMMA OverTwice ==
  ASSUME NEW f, NEW g
  PROVE  Over(f, Over(f, g)) = Over(f, g)
<1> DEFINE h == Over(f, g)
<1>1. DOMAIN h = DOMAIN f \cup DOMAIN g
  BY DEF Over
<1>2. \A x \in DOMAIN h : h[x] = IF x \in DOMAIN f THEN f[x] ELSE g[x]
  BY DEF Over
<1>3. DOMAIN f \cup DOMAIN h = DOMAIN f \cup DOMAIN g
  BY <1>1
<1>4. \A x \in DOMAIN h : (IF x \in DOMAIN f THEN f[x] ELSE h[x]) = IF x \in DOMAIN f THEN f[x] ELSE g[x]
  BY <1>2
<1> HIDE DEF h
<1>5. Over(f, h) = [x \in DOMAIN h |-> IF x \in DOMAIN f THEN f[x] ELSE g[x]]
  BY <1>1, <1>3, <1>4, Zenon DEF Over
<1>6. h = [x \in DOMAIN h |-> IF x \in DOMAIN f THEN f[x] ELSE g[x]]
  <2>1. h = [x \in DOMAIN f \cup DOMAIN g |-> IF x \in DOMAIN f THEN f[x] ELSE g[x]]
    BY DEF h, Over
  <2> QED
    BY <1>1, <2>1, Zenon
<1> QED
  BY <1>5, <1>6 DEF h

\* Without f's arguments, Over(f, g) is g.
LEMMA OverWithout ==
  ASSUME NEW f, NEW g, DOMAIN f \cap DOMAIN g = {}, g = [x \in DOMAIN g |-> g[x]]
  PROVE  Beyond(Over(f, g), f) = g
<1>1. DOMAIN Over(f, g) \ DOMAIN f = DOMAIN g
  <2>1. DOMAIN Over(f, g) = DOMAIN f \cup DOMAIN g
    BY OverDomain
  <2> QED
    BY <2>1
<1>2. \A x \in DOMAIN g : Over(f, g)[x] = g[x]
  BY OverBeyond
<1>3. [x \in DOMAIN g |-> Over(f, g)[x]] = [x \in DOMAIN g |-> g[x]]
  BY <1>2, Zenon
<1> QED
  BY <1>1, <1>3, Zenon DEF Beyond

LEMMA NothingBeyond ==
  ASSUME NEW f, NEW g, DOMAIN f \cap DOMAIN g = {}, g = [x \in DOMAIN g |-> g[x]]
  PROVE  Beyond(g, f) = g
<1>1. DOMAIN g \ DOMAIN f = DOMAIN g
  OBVIOUS
<1> QED
  BY <1>1, Zenon DEF Beyond

\* The rounds of Pick follow one from the other.
LEMMA PickUnfold ==
  ASSUME NEW s, Len(s) \in Nat, NEW places
  PROVE  \E r : /\ r[0] = <<>>
                /\ \A n \in 1..Len(s) :
                     r[n] = IF n \in places THEN Append(r[n - 1], s[n]) ELSE r[n - 1]
                /\ Pick(s, places) = r[Len(s)]
<1> DEFINE Round(f, n) == IF n \in places THEN Append(f[n - 1], s[n]) ELSE f[n - 1]
           Upto(f, n) == f = [m \in 0..n |-> IF m = 0 THEN <<>> ELSE Round(f, m)]
           r == CHOOSE f : f = [n \in 0..Len(s) |->
                  IF n = 0 THEN <<>>
                  ELSE IF n \in places THEN Append(f[n - 1], s[n])
                  ELSE f[n - 1]]
<1>1. \E f : Upto(f, Len(s))
  <2> DEFINE S == {n \in Nat : \E f : Upto(f, n)}
  <2>1. 0 \in S
    <3>1. Upto([m \in 0..0 |-> <<>>], 0)
      OBVIOUS
    <3> QED
      BY <3>1
  <2>2. ASSUME NEW n \in Nat, n \in S
        PROVE  n + 1 \in S
    <3>1. PICK f : Upto(f, n)
      BY <2>2
    <3> DEFINE g == [m \in 0..(n + 1) |-> IF m = 0 THEN <<>> ELSE Round(f, m)]
    <3>2. ASSUME NEW m \in 0..n
          PROVE  g[m] = f[m]
      <4> HIDE DEF Round
      <4> QED
        BY <3>1, <3>2
    <3>3. ASSUME NEW m \in 0..(n + 1), m # 0
          PROVE  Round(g, m) = Round(f, m)
      <4>1. m - 1 \in 0..n
        BY <3>3
      <4>2. g[m - 1] = f[m - 1]
        BY <3>2, <4>1
      <4> HIDE DEF g
      <4> QED
        BY <4>2
    <3>4. Upto(g, n + 1)
      <4> HIDE DEF Round
      <4>1. g = [m \in 0..(n + 1) |-> IF m = 0 THEN <<>> ELSE Round(f, m)]
        OBVIOUS
      <4>2. ASSUME NEW m \in 0..(n + 1)
            PROVE  (IF m = 0 THEN <<>> ELSE Round(f, m)) = IF m = 0 THEN <<>> ELSE Round(g, m)
        BY <3>3
      <4> HIDE DEF g
      <4>3. [m \in 0..(n + 1) |-> IF m = 0 THEN <<>> ELSE Round(f, m)]
              = [m \in 0..(n + 1) |-> IF m = 0 THEN <<>> ELSE Round(g, m)]
        BY <4>2, Zenon
      <4> QED
        BY <4>1, <4>3
    <3>5. n + 1 \in Nat
      OBVIOUS
    <3> HIDE DEF g, Upto
    <3> QED
      BY <3>4, <3>5, Zenon
  <2> HIDE DEF S
  <2>3. \A n \in Nat : n \in S
    BY <2>1, <2>2, Induction
  <2> QED
    BY <2>3 DEF S
<1>2. Upto(r, Len(s))
  BY <1>1, Zenon
<1>3. Pick(s, places) = r[Len(s)]
  BY Zenon DEF Pick
<1> HIDE DEF r
<1>4. ASSUME NEW n \in 0..Len(s)
      PROVE  r[n] = IF n = 0 THEN <<>> ELSE Round(r, n)
  <2> DEFINE h == [m \in 0..Len(s) |-> IF m = 0 THEN <<>> ELSE Round(r, m)]
  <2>1. h[n] = IF n = 0 THEN <<>> ELSE Round(r, n)
    OBVIOUS
  <2>2. r = h
    BY <1>2
  <2>3. r[n] = h[n]
    BY <2>2, Zenon
  <2> HIDE DEF h, Round
  <2> QED
    BY <2>1, <2>3, Zenon
<1>5. r[0] = <<>>
  <2> HIDE DEF Round
  <2> QED
    BY <1>4
<1>6. ASSUME NEW n \in 1..Len(s)
      PROVE  r[n] = Round(r, n)
  <2> HIDE DEF Round
  <2>1. n \in 0..Len(s) /\ n # 0
    OBVIOUS
  <2> QED
    BY <1>4, <2>1
<1> QED
  BY <1>3, <1>5, <1>6, Zenon

\* Appending adds one member.
LEMMA MembersOfAppend ==
  ASSUME NEW S, NEW s \in Seq(S), NEW x \in S
  PROVE  Append(s, x) \in Seq(S) /\ Members(Append(s, x)) = Members(s) \cup {x}
<1>1. Append(s, x) \in Seq(S) /\ Len(Append(s, x)) = Len(s) + 1
  OBVIOUS
<1>2. \A i \in 1..Len(s) : Append(s, x)[i] = s[i]
  OBVIOUS
<1>3. Append(s, x)[Len(s) + 1] = x
  OBVIOUS
<1>4. DOMAIN Append(s, x) = 1..(Len(s) + 1) /\ DOMAIN s = 1..Len(s) /\ Len(s) \in Nat
  BY <1>1
<1>5. 1..(Len(s) + 1) = (1..Len(s)) \cup {Len(s) + 1}
  BY <1>4
<1> DEFINE t == Append(s, x)
           n == Len(s)
<1>6. {t[i] : i \in (1..n) \cup {n + 1}} = {s[i] : i \in 1..n} \cup {x}
  <2> HIDE DEF t, n
  <2>1. \A i \in 1..n : t[i] = s[i]
    BY <1>2 DEF t, n
  <2>2. t[n + 1] = x
    BY <1>3 DEF t, n
  <2> QED
    BY <2>1, <2>2
<1> QED
  BY <1>1, <1>4, <1>5, <1>6 DEF Members

\* Pick picks what is at the places.
LEMMA PickPicks ==
  ASSUME NEW S, NEW s \in Seq(S), NEW places
  PROVE  /\ Pick(s, places) \in Seq(S)
         /\ Members(Pick(s, places)) = {s[i] : i \in places \cap DOMAIN s}
<1> DEFINE n == Len(s)
<1>1. n \in Nat /\ DOMAIN s = 1..n
  OBVIOUS
<1>2. PICK r : /\ r[0] = <<>>
               /\ \A k \in 1..n : r[k] = IF k \in places THEN Append(r[k - 1], s[k]) ELSE r[k - 1]
               /\ Pick(s, places) = r[n]
  BY <1>1, PickUnfold, ZenonT(30)
<1> DEFINE Right(k) == /\ r[k] \in Seq(S)
                       /\ Members(r[k]) = {s[i] : i \in places \cap (1..k)}
           Good == {k \in Nat : k <= n => Right(k)}
<1>3. 0 \in Good
  <2>1. 1..0 = {}
    OBVIOUS
  <2>2. Members(<<>>) = {}
    BY DEF Members
  <2>3. <<>> \in Seq(S)
    OBVIOUS
  <2>4. {s[i] : i \in places \cap (1..0)} = {}
    BY <2>1
  <2> QED
    BY <1>2, <2>2, <2>3, <2>4
<1>4. ASSUME NEW k \in Nat, k \in Good
      PROVE  k + 1 \in Good
  <2> SUFFICES ASSUME k + 1 <= n
               PROVE  Right(k + 1)
    BY <1>1
  <2>1. Right(k)
    BY <1>1, <1>4
  <2>2. k + 1 \in 1..n /\ (k + 1) - 1 = k
    BY <1>1
  <2>3. s[k + 1] \in S
    BY <1>1, <2>2
  <2>4. r[k + 1] = IF k + 1 \in places THEN Append(r[k], s[k + 1]) ELSE r[k]
    BY <1>2, <2>2
  <2>5. 1..(k + 1) = (1..k) \cup {k + 1}
    OBVIOUS
  <2> HIDE DEF n
  <2>6. CASE k + 1 \in places
    <3>1. Members(r[k + 1]) = Members(r[k]) \cup {s[k + 1]} /\ r[k + 1] \in Seq(S)
      BY <2>1, <2>3, <2>4, <2>6, MembersOfAppend
    <3>2. places \cap (1..(k + 1)) = (places \cap (1..k)) \cup {k + 1}
      BY <2>5, <2>6, Zenon
    <3>3. {s[i] : i \in (places \cap (1..k)) \cup {k + 1}}
            = {s[i] : i \in places \cap (1..k)} \cup {s[k + 1]}
      OBVIOUS
    <3> QED
      BY <2>1, <3>1, <3>2, <3>3, Zenon
  <2>7. CASE k + 1 \notin places
    <3>1. places \cap (1..(k + 1)) = places \cap (1..k)
      BY <2>5, <2>7, Zenon
    <3>2. r[k + 1] = r[k]
      BY <2>4, <2>7
    <3> QED
      BY <2>1, <3>1, <3>2, Zenon
  <2> QED
    BY <2>6, <2>7
<1> HIDE DEF Good
<1>5. n \in Good
  BY <1>1, <1>3, <1>4, Induction
<1>6. Right(n)
  BY <1>1, <1>5 DEF Good
<1> QED
  BY <1>1, <1>2, <1>6

-----------------------------------------------------------------------------
(* Command lines *)

LEMMA CNIOptions ==
  /\ DOMAIN CNIArgs = {"resolv-conf", "network-plugin", "cni-bin-dir", "cni-conf-dir"}
  /\ CNIArgs["cni-bin-dir"] = "k/cni"
  /\ CNIArgs["cni-conf-dir"] = "k/cni/config"
<1> DEFINE third == Over(Only("cni-bin-dir", "k/cni"), Only("cni-conf-dir", "k/cni/config"))
           second == Over(Only("network-plugin", "cni"), third)
<1>1. /\ DOMAIN third = {"cni-bin-dir", "cni-conf-dir"}
      /\ third["cni-bin-dir"] = "k/cni"
      /\ third["cni-conf-dir"] = "k/cni/config"
  BY DEF Over, Only
<1> HIDE DEF third
<1>2. /\ DOMAIN second = {"network-plugin", "cni-bin-dir", "cni-conf-dir"}
      /\ second["cni-bin-dir"] = "k/cni"
      /\ second["cni-conf-dir"] = "k/cni/config"
  BY <1>1 DEF Over, Only
<1>3. CNIArgs = Over(Only("resolv-conf", "\"\""), second)
  BY DEF CNIArgs, second, third
<1> HIDE DEF second
<1> QED
  BY <1>2, <1>3 DEF Over, Only

\* Which options of the unit are found, and with which values.
LEMMA Found ==
  ASSUME NEW ign \in Ignitions
  PROVE  /\ DOMAIN FoundOptions(ign) \subseteq {"cloud-provider", "v", "cloud-config"}
         /\ DOMAIN FoundOptions(ign) \subseteq DOMAIN ign.options
         /\ \A o \in DOMAIN FoundOptions(ign) : FoundOptions(ign)[o] = ign.options[o]
         /\ "v" \in DOMAIN ign.options => "v" \in DOMAIN FoundOptions(ign)
         /\ "cloud-config" \in DOMAIN FoundOptions(ign) => ign.options["cloud-config"] \in DOMAIN ConfNames
BY FilesAssumption DEF IgnitionFile, FoundOptions

\* The arguments: the options found, the path of cloud.conf translated, and a
\* verbosity in any case.
LEMMA Arguments ==
  ASSUME NEW ign \in Ignitions
  PROVE  LET args0 == KubeletArgs(ign)
             found == FoundOptions(ign)
         IN  /\ DOMAIN args0 \subseteq {"cloud-provider", "v", "cloud-config"}
             /\ "v" \in DOMAIN args0 /\ args0["v"] # ""
             /\ "v" \in DOMAIN ign.options => ign.options["v"] \in {"", args0["v"]}
             /\ "cloud-config" \in DOMAIN found => "cloud-config" \in DOMAIN args0
             /\ "cloud-config" \in DOMAIN args0 =>
                  /\ "cloud-config" \in DOMAIN found
                  /\ args0["cloud-config"] = InstallDir(ConfNames[ign.options["cloud-config"]])
<1> DEFINE found == FoundOptions(ign)
           given == [o \in {p \in DOMAIN found : p = "v" => found[p] # ""} |-> found[o]]
           placed == [o \in DOMAIN given |->
                        IF o = "cloud-config" THEN InstallDir(ConfNames[given[o]]) ELSE given[o]]
<1>1. KubeletArgs(ign) = Over(placed, Only("v", "3"))
  BY Zenon DEF KubeletArgs, ArgsOf
<1>2. /\ DOMAIN given = {p \in DOMAIN found : p = "v" => found[p] # ""}
      /\ \A o \in DOMAIN given : given[o] = found[o]
  OBVIOUS
<1> HIDE DEF found, given
<1>3. DOMAIN placed = DOMAIN given
  OBVIOUS
<1>4. "cloud-config" \in DOMAIN given =>
        placed["cloud-config"] = InstallDir(ConfNames[given["cloud-config"]])
  OBVIOUS
<1>5. "v" \in DOMAIN given => placed["v"] = given["v"]
  OBVIOUS
<1> HIDE DEF placed
<1>6. DOMAIN KubeletArgs(ign) = DOMAIN placed \cup {"v"}
  BY <1>1 DEF Over, Only
<1>7. "cloud-config" \in DOMAIN KubeletArgs(ign) =>
        /\ "cloud-config" \in DOMAIN placed
        /\ KubeletArgs(ign)["cloud-config"] = placed["cloud-config"]
  BY <1>1 DEF Over, Only
<1>8. KubeletArgs(ign)["v"] = IF "v" \in DOMAIN placed THEN placed["v"] ELSE "3"
  BY <1>1 DEF Over, Only
<1>9. /\ DOMAIN found \subseteq {"cloud-provider", "v", "cloud-config"}
      /\ \A o \in DOMAIN found : found[o] = ign.options[o]
      /\ "v" \in DOMAIN ign.options => "v" \in DOMAIN found
  BY Found DEF found
<1>10. DOMAIN KubeletArgs(ign) \subseteq {"cloud-provider", "v", "cloud-config"}
  BY <1>2, <1>3, <1>6, <1>9
<1>11. "v" \in DOMAIN KubeletArgs(ign) /\ KubeletArgs(ign)["v"] # ""
  BY <1>2, <1>3, <1>5, <1>6, <1>8
<1>12. "v" \in DOMAIN ign.options => ign.options["v"] \in {"", KubeletArgs(ign)["v"]}
  BY <1>2, <1>3, <1>5, <1>8, <1>9
<1>13. "cloud-config" \in DOMAIN KubeletArgs(ign) =>
         /\ "cloud-config" \in DOMAIN found
         /\ KubeletArgs(ign)["cloud-config"] = InstallDir(ConfNames[ign.options["cloud-config"]])
  BY <1>2, <1>3, <1>4, <1>7, <1>9
<1>14. "cloud-config" \in DOMAIN found => "cloud-config" \in DOMAIN KubeletArgs(ign)
  BY <1>2, <1>3, <1>6
<1> QED
  BY <1>10, <1>11, <1>12, <1>13, <1>14 DEF found

LEMMA ArgumentsAreSome ==
  ASSUME NEW ign \in Ignitions
  PROVE  KubeletArgs(ign) # <<>>
<1>1. "v" \in DOMAIN KubeletArgs(ign)
  BY Arguments
<1>2. DOMAIN <<>> = {}
  OBVIOUS
<1> QED
  BY <1>1, <1>2

\* A line as initialize-kubelet registers it.
LEMMA RegistrationOf ==
  ASSUME NEW ign \in Ignitions
  PROVE  LET r == Over(KubeletArgs(ign), BaseOptions)
         IN  /\ r \in Registrations
             /\ DOMAIN CNIArgs \cap DOMAIN r = {}
             /\ r["v"] # ""
             /\ "v" \in DOMAIN ign.options => ign.options["v"] \in {"", r["v"]}
             /\ "cloud-config" \in DOMAIN FoundOptions(ign) => "cloud-config" \in DOMAIN r
             /\ "cloud-config" \in DOMAIN r =>
                  /\ "cloud-config" \in DOMAIN FoundOptions(ign)
                  /\ r["cloud-config"] = InstallDir(ConfNames[ign.options["cloud-config"]])
<1> DEFINE r == Over(KubeletArgs(ign), BaseOptions)
<1>1. r \in Registrations
  BY DEF Registrations
<1>2. DOMAIN r = DOMAIN KubeletArgs(ign) \cup DOMAIN BaseOptions
  BY OverDomain
<1>3. \A x \in DOMAIN KubeletArgs(ign) : r[x] = KubeletArgs(ign)[x]
  BY OverThere
<1> HIDE DEF r
<1>4. DOMAIN CNIArgs \cap DOMAIN r = {}
  BY <1>2, Arguments, CNIOptions, BaseOptionsAssumption
<1>5. "cloud-config" \in DOMAIN r => "cloud-config" \in DOMAIN KubeletArgs(ign)
  BY <1>2, BaseOptionsAssumption
<1>6. "cloud-config" \in DOMAIN KubeletArgs(ign) => "cloud-config" \in DOMAIN r
  BY <1>2
<1> QED
  BY <1>1, <1>3, <1>4, <1>5, <1>6, Arguments DEF r

-----------------------------------------------------------------------------
(* What there is to write *)

\* Where the files of the ignition file go.
LEMMA Destinations ==
  ASSUME NEW ign \in Ignitions
  PROVE  LET places == FilesToTranslate(ign)
             conf   == IF "cloud-config" \in DOMAIN FoundOptions(ign)
                         THEN {ign.options["cloud-config"]} ELSE {}
         IN  /\ DOMAIN places = conf \cup {"/etc/kubernetes/kubeconfig", "/etc/kubernetes/kubelet-ca.crt"}
             /\ conf \subseteq DOMAIN ConfNames
             /\ \A path \in conf : places[path] = InstallDir(ConfNames[path])
             /\ places["/etc/kubernetes/kubeconfig"] = InstallDir("bootstrap-kubeconfig")
             /\ places["/etc/kubernetes/kubelet-ca.crt"] = InstallDir("kubelet-ca.crt")
<1> DEFINE found == FoundOptions(ign)
           conf  == IF "cloud-config" \in DOMAIN found THEN {ign.options["cloud-config"]} ELSE {}
           named == [path \in conf |-> InstallDir(ConfNames[path])]
           fixed == Over(Only("/etc/kubernetes/kubeconfig", InstallDir("bootstrap-kubeconfig")),
                         Only("/etc/kubernetes/kubelet-ca.crt", InstallDir("kubelet-ca.crt")))
<1>1. /\ DOMAIN fixed = {"/etc/kubernetes/kubeconfig", "/etc/kubernetes/kubelet-ca.crt"}
      /\ fixed["/etc/kubernetes/kubeconfig"] = InstallDir("bootstrap-kubeconfig")
      /\ fixed["/etc/kubernetes/kubelet-ca.crt"] = InstallDir("kubelet-ca.crt")
  BY DEF Over, Only
<1>2. DOMAIN named = conf /\ \A path \in conf : named[path] = InstallDir(ConfNames[path])
  OBVIOUS
<1>3. "cloud-config" \in DOMAIN found => found["cloud-config"] = ign.options["cloud-config"]
  BY Found
<1>4. FilesToTranslate(ign) = Over(named, fixed)
  BY <1>3 DEF FilesToTranslate
<1>5. conf \subseteq DOMAIN ConfNames
  BY Found
<1>6. conf \cap {"/etc/kubernetes/kubeconfig", "/etc/kubernetes/kubelet-ca.crt"} = {}
  BY <1>5, ConfNamesAssumption
<1> HIDE DEF named, fixed, conf
<1>7. DOMAIN FilesToTranslate(ign) = conf \cup {"/etc/kubernetes/kubeconfig", "/etc/kubernetes/kubelet-ca.crt"}
  BY <1>1, <1>2, <1>4, OverDomain
<1>8. \A path \in conf : FilesToTranslate(ign)[path] = InstallDir(ConfNames[path])
  BY <1>2, <1>4, OverThere
<1>9. \A path \in DOMAIN fixed : FilesToTranslate(ign)[path] = fixed[path]
  BY <1>1, <1>2, <1>4, <1>6, OverBeyond
<1> QED
  BY <1>1, <1>5, <1>7, <1>8, <1>9 DEF conf

LEMMA MembersInSeq ==
  ASSUME NEW S, NEW s \in Seq(S)
  PROVE  s \in Seq(Members(s)) /\ Members(s) \subseteq S
<1>1. Len(s) \in Nat /\ DOMAIN s = 1..Len(s) /\ \A i \in 1..Len(s) : s[i] \in S
  OBVIOUS
<1>2. \A i \in 1..Len(s) : s[i] \in Members(s)
  BY <1>1 DEF Members
<1>3. s = [i \in 1..Len(s) |-> s[i]]
  OBVIOUS
<1>4. s \in [1..Len(s) -> Members(s)]
  <2> DEFINE n == Len(s)
             M == Members(s)
             t == [i \in 1..n |-> s[i]]
  <2>1. \A i \in 1..n : s[i] \in M
    BY <1>2
  <2> HIDE DEF n, M
  <2>2. t \in [1..n -> M]
    BY <2>1
  <2> HIDE DEF t
  <2>3. s = t
    BY <1>3 DEF t, n
  <2> QED
    BY <2>2, <2>3 DEF n, M
<1>5. s \in Seq(Members(s))
  <2> DEFINE M == Members(s)
  <2>1. s \in [1..Len(s) -> M]
    BY <1>4
  <2> HIDE DEF M
  <2>2. s \in Seq(M)
    BY <1>1, <2>1
  <2> QED
    BY <2>2 DEF M
<1> QED
  BY <1>1, <1>5 DEF Members

\* What can be read has blocks.
LEMMA SourceOf ==
  ASSUME NEW source \in Sources, source # Unreadable
  PROVE  source \in Seq(Blocks) /\ Len(source) \in Nat /\ 1 <= Len(source)
<1>1. source \in Seq(Blocks) /\ source # <<>>
  BY DEF Sources, Contents
<1> QED
  BY <1>1

\* Mapping a sequence maps its members.
LEMMA MembersOfMapped ==
  ASSUME NEW S, NEW s \in Seq(S), NEW f
  PROVE  LET t == [i \in DOMAIN s |-> f[s[i]]]
         IN  t \in Seq({f[x] : x \in Members(s)}) /\ Members(t) = {f[x] : x \in Members(s)}
<1> DEFINE t == [i \in DOMAIN s |-> f[s[i]]]
           M == {f[x] : x \in Members(s)}
<1>1. Len(s) \in Nat /\ DOMAIN s = 1..Len(s)
  OBVIOUS
<1>2. \A i \in DOMAIN s : f[s[i]] \in M
  BY DEF Members
<1>3. t \in [1..Len(s) -> M]
  BY <1>1, <1>2
<1>4. t \in Seq(M)
  BY <1>1, <1>3
<1>5. Members(t) = {f[s[i]] : i \in DOMAIN s}
  BY DEF Members
<1>6. M = {f[s[i]] : i \in DOMAIN s}
  BY DEF Members
<1> QED
  BY <1>4, <1>5, <1>6

TranslationOf(ign, file) == Write(file.source, FilesToTranslate(ign)[file.path])

\* Every file that wmcb looks for is written, and no other.
LEMMA TranslatedTasks ==
  ASSUME NEW ign \in Ignitions
  PROVE  /\ Translated(ign) \in Seq(Members(Translated(ign)))
         /\ Members(Translated(ign)) =
              {TranslationOf(ign, ign.files[i]) :
                 i \in {j \in DOMAIN ign.files : ign.files[j].path \in DOMAIN FilesToTranslate(ign)}}
<1> DEFINE File   == [path : STRING, source : Sources]
           places == {j \in DOMAIN ign.files : ign.files[j].path \in DOMAIN FilesToTranslate(ign)}
           wanted == WantedFiles(ign)
           f      == [file \in File |-> TranslationOf(ign, file)]
           W      == {ign.files[i] : i \in places}
<1>1. ign.files \in Seq(File)
  BY FilesAssumption DEF IgnitionFile
<1>2. wanted = Pick(ign.files, places)
  BY DEF WantedFiles
<1> HIDE DEF File, places, wanted, f
<1>3. wanted \in Seq(File) /\ Members(wanted) = {ign.files[i] : i \in places \cap DOMAIN ign.files}
  BY <1>1, <1>2, PickPicks
<1>4. places \cap DOMAIN ign.files = places
  BY DEF places
<1>5. Members(wanted) = W
  BY <1>3, <1>4
<1>6. \A i \in DOMAIN wanted : wanted[i] \in File
  BY <1>3
<1>7. \A file \in File : f[file] = TranslationOf(ign, file)
  BY DEF f
<1>8. Translated(ign) = [i \in DOMAIN wanted |-> f[wanted[i]]]
  <2>1. Translated(ign) = [i \in DOMAIN wanted |-> TranslationOf(ign, wanted[i])]
    BY DEF Translated, TranslationOf, wanted
  <2> QED
    BY <1>6, <1>7, <2>1
<1>9. /\ Translated(ign) \in Seq({f[x] : x \in Members(wanted)})
      /\ Members(Translated(ign)) = {f[x] : x \in Members(wanted)}
  BY <1>3, <1>8, MembersOfMapped
<1>10. \A i \in places : f[ign.files[i]] = TranslationOf(ign, ign.files[i])
  BY <1>1, <1>7 DEF places
<1>11. {f[x] : x \in W} = {TranslationOf(ign, ign.files[i]) : i \in places}
  BY <1>10
<1> QED
  BY <1>5, <1>9, <1>11 DEF places

\* Every plugin is copied, and the configuration.
LEMMA CopyTasks ==
  ASSUME NEW package \in Packages
  PROVE  /\ CopyFiles(package) \in Seq(ConfigureTasks(package))
         /\ ConfigureTasks(package) =
              {Copy(package.dir[i].source, CNIBinDir(package.dir[i].name)) :
                 i \in {j \in DOMAIN package.dir : ~package.dir[j].isDir}}
                \cup {Copy(package.config, CNIConfDir(package.configName))}
<1> DEFINE Entry  == [name : STRING, isDir : BOOLEAN, source : Sources]
           places == {j \in DOMAIN package.dir : ~package.dir[j].isDir}
           picked == Pick(package.dir, places)
           Plugin(entry) == Copy(entry.source, CNIBinDir(entry.name))
           f      == [entry \in Entry |-> Plugin(entry)]
           W      == {package.dir[i] : i \in places}
           M      == {f[x] : x \in W}
           last   == Copy(package.config, CNIConfDir(package.configName))
<1>1. package.dir \in Seq(Entry)
  BY FilesAssumption DEF Package
<1> HIDE DEF Entry, places, picked, f, last, Plugin
<1>2. picked \in Seq(Entry) /\ Members(picked) = {package.dir[i] : i \in places \cap DOMAIN package.dir}
  BY <1>1, PickPicks DEF picked
<1>3. places \cap DOMAIN package.dir = places
  BY DEF places
<1>4. Members(picked) = W
  BY <1>2, <1>3
<1>5. \A entry \in Entry : f[entry] = Plugin(entry)
  BY DEF f
<1>6. \A i \in DOMAIN picked : picked[i] \in Entry
  BY <1>2
<1>7. Binaries(package) = [i \in DOMAIN picked |-> f[picked[i]]]
  <2>1. Binaries(package) =
          [i \in DOMAIN picked |-> Plugin(picked[i])]
    BY DEF Binaries, picked, places, Plugin
  <2> QED
    BY <1>5, <1>6, <2>1
<1>8. Binaries(package) \in Seq(M) /\ Members(Binaries(package)) = M
  <2>1. /\ Binaries(package) \in Seq({f[x] : x \in Members(picked)})
        /\ Members(Binaries(package)) = {f[x] : x \in Members(picked)}
    BY <1>2, <1>7, MembersOfMapped
  <2> QED
    BY <1>4, <2>1
<1> DEFINE U == M \cup {last}
<1>9. M \subseteq U /\ last \in U
  OBVIOUS
<1> HIDE DEF U, M
<1>10. Binaries(package) \in Seq(U)
  BY <1>8, <1>9
<1>11. CopyFiles(package) = Append(Binaries(package), last)
  BY DEF CopyFiles, last
<1>12. CopyFiles(package) \in Seq(U) /\ ConfigureTasks(package) = M \cup {last}
  BY <1>8, <1>9, <1>10, <1>11, MembersOfAppend DEF ConfigureTasks
<1>13. M = {Copy(package.dir[i].source, CNIBinDir(package.dir[i].name)) : i \in places}
  <2>1. \A i \in places : f[package.dir[i]] = Copy(package.dir[i].source, CNIBinDir(package.dir[i].name))
    BY <1>1, <1>5 DEF places, Plugin
  <2> QED
    BY <2>1 DEF M
<1> QED
  BY <1>12, <1>13 DEF U, places, last

\* The first two files of a kubelet.
LEMMA OpeningTasks ==
  ASSUME NEW kubelet \in Kubelets
  PROVE  LET first  == Write(KubeletConf, InstallDir("kubelet.conf"))
             second == Copy(kubelet, InstallDir("kubelet.exe"))
         IN  /\ Opening(kubelet) \in Seq(Members(Opening(kubelet)))
             /\ Members(Opening(kubelet)) = {first, second}
<1> DEFINE first  == Write(KubeletConf, InstallDir("kubelet.conf"))
           second == Copy(kubelet, InstallDir("kubelet.exe"))
<1> HIDE DEF first, second
<1>1. Opening(kubelet) = <<first, second>>
  BY DEF Opening, first, second
<1>2. <<first, second>> \in Seq({first, second})
  OBVIOUS
<1>3. Members(<<first, second>>) = {first, second}
  <2>1. DOMAIN <<first, second>> = {1, 2}
    OBVIOUS
  <2> QED
    BY <2>1 DEF Members
<1> QED
  BY <1>1, <1>2, <1>3 DEF first, second

IsTask(job) == job.source \in Sources /\ job.truncate \in BOOLEAN

\* The names under which initialize-kubelet writes files are all different.
LEMMA TranslatedApart ==
  ASSUME NEW ign \in Ignitions,
         NEW p \in DOMAIN FilesToTranslate(ign), NEW q \in DOMAIN FilesToTranslate(ign)
  PROVE  /\ FilesToTranslate(ign)[p] = FilesToTranslate(ign)[q] => p = q
         /\ FilesToTranslate(ign)[p] # InstallDir("kubelet.conf")
         /\ FilesToTranslate(ign)[p] # InstallDir("kubelet.exe")
<1> DEFINE conf == IF "cloud-config" \in DOMAIN FoundOptions(ign)
                     THEN {ign.options["cloud-config"]} ELSE {}
           places == FilesToTranslate(ign)
<1>1. /\ DOMAIN places = conf \cup {"/etc/kubernetes/kubeconfig", "/etc/kubernetes/kubelet-ca.crt"}
      /\ conf \subseteq DOMAIN ConfNames
      /\ \A path \in conf : places[path] = InstallDir(ConfNames[path])
      /\ places["/etc/kubernetes/kubeconfig"] = InstallDir("bootstrap-kubeconfig")
      /\ places["/etc/kubernetes/kubelet-ca.crt"] = InstallDir("kubelet-ca.crt")
  BY Destinations
<1>2. \A path, other \in conf : path = other
  OBVIOUS
<1> HIDE DEF conf, places
<1>3. \A path \in conf : places[path] \notin
        {<<"k", "kubelet.conf">>, <<"k", "kubelet.exe">>, <<"k", "bootstrap-kubeconfig">>, <<"k", "kubelet-ca.crt">>}
  BY <1>1, ConfNamesAssumption DEF InstallDir
<1>4. /\ places["/etc/kubernetes/kubeconfig"] = <<"k", "bootstrap-kubeconfig">>
      /\ places["/etc/kubernetes/kubelet-ca.crt"] = <<"k", "kubelet-ca.crt">>
  BY <1>1 DEF InstallDir
<1>5. /\ InstallDir("kubelet.conf") = <<"k", "kubelet.conf">>
      /\ InstallDir("kubelet.exe") = <<"k", "kubelet.exe">>
  BY DEF InstallDir
<1>6. /\ <<"k", "bootstrap-kubeconfig">> # <<"k", "kubelet-ca.crt">>
      /\ <<"k", "bootstrap-kubeconfig">> \notin {<<"k", "kubelet.conf">>, <<"k", "kubelet.exe">>}
      /\ <<"k", "kubelet-ca.crt">> \notin {<<"k", "kubelet.conf">>, <<"k", "kubelet.exe">>}
  OBVIOUS
<1>7. p \in DOMAIN places /\ q \in DOMAIN places
  BY DEF places
<1>8. CASE p \in conf
  <2>1. CASE q \in conf
    BY <1>2, <1>3, <1>5, <1>8, <2>1, Zenon DEF places
  <2>2. CASE q \notin conf
    <3>1. q = "/etc/kubernetes/kubeconfig" \/ q = "/etc/kubernetes/kubelet-ca.crt"
      BY <1>1, <1>7, <2>2
    <3>2. places[q] # places[p]
      BY <1>3, <1>4, <1>8, <3>1
    <3> QED
      BY <1>3, <1>5, <1>8, <3>2 DEF places
  <2> QED
    BY <2>1, <2>2
<1>9. CASE p \notin conf
  <2>1. p = "/etc/kubernetes/kubeconfig" \/ p = "/etc/kubernetes/kubelet-ca.crt"
    BY <1>1, <1>7, <1>9
  <2>2. places[p] \notin {InstallDir("kubelet.conf"), InstallDir("kubelet.exe")}
    BY <1>4, <1>5, <1>6, <2>1
  <2>3. CASE q \in conf
    <3>1. places[q] # places[p]
      BY <1>3, <1>4, <2>1, <2>3
    <3> QED
      BY <2>2, <3>1 DEF places
  <2>4. CASE q \notin conf
    <3>1. q = "/etc/kubernetes/kubeconfig" \/ q = "/etc/kubernetes/kubelet-ca.crt"
      BY <1>1, <1>7, <2>4
    <3>2. places[q] = places[p] => p = q
      BY <1>4, <1>6, <2>1, <3>1
    <3> QED
      BY <2>2, <3>2 DEF places
  <2> QED
    BY <2>3, <2>4
<1> QED
  BY <1>8, <1>9

\* What initialize-kubelet writes: no file twice.
LEMMA InitializeApart ==
  ASSUME NEW ign \in Ignitions, NEW kubelet \in Kubelets
  PROVE  /\ \A job \in InitializeTasks(ign, kubelet) : IsTask(job)
         /\ \A job, other \in InitializeTasks(ign, kubelet) : job.path = other.path => job = other
<1> DEFINE places == {j \in DOMAIN ign.files : ign.files[j].path \in DOMAIN FilesToTranslate(ign)}
           first  == Write(KubeletConf, InstallDir("kubelet.conf"))
           second == Copy(kubelet, InstallDir("kubelet.exe"))
           T      == {TranslationOf(ign, ign.files[i]) : i \in places}
<1>1. InitializeTasks(ign, kubelet) = {first, second} \cup T
  BY OpeningTasks, TranslatedTasks DEF InitializeTasks
<1>2. /\ first.path = InstallDir("kubelet.conf") /\ IsTask(first)
      /\ second.path = InstallDir("kubelet.exe") /\ IsTask(second)
  BY FilesAssumption DEF IsTask, Write, Copy
<1>3. first.path # second.path
  BY <1>2 DEF InstallDir
<1>4. ASSUME NEW job \in T
      PROVE  /\ IsTask(job)
             /\ \E i \in places : /\ job = TranslationOf(ign, ign.files[i])
                                  /\ job.path = FilesToTranslate(ign)[ign.files[i].path]
  <2>1. PICK i \in places : job = TranslationOf(ign, ign.files[i])
    OBVIOUS
  <2>2. ign.files \in Seq([path : STRING, source : Sources]) /\ i \in DOMAIN ign.files
    BY FilesAssumption DEF IgnitionFile
  <2>3. ign.files[i].source \in Sources
    <3> DEFINE File == [path : STRING, source : Sources]
    <3>1. ign.files \in Seq(File)
      BY <2>2
    <3> HIDE DEF File
    <3>2. ign.files[i] \in File
      BY <2>2, <3>1
    <3> QED
      BY <3>2 DEF File
  <2> QED
    BY <2>1, <2>3 DEF IsTask, TranslationOf, Write
<1> HIDE DEF T, first, second
<1>5. \A job \in T : job.path \notin {first.path, second.path}
  BY <1>2, <1>4, TranslatedApart
<1>6. ASSUME NEW job \in T, NEW other \in T, job.path = other.path
      PROVE  job = other
  <2>1. PICK i \in places : /\ job = TranslationOf(ign, ign.files[i])
                            /\ job.path = FilesToTranslate(ign)[ign.files[i].path]
    BY <1>4
  <2>2. PICK j \in places : /\ other = TranslationOf(ign, ign.files[j])
                            /\ other.path = FilesToTranslate(ign)[ign.files[j].path]
    BY <1>4
  <2>3. ign.files[i].path = ign.files[j].path
    BY <1>6, <2>1, <2>2, TranslatedApart
  <2>4. i = j
    BY <2>3, FilesAssumption DEF IgnitionFile
  <2> QED
    BY <2>1, <2>2, <2>4
<1> QED
  BY <1>1, <1>2, <1>3, <1>4, <1>5, <1>6

\* What configure-cni writes: no file twice, and none of the kubelet's own.
LEMMA ConfigureApart ==
  ASSUME NEW package \in Packages
  PROVE  /\ \A job \in ConfigureTasks(package) :
              /\ IsTask(job)
              /\ job.path \notin {InstallDir("kubelet.conf"), InstallDir("kubelet.exe")}
         /\ \A job, other \in ConfigureTasks(package) : job.path = other.path => job = other
<1> DEFINE places == {j \in DOMAIN package.dir : ~package.dir[j].isDir}
           Plugin(i) == Copy(package.dir[i].source, CNIBinDir(package.dir[i].name))
           T      == {Plugin(i) : i \in places}
           last   == Copy(package.config, CNIConfDir(package.configName))
<1>1. ConfigureTasks(package) = T \cup {last}
  BY CopyTasks
<1>2. /\ last.path = CNIConfDir(package.configName) /\ IsTask(last)
      /\ last.path \notin {InstallDir("kubelet.conf"), InstallDir("kubelet.exe")}
  BY FilesAssumption DEF IsTask, Copy, Package, CNIConfDir, InstallDir
<1>3. ASSUME NEW job \in T
      PROVE  /\ IsTask(job)
             /\ \E i \in places : job = Plugin(i) /\ job.path = CNIBinDir(package.dir[i].name)
  <2>1. PICK i \in places : job = Plugin(i)
    OBVIOUS
  <2>2. /\ package.dir \in Seq([name : STRING, isDir : BOOLEAN, source : Sources])
        /\ i \in DOMAIN package.dir
    BY FilesAssumption DEF Package
  <2>3. package.dir[i].source \in Sources
    <3> DEFINE Entry == [name : STRING, isDir : BOOLEAN, source : Sources]
    <3>1. package.dir \in Seq(Entry)
      BY <2>2
    <3> HIDE DEF Entry
    <3>2. package.dir[i] \in Entry
      BY <2>2, <3>1
    <3> QED
      BY <3>2 DEF Entry
  <2> QED
    BY <2>1, <2>3 DEF IsTask, Copy
<1> HIDE DEF T, last, Plugin
<1>4. \A job \in T : job.path \notin {last.path, InstallDir("kubelet.conf"), InstallDir("kubelet.exe")}
  BY <1>2, <1>3 DEF CNIBinDir, CNIConfDir, InstallDir
<1>5. ASSUME NEW job \in T, NEW other \in T, job.path = other.path
      PROVE  job = other
  <2>1. PICK i \in places : job = Plugin(i) /\ job.path = CNIBinDir(package.dir[i].name)
    BY <1>3
  <2>2. PICK j \in places : other = Plugin(j) /\ other.path = CNIBinDir(package.dir[j].name)
    BY <1>3
  <2>3. package.dir[i].name = package.dir[j].name
    BY <1>5, <2>1, <2>2 DEF CNIBinDir
  <2>4. i = j
    BY <2>3, FilesAssumption DEF Package
  <2> QED
    BY <2>1, <2>2, <2>4
<1> QED
  BY <1>1, <1>2, <1>3, <1>4, <1>5

-----------------------------------------------------------------------------
(* Tasks and the disk *)

LEMMA InputOf ==
  ASSUME input \in Inputs
  PROVE  /\ input.command \in {"none", "initialize-kubelet", "configure-cni"}
         /\ Initializing => input.ign \in Ignitions /\ input.kubelet \in Kubelets
         /\ Configuring => input.package \in Packages
BY DEF Inputs, Initializing, Configuring

LEMMA TasksOf ==
  ASSUME input \in Inputs
  PROVE  /\ \A job \in Tasks : IsTask(job)
         /\ \A job, other \in Tasks : job.path = other.path => job = other
         /\ Configuring => \A job \in Tasks :
              job.path \notin {InstallDir("kubelet.conf"), InstallDir("kubelet.exe")}
         /\ Due \subseteq Tasks
         /\ Initializing => Members(Opening(input.kubelet)) \subseteq Tasks
<1>1. CASE Initializing
  <2>1. Tasks = InitializeTasks(input.ign, input.kubelet) /\ ~Configuring
    BY <1>1 DEF Tasks, Initializing, Configuring
  <2>2. input.ign \in Ignitions /\ input.kubelet \in Kubelets
    BY <1>1, InputOf
  <2>3. Members(Opening(input.kubelet)) \subseteq Tasks
    BY <2>1 DEF InitializeTasks
  <2> QED
    BY <2>1, <2>2, <2>3, InitializeApart DEF Due
<1>2. CASE Configuring
  <2>1. Tasks = ConfigureTasks(input.package) /\ ~Initializing /\ Due = Tasks
    BY <1>2 DEF Tasks, Initializing, Configuring, Due
  <2>2. input.package \in Packages
    BY <1>2, InputOf
  <2> QED
    BY <2>1, <2>2, ConfigureApart
<1>3. CASE ~Initializing /\ ~Configuring
  <2>1. Tasks = {} /\ Due = Tasks
    BY <1>3 DEF Tasks, Initializing, Configuring, Due
  <2> QED
    BY <1>3, <2>1
<1> QED
  BY <1>1, <1>2, <1>3

\* A file that no step touches stays as it was written.
LEMMA FulfilledKept ==
  ASSUME NEW job, Fulfilled(job),
         job.path \in DOMAIN disk => job.path \in DOMAIN disk' /\ disk'[job.path] = disk[job.path]
  PROVE  Fulfilled(job)'
BY DEF Fulfilled, Begins

LEMMA BeginsKept ==
  ASSUME NEW path, NEW content, Begins(path, content),
         path \in DOMAIN disk => path \in DOMAIN disk' /\ disk'[path] = disk[path]
  PROVE  Begins(path, content)'
BY DEF Begins

\* So does what is kept of the file that was there.
LEMMA TailSame ==
  ASSUME NEW path, NEW source, TailKept(path, source), before' = before, disk'[path] = disk[path]
  PROVE  TailKept(path, source)'
BY DEF TailKept, Old

LEMMA UntouchedSame ==
  ASSUME NEW path, Untouched(path), before' = before,
         path \in DOMAIN disk' => path \in DOMAIN disk /\ disk'[path] = disk[path]
  PROVE  Untouched(path)'
BY DEF Untouched

LEMMA TasksSame ==
  ASSUME input' = input
  PROVE  Tasks' = Tasks
BY DEF Tasks, Members, InitializeTasks, ConfigureTasks

\* A step that leaves the disk alone.
LEMMA KeptSame ==
  ASSUME Kept, disk' = disk, input' = input, before' = before,
         pc' # "idle" \/ outcome' = "success" => pc # "idle" \/ outcome = "success"
  PROVE  Kept'
<1> SUFFICES ASSUME pc' # "idle" \/ outcome' = "success"
             PROVE  /\ DOMAIN before' \subseteq DOMAIN disk'
                    /\ \A path : (\A job \in Tasks' : job.path # path) => Untouched(path)'
                    /\ \A job \in Tasks' :
                         ~job.truncate /\ job.source # Unreadable /\ job.path \in DOMAIN disk'
                           => TailKept(job.path, job.source)'
  BY DEF Kept
<1>1. /\ DOMAIN before \subseteq DOMAIN disk
      /\ \A path : (\A job \in Tasks : job.path # path) => Untouched(path)
      /\ \A job \in Tasks : ~job.truncate /\ job.source # Unreadable /\ job.path \in DOMAIN disk
           => TailKept(job.path, job.source)
  BY DEF Kept
<1>2. Tasks' = Tasks
  BY TasksSame
<1>3. ASSUME NEW path, \A job \in Tasks' : job.path # path
      PROVE  Untouched(path)'
  BY <1>1, <1>2, <1>3, UntouchedSame
<1>4. ASSUME NEW job \in Tasks', ~job.truncate, job.source # Unreadable, job.path \in DOMAIN disk'
      PROVE  TailKept(job.path, job.source)'
  <2>1. TailKept(job.path, job.source)
    BY <1>1, <1>2, <1>4
  <2> QED
    BY <2>1, TailSame
<1> QED
  BY <1>1, <1>3, <1>4

\* A command that begins has changed nothing yet.
LEMMA KeptFromStart ==
  ASSUME ShapeOK, before' = disk, disk' = disk
  PROVE  Kept'
<1>1. ASSUME NEW job, job.path \in DOMAIN disk'
      PROVE  TailKept(job.path, job.source)'
  <2>1. disk[job.path] \in Seq(Blocks)
    BY <1>1 DEF ShapeOK, Contents
  <2>2. Len(disk[job.path]) \in Nat
    BY <2>1
  <2> QED
    BY <1>1, <2>2 DEF TailKept, Old
<1>2. \A path : Untouched(path)'
  BY DEF Untouched
<1> QED
  BY <1>1, <1>2 DEF Kept

\* So does a registered kubelet, if its two files are left alone.
LEMMA CompleteKept ==
  ASSUME Complete,
         line' # NoLine /\ ~unseen' /\ ~marked' => line # NoLine /\ ~unseen /\ ~marked,
         \A path \in {InstallDir("kubelet.conf"), InstallDir("kubelet.exe")} :
           path \in DOMAIN disk => path \in DOMAIN disk' /\ disk'[path] = disk[path]
  PROVE  Complete'
<1> SUFFICES ASSUME line' # NoLine /\ ~unseen' /\ ~marked'
             PROVE  /\ Fulfilled(Write(KubeletConf, InstallDir("kubelet.conf")))'
                    /\ (\E kubelet \in Kubelets \ {Unreadable} :
                          Begins(InstallDir("kubelet.exe"), kubelet))'
  BY DEF Complete
<1> DEFINE conf == Write(KubeletConf, InstallDir("kubelet.conf"))
<1>1. Fulfilled(conf)
  BY DEF Complete
<1>2. conf.path = InstallDir("kubelet.conf")
  BY DEF Write
<1> HIDE DEF conf
<1>3. Fulfilled(conf)'
  BY <1>1, <1>2, FulfilledKept
<1>4. PICK kubelet \in Kubelets \ {Unreadable} : Begins(InstallDir("kubelet.exe"), kubelet)
  BY DEF Complete
<1>5. Begins(InstallDir("kubelet.exe"), kubelet)'
  BY <1>4, BeginsKept
<1> QED
  BY <1>3, <1>5 DEF conf

\* When a command has nothing left to write, what was due is written.
LEMMA AllFulfilled ==
  ASSUME Inv, pc # "idle", jobs = <<>>
  PROVE  \A job \in Due : Fulfilled(job)
<1>1. Members(<<>>) = {}
  BY DEF Members
<1> QED
  BY <1>1 DEF Inv, Settled

LEMMA DueIsAll ==
  ASSUME Inv, Initializing => args # <<>>
  PROVE  Due = Tasks
BY DEF Due, Initializing

-----------------------------------------------------------------------------
(* Steps that end a command *)

LEMMA ExitStep ==
  ASSUME Inv, NEW result, Exit(result), UNCHANGED <<disk, registration, input>>,
         pc # "idle", failures' \in 0..MaxFailures,
         result = "error" \/ (result = "success" /\ pc = "start")
  PROVE  Inv'
<1>0. UNCHANGED <<line, marked, unseen>>
  BY DEF registration
<1>1. ShapeOK'
  <2>1. before' \in {before, <<>>}
    BY DEF Exit
  <2>2. \A path \in DOMAIN before' : before'[path] \in Contents
    BY <2>1 DEF Inv, ShapeOK
  <2> QED
    BY <1>0, <2>2 DEF Inv, ShapeOK, Exit, Inputs, Registrations, WithCNI, Contents
<1>2. ControlOK'
  BY ArgumentsAreSome DEF Inv, ControlOK, Exit, Initializing, Configuring
<1>3. LineOK'
  BY <1>0 DEF Inv, LineOK, Exit, Finished, Initializing, Configuring, WithCNI, Registrations
<1>4. WritingOK'
  BY DEF Inv, WritingOK, Exit
<1>5. Settled'
  <2> SUFFICES ASSUME result = "success", NEW job \in Due'
               PROVE  Fulfilled(job)'
    BY DEF Settled, Exit
  <2>1. Due' = Tasks
    BY DEF Due, Exit, Tasks
  <2>2. Initializing => args # <<>>
    BY ArgumentsAreSome, InputOf DEF Inv, ControlOK, ShapeOK
  <2>3. jobs = <<>>
    BY DEF Inv, ControlOK
  <2>4. Fulfilled(job)
    BY <2>1, <2>2, <2>3, AllFulfilled, DueIsAll
  <2> QED
    BY <2>4, FulfilledKept
<1>6. Complete'
  BY <1>0, CompleteKept DEF Inv
<1>7. Kept'
  <2>1. CASE result = "success"
    <3>1. before' = before
      BY <2>1 DEF Exit
    <3> QED
      BY <3>1, KeptSame DEF Inv
  <2>2. CASE result = "error"
    BY <2>2 DEF Kept, Exit
  <2> QED
    BY <2>1, <2>2
<1> QED
  BY <1>1, <1>2, <1>3, <1>4, <1>5, <1>6, <1>7 DEF Inv

LEMMA StartStep == ASSUME Inv, Start PROVE Inv'
<1>1. failures' \in 0..MaxFailures
  BY DEF Start, Inv, ShapeOK
<1> QED
  BY <1>1, ExitStep DEF Start

LEMMA InterruptedStep == ASSUME Inv, Interrupted PROVE Inv'
<1>1. failures' \in 0..MaxFailures
  BY FilesAssumption DEF Interrupted, Inv, ShapeOK
<1> QED
  BY <1>1, ExitStep DEF Interrupted

-----------------------------------------------------------------------------
(* Steps that begin a command, or come between its files *)

LEMMA BeginInitializeStep ==
  ASSUME Inv, NEW next \in {"write", "remove"}, BeginInitialize(next),
         unseen' \in BOOLEAN, failures' \in 0..MaxFailures,
         unseen' # unseen => unseen' /\ line # NoLine,
         next = "write" => line = NoLine \/ unseen',
         next = "remove" => line # NoLine
  PROVE  Inv'
<1>1. PICK ign \in Ignitions, kubelet \in Kubelets :
        /\ input' = [command |-> "initialize-kubelet", ign |-> ign, kubelet |-> kubelet]
        /\ jobs' = Opening(kubelet)
  BY DEF BeginInitialize
<1>2. /\ pc = "idle" /\ pc' = next /\ outcome' = "none" /\ before' = disk
      /\ UNCHANGED <<disk, line, marked, at, args>>
  BY DEF BeginInitialize
<1>3. /\ Initializing' /\ ~Configuring'
      /\ input' \in Inputs /\ input'.ign = ign /\ input'.kubelet = kubelet
      /\ input'.command = "initialize-kubelet"
  BY <1>1 DEF Initializing, Configuring, Inputs
<1>4. args = <<>> /\ at = 0
  BY <1>2 DEF Inv, ControlOK, WritingOK
<1>5. ShapeOK'
  BY <1>2, <1>3 DEF Inv, ShapeOK, Registrations, WithCNI, Contents, Inputs
<1>6. ControlOK'
  BY <1>2, <1>3, <1>4 DEF ControlOK
<1>7. LineOK'
  BY <1>2, <1>3 DEF Inv, LineOK, Finished
<1>8. Due' = Members(Opening(kubelet))
  BY <1>2, <1>3, <1>4 DEF Due, Members, Opening, Write, Copy, InstallDir
<1>9. Members(jobs)' = Members(Opening(kubelet))
  BY <1>1 DEF Members
<1>10. WritingOK'
  <2>1. Tasks' = InitializeTasks(ign, kubelet)
    BY <1>3 DEF Tasks, InitializeTasks, Members, Opening, Translated
  <2>2. jobs' \in Seq(Members(Opening(kubelet)))
    BY <1>1, OpeningTasks
  <2>3. Members(Opening(kubelet)) \subseteq Tasks'
    BY <2>1 DEF InitializeTasks
  <2>4. jobs' \in Seq(Tasks')
    BY <2>2, <2>3
  <2> QED
    BY <1>2, <1>4, <2>4 DEF WritingOK
<1>11. Settled'
  BY <1>8, <1>9 DEF Settled
<1>12. Complete'
  BY <1>2, CompleteKept DEF Inv
<1>13. Kept'
  BY <1>2, KeptFromStart DEF Inv
<1> QED
  BY <1>5, <1>6, <1>7, <1>10, <1>11, <1>12, <1>13 DEF Inv

LEMMA InitializeKubeletStep == ASSUME Inv, InitializeKubelet PROVE Inv'
<1>1. unseen \in BOOLEAN /\ failures \in 0..MaxFailures /\ MaxFailures \in Nat
  BY FilesAssumption DEF Inv, ShapeOK
<1>2. CASE /\ BeginInitialize(IF line = NoLine THEN "write" ELSE "remove")
           /\ UNCHANGED <<unseen, failures>>
  <2>1. CASE line = NoLine
    BY <1>1, <1>2, <2>1, BeginInitializeStep
  <2>2. CASE line # NoLine
    BY <1>1, <1>2, <2>2, BeginInitializeStep
  <2> QED
    BY <2>1, <2>2
<1>3. CASE /\ line # NoLine /\ BeginInitialize("write") /\ unseen' = TRUE
           /\ failures < MaxFailures /\ failures' = failures + 1
  <2>1. failures' \in 0..MaxFailures
    BY <1>1, <1>3
  <2>2. unseen' \in BOOLEAN /\ unseen'
    BY <1>3
  <2> QED
    BY <1>3, <2>1, <2>2, BeginInitializeStep
<1> QED
  BY <1>2, <1>3 DEF InitializeKubelet

LEMMA ConfigureStep == ASSUME Inv, Configure PROVE Inv'
<1>1. PICK package \in Packages :
        /\ input' = [command |-> "configure-cni", package |-> package]
        /\ jobs' = CopyFiles(package)
  BY DEF Configure
<1>2. /\ pc = "idle" /\ line # NoLine /\ pc' = "write" /\ outcome' = "none" /\ before' = disk
      /\ UNCHANGED <<disk, line, marked, unseen, at, args, failures>>
  BY DEF Configure, registration
<1>3. /\ ~Initializing' /\ Configuring'
      /\ input' \in Inputs /\ input'.package = package /\ input'.command = "configure-cni"
  BY <1>1 DEF Initializing, Configuring, Inputs
<1>4. args = <<>> /\ at = 0
  BY <1>2 DEF Inv, ControlOK, WritingOK
<1>5. ShapeOK'
  BY <1>2, <1>3 DEF Inv, ShapeOK, Registrations, WithCNI, Contents, Inputs
<1>6. ControlOK'
  BY <1>2, <1>3, <1>4 DEF ControlOK
<1>7. LineOK'
  BY <1>2, <1>3 DEF Inv, LineOK, Finished
<1>8. Tasks' = ConfigureTasks(package) /\ Due' = Tasks'
  BY <1>3 DEF Tasks, Due, ConfigureTasks, Members, CopyFiles
<1>9. Members(jobs)' = ConfigureTasks(package)
  BY <1>1 DEF Members, ConfigureTasks
<1>10. WritingOK'
  <2>1. jobs' \in Seq(Tasks')
    BY <1>1, <1>8, CopyTasks
  <2> QED
    BY <1>2, <1>4, <2>1 DEF WritingOK
<1>11. Settled'
  BY <1>8, <1>9 DEF Settled
<1>12. Complete'
  BY <1>2, CompleteKept DEF Inv
<1>13. Kept'
  BY <1>2, KeptFromStart DEF Inv
<1> QED
  BY <1>5, <1>6, <1>7, <1>10, <1>11, <1>12, <1>13 DEF Inv

\* A step of a command that leaves files and jobs alone.
LEMMA QuietStep ==
  ASSUME Inv, UNCHANGED <<disk, input, jobs, args, before, failures>>,
         pc # "idle", pc' # "idle", UNCHANGED <<at, outcome>>, at > 0 => pc' = "write",
         line' \in {NoLine} \cup Registrations \cup WithCNI,
         marked' \in BOOLEAN, unseen' \in BOOLEAN,
         pc' \in {"idle", "remove", "write", "parse", "create", "update", "start"}
  PROVE  ShapeOK' /\ WritingOK' /\ Settled' /\ Kept'
<1>1. ShapeOK'
  BY DEF Inv, ShapeOK, Registrations, WithCNI, Contents, Inputs
<1>2. Tasks' = Tasks /\ Due' = Due /\ Members(jobs)' = Members(jobs)
  BY DEF Tasks, Due, Members, InitializeTasks, ConfigureTasks
<1>3. WritingOK'
  BY <1>2 DEF Inv, WritingOK
<1>4. ASSUME NEW job, Fulfilled(job)
      PROVE  Fulfilled(job)'
  BY <1>4, FulfilledKept
<1>5. Settled'
  BY <1>2, <1>4 DEF Inv, Settled
<1>6. Kept'
  BY KeptSame DEF Inv
<1> QED
  BY <1>1, <1>3, <1>5, <1>6

LEMMA StopAndRemoveStep == ASSUME Inv, StopAndRemove PROVE Inv'
<1>1. pc = "remove" /\ UNCHANGED <<disk, line, unseen, input, failures>>
  BY DEF StopAndRemove
<1>2. CASE /\ ~marked /\ marked' = TRUE /\ pc' = "write"
           /\ UNCHANGED <<jobs, at, args, before, outcome>>
  <2>1. /\ line \in {NoLine} \cup Registrations \cup WithCNI
        /\ marked' \in BOOLEAN /\ unseen' \in BOOLEAN
    BY <1>1, <1>2 DEF Inv, ShapeOK
  <2>2. ShapeOK' /\ WritingOK' /\ Settled' /\ Kept'
    BY <1>1, <1>2, <2>1, QuietStep DEF Inv, WritingOK
  <2>3. Initializing /\ ~Configuring /\ args = <<>>
    BY <1>1 DEF Inv, ControlOK, Initializing, Configuring
  <2>4. ControlOK'
    BY <1>1, <1>2, <2>3 DEF Inv, ControlOK, Initializing, Configuring
  <2>5. LineOK'
    BY <1>1, <1>2, <2>3 DEF Inv, LineOK, Initializing, Configuring, Finished
  <2>6. Complete'
    BY <1>2 DEF Complete
  <2> QED
    BY <2>2, <2>4, <2>5, <2>6 DEF Inv
<1>3. CASE marked /\ Exit("error") /\ UNCHANGED marked
  <2>1. UNCHANGED registration
    BY <1>1, <1>3 DEF registration
  <2>2. failures' \in 0..MaxFailures
    BY <1>1 DEF Inv, ShapeOK
  <2> QED
    BY <1>1, <1>3, <2>1, <2>2, ExitStep
<1> QED
  BY <1>2, <1>3 DEF StopAndRemove

\* A registration that is dropped is not one that a command has just made, or holds.
LEMMA UnregisteredStep == ASSUME Inv, Unregistered PROVE Inv'
<1>1. /\ marked /\ line' = NoLine /\ marked' = FALSE /\ unseen' = FALSE
      /\ pc # "remove" /\ (pc # "idle" => input.command # "configure-cni")
      /\ UNCHANGED <<disk, pc, input, jobs, at, args, before, outcome, failures>>
  BY DEF Unregistered, Holding
<1>2. Tasks' = Tasks /\ Due' = Due /\ Members(jobs)' = Members(jobs)
  BY <1>1 DEF Tasks, Due, Members, InitializeTasks, ConfigureTasks
<1>3. ShapeOK'
  BY <1>1 DEF Inv, ShapeOK, Registrations, WithCNI, Contents, Inputs
<1>4. ControlOK'
  BY <1>1 DEF Inv, ControlOK, Initializing, Configuring
<1>5. LineOK'
  BY <1>1 DEF Inv, LineOK, Initializing, Configuring, Finished
<1>6. WritingOK'
  BY <1>1, <1>2 DEF Inv, WritingOK
<1>7. ASSUME NEW job, Fulfilled(job)
      PROVE  Fulfilled(job)'
  BY <1>1, <1>7, FulfilledKept
<1>8. Settled'
  BY <1>1, <1>2, <1>7 DEF Inv, Settled
<1>9. Kept'
  BY <1>1, KeptSame DEF Inv
<1>10. Complete'
  BY <1>1 DEF Complete
<1> QED
  BY <1>3, <1>4, <1>5, <1>6, <1>8, <1>9, <1>10 DEF Inv

LEMMA WrittenStep == ASSUME Inv, Written PROVE Inv'
<1> USE DEF Written
<1>0. UNCHANGED <<line, marked, unseen>>
  BY DEF registration
<1>1. at = 0
  BY DEF Inv, WritingOK
<1>2. /\ line \in {NoLine} \cup Registrations \cup WithCNI
      /\ marked \in BOOLEAN /\ unseen \in BOOLEAN
      /\ pc' \in {"update", "parse", "create"}
  BY DEF Inv, ShapeOK
<1>3. ShapeOK' /\ WritingOK' /\ Settled' /\ Kept'
  BY <1>0, <1>1, <1>2, QuietStep
<1>4. Initializing \/ Configuring
  BY InputOf DEF Inv, ControlOK, ShapeOK, Initializing, Configuring
<1>5. ~(Initializing /\ Configuring)
  BY DEF Initializing, Configuring
<1>6. /\ Configuring => pc' = "update"
      /\ Initializing => pc' = IF args = <<>> THEN "parse" ELSE "create"
  BY DEF Initializing, Configuring
<1>7. ControlOK'
  BY <1>2, <1>4, <1>5, <1>6 DEF Inv, ControlOK, Initializing, Configuring
<1>8. LineOK'
  BY <1>0, <1>2, <1>4, <1>5, <1>6 DEF Inv, LineOK, Initializing, Configuring, Finished
<1>9. Complete'
  BY <1>0, CompleteKept DEF Inv
<1> QED
  BY <1>3, <1>7, <1>8, <1>9 DEF Inv

LEMMA ParseIgnitionStep == ASSUME Inv, ParseIgnition PROVE Inv'
<1> DEFINE ign == input.ign
<1>1. /\ pc = "parse" /\ UNCHANGED <<disk, registration, input, failures>>
      /\ \/ Exit("error")
         \/ /\ args' = KubeletArgs(ign) /\ jobs' = Translated(ign)
            /\ pc' = "write" /\ UNCHANGED <<at, before, outcome>>
  BY DEF ParseIgnition
<1>0. UNCHANGED <<line, marked, unseen>>
  BY <1>1 DEF registration
<1>2. CASE Exit("error")
  <2>1. failures' \in 0..MaxFailures
    BY <1>1 DEF Inv, ShapeOK
  <2> QED
    BY <1>1, <1>2, <2>1, ExitStep
<1>3. CASE /\ args' = KubeletArgs(ign) /\ jobs' = Translated(ign)
           /\ pc' = "write" /\ UNCHANGED <<at, before, outcome>>
  <2>1. /\ Initializing /\ ~Configuring /\ args = <<>> /\ jobs = <<>> /\ at = 0
        /\ line = NoLine \/ marked \/ unseen
        /\ input.command = "initialize-kubelet" /\ outcome = "none"
    BY <1>1 DEF Inv, ControlOK, LineOK, WritingOK, Initializing, Configuring
  <2>2. ign \in Ignitions /\ input.kubelet \in Kubelets
    BY <2>1, InputOf DEF Inv, ShapeOK
  <2>3. ShapeOK'
    BY <1>0, <1>1, <1>3 DEF Inv, ShapeOK, Registrations, WithCNI, Contents, Inputs
  <2>4. ControlOK'
    BY <1>1, <1>3, <2>1 DEF ControlOK, Initializing, Configuring
  <2>5. LineOK'
    BY <1>0, <1>1, <1>3, <2>1 DEF Inv, LineOK, Initializing, Configuring, Finished
  <2>6. Tasks' = Members(Opening(input.kubelet)) \cup Members(Translated(ign))
    BY <1>1, <2>1 DEF Tasks, InitializeTasks, Members, Opening, Translated
  <2>7. Due' = Tasks'
    BY <1>3, <2>2, ArgumentsAreSome DEF Due, Tasks
  <2>8. Members(jobs)' = Members(Translated(ign))
    BY <1>3 DEF Members
  <2>9. WritingOK'
    <3>1. jobs' \in Seq(Members(Translated(ign)))
      BY <1>3, <2>2, TranslatedTasks
    <3>2. Members(Translated(ign)) \subseteq Tasks'
      BY <2>6
    <3> HIDE DEF ign
    <3>3. jobs' \in Seq(Tasks')
      BY <3>1, <3>2
    <3> QED
      BY <1>1, <1>3, <2>1, <3>3 DEF WritingOK
  <2>10. Settled'
    <3>1. Due = Members(Opening(input.kubelet))
      BY <1>1, <2>1 DEF Due
    <3>2. \A job \in Members(Opening(input.kubelet)) : Fulfilled(job)
      BY <1>1, <2>1, <3>1, AllFulfilled
    <3>3. ASSUME NEW job \in Members(Opening(input.kubelet))
          PROVE  Fulfilled(job)'
      BY <1>1, <3>2, FulfilledKept
    <3> QED
      BY <2>6, <2>7, <2>8, <3>3 DEF Settled
  <2>11. Complete'
    BY <1>0, <1>1, CompleteKept DEF Inv
  <2>12. Kept'
    BY <1>1, <1>3, KeptSame DEF Inv
  <2> QED
    BY <2>3, <2>4, <2>5, <2>9, <2>10, <2>11, <2>12 DEF Inv
<1> QED
  BY <1>1, <1>2, <1>3

\* The service that is created stands beside the files that this run has written.
LEMMA ServiceCreated ==
  ASSUME Inv, pc = "create", line = NoLine, line' = Over(args, BaseOptions), pc' = "start",
         UNCHANGED <<disk, marked, unseen, input, jobs, at, args, before, outcome, failures>>
  PROVE  Inv'
<1>1. Initializing /\ ~Configuring /\ args = KubeletArgs(input.ign) /\ at = 0 /\ jobs = <<>>
  BY DEF Inv, ControlOK, WritingOK, Initializing, Configuring
<1>2. input.ign \in Ignitions /\ input.kubelet \in Kubelets
  BY <1>1, InputOf DEF Inv, ShapeOK
<1>3. line' \in Registrations
  BY <1>1, <1>2, RegistrationOf
<1>4. ShapeOK' /\ WritingOK' /\ Settled' /\ Kept'
  BY <1>1, <1>3, QuietStep DEF Inv, ShapeOK
<1>5. ControlOK'
  BY <1>1 DEF Inv, ControlOK, Initializing, Configuring
<1>6. LineOK'
  BY <1>1, <1>3, NoLineAssumption DEF Inv, LineOK, Initializing, Configuring, Finished
<1>7. Complete'
  <2> DEFINE conf == Write(KubeletConf, InstallDir("kubelet.conf"))
             exe  == Copy(input.kubelet, InstallDir("kubelet.exe"))
  <2>1. Members(Opening(input.kubelet)) = {conf, exe}
    BY <1>2, OpeningTasks
  <2>2. Due = Tasks
    BY <1>1, <1>2, ArgumentsAreSome, DueIsAll
  <2>3. {conf, exe} \subseteq Due
    BY <1>1, <2>1, <2>2, TasksOf DEF Inv, ShapeOK
  <2>4. Fulfilled(conf) /\ Fulfilled(exe)
    BY <1>1, <2>3, AllFulfilled
  <2>5. input.kubelet # Unreadable /\ Begins(InstallDir("kubelet.exe"), input.kubelet)
    BY <2>4 DEF Fulfilled, Copy
  <2> HIDE DEF conf, exe
  <2>6. Fulfilled(conf)'
    BY <2>4 DEF Fulfilled, Begins, conf, Write, InstallDir
  <2>7. \E kubelet \in Kubelets \ {Unreadable} : Begins(InstallDir("kubelet.exe"), kubelet)
    BY <1>2, <2>5
  <2>8. PICK kubelet \in Kubelets \ {Unreadable} : Begins(InstallDir("kubelet.exe"), kubelet)
    BY <2>7
  <2>9. Begins(InstallDir("kubelet.exe"), kubelet)'
    BY <2>8, BeginsKept
  <2> QED
    BY <2>6, <2>9 DEF Complete, conf
<1> QED
  BY <1>4, <1>5, <1>6, <1>7 DEF Inv

LEMMA CreateKubeletServiceStep == ASSUME Inv, CreateKubeletService PROVE Inv'
<1>1. pc = "create" /\ UNCHANGED <<disk, marked, unseen, input, failures>>
  BY DEF CreateKubeletService
<1>2. CASE /\ line = NoLine /\ line' = Over(args, BaseOptions) /\ pc' = "start"
           /\ UNCHANGED <<jobs, at, args, before, outcome>>
  BY <1>1, <1>2, ServiceCreated
<1>3. CASE Exit("error") /\ UNCHANGED line
  <2>1. UNCHANGED registration
    BY <1>1, <1>3 DEF registration
  <2>2. failures' \in 0..MaxFailures
    BY <1>1 DEF Inv, ShapeOK
  <2> QED
    BY <1>1, <1>3, <2>1, <2>2, ExitStep
<1> QED
  BY <1>2, <1>3 DEF CreateKubeletService

LEMMA LineUpdated ==
  ASSUME Inv, pc = "update", ~marked, line' = Over(CNIArgs, line), pc' = "start",
         UNCHANGED <<disk, marked, unseen, input, jobs, at, args, before, outcome, failures>>
  PROVE  Inv'
<1>1. /\ Configuring /\ ~Initializing /\ at = 0 /\ jobs = <<>> /\ line # NoLine
      /\ args = <<>>
  BY DEF Inv, ControlOK, LineOK, WritingOK, Initializing, Configuring
<1>2. line \in Registrations \/ \E r \in Registrations : line = Over(CNIArgs, r)
  BY <1>1 DEF Inv, ShapeOK, WithCNI
<1>3. line' \in WithCNI
  BY <1>2, OverTwice DEF WithCNI
<1>4. ShapeOK' /\ WritingOK' /\ Settled' /\ Kept'
  BY <1>1, <1>3, QuietStep DEF Inv, ShapeOK
<1>5. ControlOK'
  BY <1>1 DEF Inv, ControlOK, Initializing, Configuring
<1>6. WithCNI' = WithCNI
  BY DEF WithCNI, Registrations
<1>7. NoLine \notin WithCNI
  BY NoLineAssumption DEF WithCNI
<1>8. LineOK'
  BY <1>1, <1>3, <1>6, <1>7 DEF Inv, LineOK, Initializing, Configuring, Finished
<1>9. Complete'
  BY <1>1, CompleteKept DEF Inv
<1> QED
  BY <1>4, <1>5, <1>8, <1>9 DEF Inv

LEMMA UpdateConfigStep == ASSUME Inv, UpdateConfig PROVE Inv'
<1>1. pc = "update" /\ UNCHANGED <<disk, marked, unseen, input, failures>>
  BY DEF UpdateConfig, UpdateTo
<1>2. CASE /\ ~marked /\ line' = Over(CNIArgs, line) /\ pc' = "start"
           /\ UNCHANGED <<jobs, at, args, before, outcome>>
  BY <1>1, <1>2, LineUpdated
<1>3. CASE Exit("error") /\ UNCHANGED line
  <2>1. UNCHANGED registration
    BY <1>1, <1>3 DEF registration
  <2>2. failures' \in 0..MaxFailures
    BY <1>1 DEF Inv, ShapeOK
  <2> QED
    BY <1>1, <1>3, <2>1, <2>2, ExitStep
<1> QED
  BY <1>2, <1>3 DEF UpdateConfig, UpdateTo

-----------------------------------------------------------------------------
(* Steps that write *)

\* The first job is one of the tasks.
LEMMA FirstJob ==
  ASSUME Inv, jobs # <<>>
  PROVE  /\ Head(jobs) \in Tasks /\ Head(jobs) \in Members(jobs)
         /\ IsTask(Head(jobs))
         /\ Tail(jobs) \in Seq(Tasks)
         /\ Members(jobs) = {Head(jobs)} \cup Members(Tail(jobs))
<1> DEFINE T == Tasks
<1>1. jobs \in Seq(T)
  BY DEF Inv, WritingOK
<1>2. \A job \in T : IsTask(job)
  BY TasksOf DEF Inv, ShapeOK
<1> HIDE DEF T
<1>3. /\ Len(jobs) \in Nat /\ 1 <= Len(jobs) /\ DOMAIN jobs = 1..Len(jobs)
      /\ Head(jobs) = jobs[1] /\ Head(jobs) \in T /\ Tail(jobs) \in Seq(T)
      /\ DOMAIN Tail(jobs) = 1..(Len(jobs) - 1)
      /\ \A i \in 1..(Len(jobs) - 1) : Tail(jobs)[i] = jobs[i + 1]
  BY <1>1
<1>4. Head(jobs) \in Members(jobs)
  BY <1>3 DEF Members
<1>5. ASSUME NEW job \in Members(jobs)
      PROVE  job \in {Head(jobs)} \cup Members(Tail(jobs))
  <2>1. PICK i \in 1..Len(jobs) : job = jobs[i]
    BY <1>3 DEF Members
  <2>2. CASE i = 1
    BY <1>3, <2>1, <2>2
  <2>3. CASE i # 1
    <3>1. i - 1 \in 1..(Len(jobs) - 1) /\ (i - 1) + 1 = i
      BY <1>3, <2>3
    <3>2. Tail(jobs)[i - 1] = job
      BY <1>3, <2>1, <3>1
    <3> QED
      BY <1>3, <3>1, <3>2 DEF Members
  <2> QED
    BY <2>2, <2>3
<1>6. ASSUME NEW job \in Members(Tail(jobs))
      PROVE  job \in Members(jobs)
  <2>1. PICK i \in 1..(Len(jobs) - 1) : job = Tail(jobs)[i]
    BY <1>3 DEF Members
  <2>2. i + 1 \in 1..Len(jobs) /\ job = jobs[i + 1]
    BY <1>3, <2>1
  <2> QED
    BY <1>3, <2>2 DEF Members
<1> QED
  BY <1>2, <1>3, <1>4, <1>5, <1>6 DEF T

\* A step that changes only the file of the first job: nothing else that was
\* written suffers, and no registered kubelet.
LEMMA OthersKept ==
  ASSUME Inv, pc = "write", jobs # <<>>, UNCHANGED <<line, marked, unseen, input, before>>,
         NEW first, first = Head(jobs),
         DOMAIN disk' = DOMAIN disk \cup {first.path},
         \A q \in DOMAIN disk : q # first.path => disk'[q] = disk[q],
         ~first.truncate => TailKept(first.path, first.source)'
  PROVE  /\ \A job \in Due : job \notin Members(jobs) => Fulfilled(job)'
         /\ Complete'
         /\ Kept'
<1> DEFINE path == first.path
<1>1. ASSUME NEW job \in Due, job \notin Members(jobs)
      PROVE  Fulfilled(job)'
  <2>1. Fulfilled(job)
    BY <1>1 DEF Inv, Settled
  <2>2. job.path # path
    BY <1>1, FirstJob, TasksOf DEF Inv, ShapeOK
  <2> QED
    BY <2>1, <2>2, FulfilledKept
<1>2. Complete'
  <2>1. Initializing \/ Configuring
    BY InputOf DEF Inv, ControlOK, ShapeOK, Initializing, Configuring
  <2>2. CASE Initializing
    <3>1. line = NoLine \/ marked \/ unseen
      BY <2>2 DEF Inv, LineOK
    <3> QED
      BY <3>1 DEF Complete
  <2>3. CASE Configuring
    <3>1. path \notin {InstallDir("kubelet.conf"), InstallDir("kubelet.exe")}
      BY <2>3, FirstJob, TasksOf DEF Inv, ShapeOK
    <3> QED
      BY <3>1, CompleteKept DEF Inv
  <2> QED
    BY <2>1, <2>2, <2>3
<1>3. Kept'
  <2>1. Tasks' = Tasks
    BY TasksSame
  <2>2. /\ DOMAIN before \subseteq DOMAIN disk
        /\ \A q : (\A job \in Tasks : job.path # q) => Untouched(q)
        /\ \A job \in Tasks : ~job.truncate /\ job.source # Unreadable /\ job.path \in DOMAIN disk
             => TailKept(job.path, job.source)
    BY DEF Inv, Kept
  <2>3. first \in Tasks
    BY FirstJob
  <2> HIDE DEF path
  <2>4. ASSUME NEW q, \A job \in Tasks' : job.path # q
        PROVE  Untouched(q)'
    <3>1. Untouched(q) /\ q # path
      BY <2>1, <2>2, <2>3, <2>4 DEF path
    <3> QED
      BY <3>1, UntouchedSame DEF path
  <2>5. ASSUME NEW job \in Tasks', ~job.truncate, job.source # Unreadable, job.path \in DOMAIN disk'
        PROVE  TailKept(job.path, job.source)'
    <3>1. CASE job.path = path
      <4>1. job = first
        BY <2>1, <2>3, <2>5, <3>1, TasksOf DEF Inv, ShapeOK, path
      <4> QED
        BY <2>5, <4>1
    <3>2. CASE job.path # path
      <4>1. job.path \in DOMAIN disk /\ disk'[job.path] = disk[job.path]
        BY <2>5, <3>2 DEF path
      <4>2. TailKept(job.path, job.source)
        BY <2>1, <2>2, <2>5, <4>1
      <4> QED
        BY <4>1, <4>2, TailSame
    <3> QED
      BY <3>1, <3>2
  <2>6. DOMAIN before' \subseteq DOMAIN disk'
    BY <2>2
  <2> QED
    BY <2>4, <2>5, <2>6 DEF Kept
<1> QED
  BY <1>1, <1>2, <1>3

LEMMA OpenFileStep == ASSUME Inv, OpenFile PROVE Inv'
<1> DEFINE job  == Head(jobs)
           path == job.path
<1>1. /\ pc = "write" /\ jobs # <<>> /\ at = 0 /\ UNCHANGED <<registration, input, failures>>
      /\ \/ /\ Exit("error") /\ UNCHANGED disk
         \/ /\ job.source # Unreadable /\ at' = 1 /\ UNCHANGED <<pc, jobs, args, before, outcome>>
            /\ disk' = IF path \in DOMAIN disk /\ ~job.truncate THEN disk
                       ELSE Over(Only(path, <<>>), disk)
  BY DEF OpenFile
<1>0. UNCHANGED <<line, marked, unseen>>
  BY <1>1 DEF registration
<1>2. CASE Exit("error") /\ UNCHANGED disk
  <2>1. failures' \in 0..MaxFailures
    BY <1>1 DEF Inv, ShapeOK
  <2> QED
    BY <1>1, <1>2, <2>1, ExitStep
<1>3. CASE /\ job.source # Unreadable /\ at' = 1 /\ UNCHANGED <<pc, jobs, args, before, outcome>>
           /\ disk' = IF path \in DOMAIN disk /\ ~job.truncate THEN disk
                      ELSE Over(Only(path, <<>>), disk)
  <2>1. /\ job \in Tasks /\ job.source \in Seq(Blocks) /\ 1 <= Len(job.source)
        /\ job.truncate \in BOOLEAN
    BY <1>1, <1>3, FirstJob, SourceOf DEF IsTask
  <2>2. \A q \in DOMAIN disk : disk[q] \in Seq(Blocks)
    BY DEF Inv, ShapeOK, Contents
  <2>3. /\ DOMAIN disk' = DOMAIN disk \cup {path}
        /\ \A q \in DOMAIN disk : q # path => disk'[q] = disk[q]
        /\ disk'[path] \in Seq(Blocks)
        /\ job.truncate => disk'[path] = <<>>
        /\ disk'[path] = IF path \in DOMAIN disk /\ ~job.truncate THEN disk[path] ELSE <<>>
    <3> HIDE DEF job, path
    <3>1. CASE path \in DOMAIN disk /\ ~job.truncate
      BY <1>3, <2>2, <3>1
    <3>2. CASE ~(path \in DOMAIN disk /\ ~job.truncate)
      <4>1. disk' = Over(Only(path, <<>>), disk)
        BY <1>3, <3>2
      <4>2. /\ DOMAIN disk' = DOMAIN disk \cup {path}
            /\ \A q \in DOMAIN disk : q # path => disk'[q] = disk[q]
            /\ disk'[path] = <<>>
        BY <4>1 DEF Over, Only
      <4> QED
        BY <3>2, <4>2
    <3> QED
      BY <3>1, <3>2
  <2> HIDE DEF job, path
  <2>4. ShapeOK'
    <3>1. \A q \in DOMAIN disk' : disk'[q] \in Seq(Blocks)
      BY <2>2, <2>3
    <3> QED
      BY <1>0, <1>1, <1>3, <3>1 DEF Inv, ShapeOK, Registrations, WithCNI, Contents, Inputs
  <2>5. ControlOK'
    BY <1>1, <1>3 DEF Inv, ControlOK, Initializing, Configuring
  <2>6. LineOK'
    BY <1>0, <1>1, <1>3 DEF Inv, LineOK, Initializing, Configuring, Finished
  <2>7. Tasks' = Tasks /\ Due' = Due /\ Members(jobs)' = Members(jobs)
    BY <1>1, <1>3 DEF Tasks, Due, Members, InitializeTasks, ConfigureTasks
  <2>8. WritingOK'
    <3>1. jobs' \in Seq(Tasks)'
      BY <1>3, <2>7 DEF Inv, WritingOK
    <3>2. Len(disk'[path]) \in Nat /\ (job.truncate => Len(disk'[path]) = 0)
      BY <2>3
    <3>3. 1..(at' - 1) = {}
      BY <1>3
    <3> QED
      BY SMTT(30), <1>1, <1>3, <2>1, <2>3, <3>1, <3>2, <3>3 DEF WritingOK, job, path
  <2>9. /\ \A other \in Due : other \notin Members(jobs) => Fulfilled(other)'
        /\ Complete'
        /\ Kept'
    <3>1. PICK first : first = Head(jobs)
      OBVIOUS
    <3>2. first = job /\ first.path = path
      BY <3>1 DEF job, path
    <3>3. ASSUME ~first.truncate
          PROVE  TailKept(first.path, first.source)'
      <4>1. /\ first \in Tasks /\ first.source # Unreadable /\ before' = before
            /\ disk'[first.path] = IF first.path \in DOMAIN disk THEN disk[first.path] ELSE <<>>
        BY <1>3, <2>1, <2>3, <3>2, <3>3
      <4>2. /\ DOMAIN before \subseteq DOMAIN disk
            /\ first.path \in DOMAIN disk => TailKept(first.path, first.source)
        BY <1>1, <3>3, <4>1 DEF Inv, Kept
      <4>3. CASE first.path \in DOMAIN disk
        BY <4>1, <4>2, <4>3, TailSame
      <4>4. CASE first.path \notin DOMAIN disk
        <5>1. first.path \notin DOMAIN before /\ disk'[first.path] = <<>>
          BY <4>1, <4>2, <4>4
        <5>2. Len(first.source) \in Nat
          BY <2>1, <3>2
        <5> QED
          BY <4>1, <5>1, <5>2 DEF TailKept, Old
      <4> QED
        BY <4>3, <4>4
    <3> QED
      BY <1>0, <1>1, <1>3, <2>3, <3>2, <3>3, OthersKept DEF job
  <2>10. Settled'
    BY <2>7, <2>9 DEF Settled
  <2> QED
    BY <2>4, <2>5, <2>6, <2>8, <2>9, <2>10 DEF Inv
<1> QED
  BY <1>1, <1>2, <1>3

\* Writing the i-th block puts it where it belongs.
LEMMA BlockPut ==
  ASSUME NEW content \in Seq(Blocks), NEW i \in Nat, 1 <= i, i <= Len(content) + 1,
         NEW block \in Blocks
  PROVE  LET new == PutBlock(content, i, block)
         IN  /\ new \in Seq(Blocks) /\ Len(new) \in Nat
             /\ Len(new) = IF i > Len(content) THEN i ELSE Len(content)
             /\ new[i] = block
             /\ \A j \in 1..Len(content) : j # i => new[j] = content[j]
<1> DEFINE n == IF i > Len(content) THEN i ELSE Len(content)
           new == [j \in 1..n |-> IF j = i THEN block ELSE content[j]]
<1>1. n \in Nat /\ Len(content) \in Nat /\ \A j \in 1..n : j # i => j \in 1..Len(content)
  OBVIOUS
<1>2. i \in 1..n /\ \A j \in 1..Len(content) : j \in 1..n
  OBVIOUS
<1>3. PutBlock(content, i, block) = new
  BY DEF PutBlock
<1>4. \A j \in 1..Len(content) : content[j] \in Blocks
  OBVIOUS
<1>5. n = IF i > Len(content) THEN i ELSE Len(content)
  OBVIOUS
<1> HIDE DEF n
<1>6. new \in [1..n -> Blocks]
  BY <1>1, <1>4
<1>7. new[i] = block /\ \A j \in 1..Len(content) : j # i => new[j] = content[j]
  BY <1>2
<1> HIDE DEF new
<1>8. new \in Seq(Blocks) /\ Len(new) = n
  BY <1>1, <1>6
<1> QED
  BY <1>1, <1>3, <1>5, <1>7, <1>8

LEMMA WriteBlockStep == ASSUME Inv, WriteBlock PROVE Inv'
<1> DEFINE job  == Head(jobs)
           path == job.path
           old  == disk[path]
           new  == PutBlock(old, at, job.source[at])
<1>1. /\ pc = "write" /\ at > 0 /\ UNCHANGED <<line, marked, unseen, pc, input, args, before, outcome, failures>>
      /\ disk' = [disk EXCEPT ![path] = new]
      /\ IF at < Len(job.source) THEN at' = at + 1 /\ UNCHANGED jobs
         ELSE at' = 0 /\ jobs' = Tail(jobs)
  BY DEF WriteBlock, Advance, registration
<1>2. /\ jobs # <<>> /\ path \in DOMAIN disk /\ job.source # Unreadable
      /\ at \in Nat /\ at <= Len(job.source) /\ at <= Len(old) + 1
      /\ job.truncate => Len(old) = at - 1
      /\ \A i \in 1..(at - 1) : old[i] = job.source[i]
  BY <1>1 DEF Inv, WritingOK
<1>3. job \in Tasks /\ job.source \in Seq(Blocks) /\ job.truncate \in BOOLEAN
  BY <1>2, FirstJob, SourceOf DEF IsTask
<1>4. \A q \in DOMAIN disk : disk[q] \in Seq(Blocks)
  BY DEF Inv, ShapeOK, Contents
<1>5. old \in Seq(Blocks) /\ Len(old) \in Nat
  BY <1>2, <1>4
<1>6. Len(job.source) \in Nat /\ job.source[at] \in Blocks
  BY <1>1, <1>2, <1>3
<1>7. /\ new \in Seq(Blocks) /\ Len(new) \in Nat
      /\ Len(new) = IF at > Len(old) THEN at ELSE Len(old)
      /\ new[at] = job.source[at]
      /\ \A j \in 1..Len(old) : j # at => new[j] = old[j]
  <2> DEFINE block == job.source[at]
  <2>1. /\ old \in Seq(Blocks) /\ block \in Blocks
        /\ at \in Nat /\ 1 <= at /\ at <= Len(old) + 1
    BY <1>1, <1>2, <1>5, <1>6
  <2>2. new = PutBlock(old, at, block)
    OBVIOUS
  <2> HIDE DEF job, path, old, new, block
  <2>3. /\ new \in Seq(Blocks) /\ Len(new) \in Nat
        /\ Len(new) = IF at > Len(old) THEN at ELSE Len(old)
        /\ new[at] = block
        /\ \A j \in 1..Len(old) : j # at => new[j] = old[j]
    BY <2>1, <2>2, BlockPut
  <2> QED
    BY <2>3 DEF block
<1>8. /\ DOMAIN disk' = DOMAIN disk
      /\ \A q \in DOMAIN disk : q # path => disk'[q] = disk[q]
      /\ disk'[path] = new
  <2> HIDE DEF job, path, new
  <2> QED
    BY <1>1, <1>2
<1> HIDE DEF job, path, old, new
\* After the step the first at blocks are there, and no more if the file is new.
<1>9. /\ at <= Len(new)
      /\ job.truncate => Len(new) = at
      /\ \A i \in 1..at : new[i] = job.source[i]
  <2>1. at <= Len(new) /\ (job.truncate => Len(new) = at)
    BY <1>2, <1>5, <1>7
  <2>2. ASSUME NEW i \in 1..at
        PROVE  new[i] = job.source[i]
    <3>1. CASE i = at
      BY <1>7, <3>1
    <3>2. CASE i # at
      <4>1. i \in 1..(at - 1) /\ i \in 1..Len(old)
        BY <1>2, <1>5, <3>2
      <4> QED
        BY <1>2, <1>7, <3>2, <4>1
    <3> QED
      BY <3>1, <3>2
  <2> QED
    BY <2>1, <2>2
<1>10. ShapeOK'
  <2>1. \A q \in DOMAIN disk' : disk'[q] \in Seq(Blocks)
    BY <1>4, <1>7, <1>8
  <2> QED
    BY <1>1, <2>1 DEF Inv, ShapeOK, Registrations, WithCNI, Contents, Inputs
<1>11. ControlOK'
  BY <1>1 DEF Inv, ControlOK, Initializing, Configuring
<1>12. LineOK'
  BY <1>1 DEF Inv, LineOK, Initializing, Configuring, Finished
<1>13. Tasks' = Tasks /\ Due' = Due
  BY <1>1 DEF Tasks, Due, InitializeTasks, ConfigureTasks, Members
<1>14. /\ \A other \in Due : other \notin Members(jobs) => Fulfilled(other)'
       /\ Complete'
       /\ Kept'
  <2>1. PICK first : first = Head(jobs)
    OBVIOUS
  <2>2. first = job /\ first.path = path
    BY <2>1 DEF job, path
  <2>3. ASSUME ~first.truncate
        PROVE  TailKept(first.path, first.source)'
    <3>1. TailKept(first.path, first.source)
      BY <1>1, <1>2, <1>3, <2>2, <2>3 DEF Inv, Kept
    <3>2. /\ Len(Old(first.path)) <= Len(old)
          /\ Len(old) <= Len(Old(first.path)) \/ Len(old) <= Len(first.source)
          /\ \A i \in 1..Len(Old(first.path)) : i > Len(first.source) => old[i] = Old(first.path)[i]
      BY <2>2, <3>1 DEF TailKept, old
    <3>3. Len(Old(first.path)) \in Nat
      <4>1. Old(first.path) \in Seq(Blocks)
        BY DEF Old, Inv, ShapeOK, Contents
      <4> QED
        BY <4>1
    <3>4. Old(first.path)' = Old(first.path) /\ disk'[first.path] = new
      BY <1>1, <1>8, <2>2 DEF Old
    <3> DEFINE was == Old(first.path)
    <3> HIDE DEF was
    <3>5. /\ Len(was) <= Len(new)
          /\ Len(new) <= Len(was) \/ Len(new) <= Len(first.source)
          /\ \A i \in 1..Len(was) : i > Len(first.source) => new[i] = was[i]
      <4>1. Len(first.source) \in Nat /\ at <= Len(first.source)
        BY <1>2, <1>6, <2>2
      <4>2. ASSUME NEW i \in 1..Len(was), i > Len(first.source)
            PROVE  new[i] = was[i]
        <5>1. i \in 1..Len(old) /\ i # at
          BY <1>2, <1>5, <3>2, <3>3, <4>1, <4>2 DEF was
        <5> QED
          BY <1>7, <3>2, <4>2, <5>1 DEF was
      <4> QED
        BY <1>2, <1>5, <1>7, <3>2, <3>3, <4>1, <4>2 DEF was
    <3> QED
      BY <3>4, <3>5 DEF TailKept, was
  <2>4. /\ DOMAIN disk' = DOMAIN disk \cup {first.path}
        /\ \A q \in DOMAIN disk : q # first.path => disk'[q] = disk[q]
    BY <1>2, <1>8, <2>2
  <2> QED
    BY <1>1, <1>2, <2>1, <2>3, <2>4, OthersKept
<1>15. CASE at < Len(job.source)
  <2>1. at' = at + 1 /\ jobs' = jobs
    BY <1>1, <1>15
  <2>2. WritingOK'
    <3>1. jobs' \in Seq(Tasks)'
      BY <1>13, <2>1 DEF Inv, WritingOK
    <3>2. at' \in Nat /\ at' - 1 = at /\ at' <= Len(job.source) /\ at' <= Len(new) + 1
      BY <1>2, <1>6, <1>7, <1>9, <1>15, <2>1
    <3> QED
      BY <1>1, <1>2, <1>8, <1>9, <2>1, <3>1, <3>2 DEF WritingOK, job, path
  <2>3. Settled'
    BY <1>13, <1>14, <2>1 DEF Settled, Members
  <2> QED
    BY <1>10, <1>11, <1>12, <1>14, <2>2, <2>3 DEF Inv
<1>16. CASE ~(at < Len(job.source))
  <2>1. at' = 0 /\ jobs' = Tail(jobs) /\ at = Len(job.source)
    BY <1>1, <1>2, <1>6, <1>16
  <2>2. /\ Members(jobs) = {job} \cup Members(jobs')
        /\ jobs' \in Seq(Tasks)
    BY <1>2, <2>1, FirstJob DEF job
  <2>3. WritingOK'
    BY <1>13, <2>1, <2>2 DEF WritingOK
  <2>4. ASSUME NEW other \in Due, other = job
        PROVE  Fulfilled(other)'
    <3>1. other.path = path /\ other.source = job.source /\ other.truncate = job.truncate
      BY <2>4 DEF path
    <3>2. /\ other.path \in DOMAIN disk'
          /\ Len(other.source) <= Len(disk'[other.path])
          /\ \A i \in 1..Len(other.source) : disk'[other.path][i] = other.source[i]
          /\ other.truncate => Len(disk'[other.path]) = Len(other.source)
      BY <1>2, <1>8, <1>9, <2>1, <3>1
    <3> QED
      BY <1>2, <3>1, <3>2 DEF Fulfilled, Begins
  <2>5. Settled'
    <3>1. ASSUME NEW other \in Due
          PROVE  other \in Members(jobs)' \/ Fulfilled(other)'
      <4>1. Members(jobs)' = Members(jobs')
        BY DEF Members
      <4> QED
        BY <1>14, <2>2, <2>4, <4>1
    <3> QED
      BY <1>13, <3>1 DEF Settled
  <2> QED
    BY <1>10, <1>11, <1>12, <1>14, <2>3, <2>5 DEF Inv
<1> QED
  BY <1>15, <1>16

-----------------------------------------------------------------------------
(* The invariant *)

LEMMA InitInv == ASSUME Init PROVE Inv
<1> USE DEF Init
<1>1. ~Initializing /\ ~Configuring /\ Tasks = {} /\ Due = {}
  BY DEF Initializing, Configuring, Tasks, Due
<1>2. ShapeOK
  <2>1. input \in Inputs
    BY DEF Inputs
  <2>2. DOMAIN disk = {}
    OBVIOUS
  <2>3. DOMAIN before = {}
    OBVIOUS
  <2>4. marked = FALSE /\ unseen = FALSE
    OBVIOUS
  <2>6. failures \in 0..MaxFailures
    BY FilesAssumption
  <2>5. /\ \A path \in DOMAIN disk : disk[path] \in Contents
        /\ \A path \in DOMAIN before : before[path] \in Contents
    BY <2>2, <2>3, Zenon
  <2> QED
    BY <2>1, <2>4, <2>5, <2>6 DEF ShapeOK
<1>3. ControlOK
  BY <1>1 DEF ControlOK
<1>4. LineOK
  BY <1>1 DEF LineOK, Finished
<1>5. WritingOK
  BY DEF WritingOK
<1>6. Settled
  BY DEF Settled
<1>7. Complete
  BY DEF Complete
<1>8. Kept
  BY DEF Kept
<1> QED
  BY <1>2, <1>3, <1>4, <1>5, <1>6, <1>7, <1>8 DEF Inv

LEMMA NextInv == ASSUME Inv, [Next]_vars PROVE Inv'
<1>1. ASSUME UNCHANGED vars
      PROVE  Inv'
  <2>1. UNCHANGED <<disk, line, marked, unseen, pc, input, jobs, at, args, before, outcome, failures>>
    BY <1>1 DEF vars, registration
  <2>2. Tasks' = Tasks /\ Due' = Due /\ Members(jobs)' = Members(jobs)
    BY <2>1 DEF Tasks, Due, Members, InitializeTasks, ConfigureTasks
  <2>3. ShapeOK' /\ ControlOK' /\ LineOK'
    BY <2>1 DEF Inv, ShapeOK, ControlOK, LineOK, Registrations, WithCNI, Contents, Inputs,
                Finished, Initializing, Configuring
  <2>4. WritingOK'
    BY <2>1, <2>2 DEF Inv, WritingOK
  <2>5. ASSUME NEW job, Fulfilled(job)
        PROVE  Fulfilled(job)'
    BY <2>1, <2>5, FulfilledKept
  <2>6. Settled'
    BY <2>1, <2>2, <2>5 DEF Inv, Settled
  <2>7. Complete'
    BY <2>1, CompleteKept DEF Inv
  <2>8. Kept'
    BY <2>1, KeptSame DEF Inv
  <2> QED
    BY <2>3, <2>4, <2>6, <2>7, <2>8 DEF Inv
<1>2. CASE Next
  BY <1>2, InitializeKubeletStep, StopAndRemoveStep, UnregisteredStep, OpenFileStep, WriteBlockStep, WrittenStep,
     ParseIgnitionStep, CreateKubeletServiceStep, ConfigureStep, UpdateConfigStep, StartStep,
     InterruptedStep
     DEF Next
<1> QED
  BY <1>1, <1>2

\* What is still to be written, what is written, and what is registered go
\* together, wherever wmcb is interrupted.
THEOREM InvHolds == Spec => []Inv
<1>1. Init => Inv
  BY InitInv
<1>2. Inv /\ [Next]_vars => Inv'
  BY NextInv
<1> QED
  BY <1>1, <1>2, PTL DEF Spec

\* Every variable keeps its type, and an open file is there and is written block
\* after block.
THEOREM TypeCorrect == Spec => []TypeOK
<1>1. Inv => TypeOK
  BY DEF Inv, ShapeOK, LineOK, WritingOK, TypeOK
<1> QED
  BY <1>1, InvHolds, PTL

-----------------------------------------------------------------------------
(* What the files and the command line say together *)

LEMMA SameBlocks ==
  ASSUME NEW s \in Seq(Blocks), NEW t \in Seq(Blocks), Len(s) = Len(t),
         \A i \in 1..Len(t) : s[i] = t[i]
  PROVE  s = t
OBVIOUS

LEMMA BeginsWith ==
  ASSUME ShapeOK, NEW path, NEW content \in Seq(Blocks), Begins(path, content)
  PROVE  path \in DOMAIN disk /\ SubSeq(disk[path], 1, Len(content)) = content
<1> DEFINE d == disk[path]
           s == SubSeq(d, 1, Len(content))
<1>1. /\ path \in DOMAIN disk /\ d \in Seq(Blocks) /\ Len(content) \in Nat /\ Len(d) \in Nat
      /\ Len(content) <= Len(d) /\ \A i \in 1..Len(content) : d[i] = content[i]
  BY DEF ShapeOK, Begins, Contents
<1> HIDE DEF d
<1>2. s \in Seq(Blocks) /\ Len(s) = Len(content) /\ \A i \in 1..Len(content) : s[i] = d[i]
  BY <1>1
<1> HIDE DEF s
<1>3. s = content
  BY <1>1, <1>2, SameBlocks
<1> QED
  BY <1>1, <1>3 DEF s, d

\* A file that is created is as its source.
LEMMA FulfilledIsEqual ==
  ASSUME ShapeOK, NEW job, job.source \in Sources, job.truncate, Fulfilled(job)
  PROVE  job.path \in DOMAIN disk /\ disk[job.path] = job.source
<1>1. job.source \in Seq(Blocks)
  BY SourceOf DEF Fulfilled
<1>2. /\ job.path \in DOMAIN disk /\ disk[job.path] \in Seq(Blocks)
      /\ Len(disk[job.path]) = Len(job.source)
      /\ \A i \in 1..Len(job.source) : disk[job.path][i] = job.source[i]
  BY DEF Fulfilled, Begins, ShapeOK, Contents
<1> QED
  BY <1>1, <1>2, SameBlocks

\* A kubelet service is never registered beside a truncated kubelet.conf or half
\* of a kubelet.exe, whatever was interrupted before.
THEOREM RegisteredStaysComplete == Spec => []RegisteredIsComplete
<1>1. ASSUME Inv, line # NoLine, ~unseen, ~marked
      PROVE  /\ InstallDir("kubelet.conf") \in DOMAIN disk
             /\ disk[InstallDir("kubelet.conf")] = KubeletConf
             /\ InstallDir("kubelet.exe") \in DOMAIN disk
             /\ \E kubelet \in Kubelets \ {Unreadable} :
                  SubSeq(disk[InstallDir("kubelet.exe")], 1, Len(kubelet)) = kubelet
  <2> DEFINE conf == Write(KubeletConf, InstallDir("kubelet.conf"))
  <2>1. Fulfilled(conf) /\ ShapeOK
    BY <1>1 DEF Inv, Complete
  <2>2. /\ conf.path = InstallDir("kubelet.conf") /\ conf.source = KubeletConf
        /\ conf.truncate /\ conf.source \in Sources
    BY FilesAssumption DEF Write
  <2> HIDE DEF conf
  <2>3. conf.path \in DOMAIN disk /\ disk[conf.path] = KubeletConf
    BY <2>1, <2>2, FulfilledIsEqual
  <2>4. PICK kubelet \in Kubelets \ {Unreadable} : Begins(InstallDir("kubelet.exe"), kubelet)
    BY <1>1 DEF Inv, Complete
  <2>5. kubelet \in Seq(Blocks)
    BY FilesAssumption, SourceOf
  <2>6. /\ InstallDir("kubelet.exe") \in DOMAIN disk
        /\ SubSeq(disk[InstallDir("kubelet.exe")], 1, Len(kubelet)) = kubelet
    BY <2>1, <2>4, <2>5, BeginsWith
  <2> QED
    BY <2>2, <2>3, <2>6
<1>2. Inv => RegisteredIsComplete
  BY <1>1 DEF RegisteredIsComplete
<1> QED
  BY <1>2, InvHolds, PTL

\* When a command has succeeded, all that it was to write is written.
LEMMA AllWritten ==
  ASSUME Inv, pc = "idle", outcome = "success"
  PROVE  \A job \in Tasks : Fulfilled(job)
<1>1. jobs = <<>> /\ Due = Tasks
  BY DEF Inv, ControlOK, Due
<1>2. Members(jobs) = {}
  BY <1>1 DEF Members
<1> QED
  BY <1>1, <1>2 DEF Inv, Settled

\* A source over a sequence is the source, and what is longer in the sequence.
LEMMA OverSequences ==
  ASSUME NEW source \in Seq(Blocks), NEW old \in Seq(Blocks), NEW new \in Seq(Blocks),
         Len(source) <= Len(new), \A i \in 1..Len(source) : new[i] = source[i],
         Len(old) <= Len(new), Len(new) <= Len(old) \/ Len(new) <= Len(source),
         \A i \in 1..Len(old) : i > Len(source) => new[i] = old[i]
  PROVE  new = Over(source, old)
<1>1. /\ Len(source) \in Nat /\ Len(old) \in Nat /\ Len(new) \in Nat
      /\ DOMAIN source = 1..Len(source) /\ DOMAIN old = 1..Len(old) /\ DOMAIN new = 1..Len(new)
  OBVIOUS
<1> DEFINE At(x) == IF x \in DOMAIN source THEN source[x] ELSE old[x]
<1>2. DOMAIN source \cup DOMAIN old = DOMAIN new
  BY <1>1
<1>3. ASSUME NEW x \in DOMAIN new
      PROVE  new[x] = At(x)
  BY <1>1, <1>2
<1>4. Over(source, old) = [x \in DOMAIN new |-> At(x)]
  BY <1>2, Zenon DEF Over
<1>5. new = [x \in DOMAIN new |-> new[x]]
  OBVIOUS
<1> HIDE DEF At
<1>6. [x \in DOMAIN new |-> new[x]] = [x \in DOMAIN new |-> At(x)]
  BY <1>3, Zenon
<1> QED
  BY <1>4, <1>5, <1>6, Zenon

\* When a command has succeeded, every file is made from its job, and the others are
\* as it found them.
LEMMA DiskAtEnd ==
  ASSUME Inv, pc = "idle", outcome = "success"
  PROVE  /\ \A job \in Tasks : job.truncate => job.path \in DOMAIN disk /\ disk[job.path] = job.source
         /\ \A job \in Tasks : ~job.truncate => CopyOf(job.path, job.source)
         /\ \A path : (\A job \in Tasks : job.path # path) => AsBefore(path)
<1>1. ShapeOK /\ input \in Inputs
  BY DEF Inv, ShapeOK
<1>2. \A job \in Tasks : Fulfilled(job) /\ job.source \in Sources
  BY <1>1, AllWritten, TasksOf DEF IsTask
<1>3. /\ DOMAIN before \subseteq DOMAIN disk
      /\ \A path : (\A job \in Tasks : job.path # path) => Untouched(path)
      /\ \A job \in Tasks : ~job.truncate /\ job.source # Unreadable /\ job.path \in DOMAIN disk
           => TailKept(job.path, job.source)
  BY DEF Inv, Kept
<1>4. ASSUME NEW job \in Tasks, ~job.truncate
      PROVE  CopyOf(job.path, job.source)
  <2> DEFINE source == job.source
             old    == Old(job.path)
             new    == disk[job.path]
  <2>1. job.path \in DOMAIN disk /\ source # Unreadable /\ source \in Sources
    BY <1>2, <1>4 DEF Fulfilled, Begins
  <2>2. source \in Seq(Blocks)
    BY <2>1, SourceOf
  <2>3. new \in Seq(Blocks) /\ old \in Seq(Blocks)
    BY <1>1, <2>1 DEF ShapeOK, Contents, Old
  <2>4. Len(source) <= Len(new) /\ \A i \in 1..Len(source) : new[i] = source[i]
    BY <1>2, <1>4 DEF Fulfilled, Begins
  <2>5. /\ Len(old) <= Len(new)
        /\ Len(new) <= Len(old) \/ Len(new) <= Len(source)
        /\ \A i \in 1..Len(old) : i > Len(source) => new[i] = old[i]
    BY <1>3, <1>4, <2>1 DEF TailKept
  <2> HIDE DEF source, old, new
  <2>6. new = Over(source, old)
    BY <2>2, <2>3, <2>4, <2>5, OverSequences
  <2> QED
    BY <2>1, <2>6 DEF CopyOf, source, old, new, Old
<1>5. ASSUME NEW path, \A job \in Tasks : job.path # path
      PROVE  AsBefore(path)
  <2>1. Untouched(path)
    BY <1>3, <1>5
  <2> QED
    BY <1>3, <2>1 DEF Untouched, AsBefore
<1>6. ASSUME NEW job \in Tasks, job.truncate
      PROVE  job.path \in DOMAIN disk /\ disk[job.path] = job.source
  BY <1>1, <1>2, <1>6, FulfilledIsEqual
<1> QED
  BY <1>4, <1>5, <1>6

\* After initialize-kubelet the disk is what its inputs and the disk that it found say,
\* to the last block, and the line what its ignition file says.
THEOREM InitializedFromItsInputs == Spec => []InitializedFromInputs
<1> DEFINE ign == input.ign
           Brought(path, dest) ==
             \/ \E i \in DOMAIN ign.files :
                  /\ ign.files[i].path = path
                  /\ dest \in DOMAIN disk
                  /\ disk[dest] = ign.files[i].source
             \/ (\A i \in DOMAIN ign.files : ign.files[i].path # path) /\ AsBefore(dest)
           Named == IF "cloud-config" \in DOMAIN line THEN {line["cloud-config"]} ELSE {}
           Mine  == {InstallDir(name) : name \in {"kubelet.conf", "kubelet.exe",
                                                  "bootstrap-kubeconfig", "kubelet-ca.crt"}}
<1>1. ASSUME Inv, Initialized
      PROVE  /\ InstallDir("kubelet.conf") \in DOMAIN disk
             /\ disk[InstallDir("kubelet.conf")] = KubeletConf
             /\ CopyOf(InstallDir("kubelet.exe"), input.kubelet)
             /\ Brought("/etc/kubernetes/kubeconfig", InstallDir("bootstrap-kubeconfig"))
             /\ Brought("/etc/kubernetes/kubelet-ca.crt", InstallDir("kubelet-ca.crt"))
             /\ \A dest \in Named : Brought(ign.options["cloud-config"], dest)
             /\ \A path \in AllBut(Named \cup Mine) : AsBefore(path)
             /\ line.v # ""
             /\ "v" \in DOMAIN ign.options => ign.options.v \in {"", line.v}
             /\ DOMAIN line \intersect DOMAIN CNIArgs = {}
  <2>1. /\ pc = "idle" /\ outcome = "success" /\ Initializing /\ Finished
        /\ input.command = "initialize-kubelet"
    BY <1>1 DEF Initialized, Initializing, Finished
  <2>2. ShapeOK /\ input \in Inputs
    BY <1>1 DEF Inv, ShapeOK
  <2>3. ign \in Ignitions /\ input.kubelet \in Kubelets
    BY <2>1, <2>2, InputOf
  <2>4. /\ \A job \in Tasks : job.truncate => job.path \in DOMAIN disk /\ disk[job.path] = job.source
        /\ \A job \in Tasks : ~job.truncate => CopyOf(job.path, job.source)
        /\ \A path : (\A job \in Tasks : job.path # path) => AsBefore(path)
    BY <1>1, <2>1, DiskAtEnd
  <2> DEFINE conf    == Write(KubeletConf, InstallDir("kubelet.conf"))
             exe     == Copy(input.kubelet, InstallDir("kubelet.exe"))
             places  == FilesToTranslate(ign)
             wanted  == {i \in DOMAIN ign.files : ign.files[i].path \in DOMAIN places}
             Job(i)  == TranslationOf(ign, ign.files[i])
  <2>5. Tasks = {conf, exe} \cup {Job(i) : i \in wanted}
    <3>1. Tasks = Members(Opening(input.kubelet)) \cup Members(Translated(ign))
      BY <2>1 DEF Tasks, InitializeTasks
    <3> QED
      BY <2>3, <3>1, OpeningTasks, TranslatedTasks
  <2>6. /\ conf.path = InstallDir("kubelet.conf") /\ conf.source = KubeletConf /\ conf.truncate
        /\ exe.path = InstallDir("kubelet.exe") /\ exe.source = input.kubelet /\ ~exe.truncate
    BY DEF Write, Copy
  <2>7. \A i \in wanted : /\ Job(i).path = places[ign.files[i].path]
                          /\ Job(i).source = ign.files[i].source
                          /\ Job(i).truncate
    BY DEF TranslationOf, Write
  <2> HIDE DEF ign, conf, exe, places, wanted, Job
  <2>8. /\ InstallDir("kubelet.conf") \in DOMAIN disk
        /\ disk[InstallDir("kubelet.conf")] = KubeletConf
        /\ CopyOf(InstallDir("kubelet.exe"), input.kubelet)
    BY <2>4, <2>5, <2>6
  <2>9. ASSUME NEW path \in DOMAIN places
        PROVE  Brought(path, places[path])
    <3>1. CASE \E i \in DOMAIN ign.files : ign.files[i].path = path
      <4>1. PICK i \in DOMAIN ign.files : ign.files[i].path = path
        BY <3>1
      <4>2. i \in wanted
        BY <2>9, <4>1 DEF wanted
      <4>3. Job(i) \in Tasks
        BY <2>5, <4>2
      <4>4. /\ places[path] \in DOMAIN disk
            /\ disk[places[path]] = ign.files[i].source
        BY <2>4, <2>7, <4>1, <4>2, <4>3
      <4> QED
        BY <4>1, <4>4
    <3>2. CASE \A i \in DOMAIN ign.files : ign.files[i].path # path
      <4>1. ASSUME NEW job \in Tasks
            PROVE  job.path # places[path]
        <5>1. CASE job \in {conf, exe}
          BY <2>3, <2>6, <2>9, <5>1, TranslatedApart DEF places
        <5>2. CASE job \in {Job(i) : i \in wanted}
          <6>1. PICK i \in wanted : job = Job(i)
            BY <5>2
          <6>2. ign.files[i].path # path /\ ign.files[i].path \in DOMAIN places
            BY <3>2 DEF wanted
          <6>3. places[ign.files[i].path] # places[path]
            BY <2>3, <2>9, <6>2, TranslatedApart DEF places
          <6> QED
            BY <2>7, <6>1, <6>3
        <5> QED
          BY <2>5, <5>1, <5>2
      <4>2. AsBefore(places[path])
        BY <2>4, <4>1
      <4> QED
        BY <3>2, <4>2
    <3> QED
      BY <3>1, <3>2
  <2>10. line = Over(KubeletArgs(ign), BaseOptions)
    BY <1>1, <2>1 DEF Inv, LineOK, ign
  <2>11. /\ DOMAIN CNIArgs \cap DOMAIN line = {}
         /\ line["v"] # ""
         /\ "v" \in DOMAIN ign.options => ign.options["v"] \in {"", line["v"]}
         /\ "cloud-config" \in DOMAIN line <=> "cloud-config" \in DOMAIN FoundOptions(ign)
         /\ "cloud-config" \in DOMAIN line =>
              line["cloud-config"] = InstallDir(ConfNames[ign.options["cloud-config"]])
    BY <2>3, <2>10, RegistrationOf
  <2> DEFINE named == IF "cloud-config" \in DOMAIN FoundOptions(ign)
                        THEN {ign.options["cloud-config"]} ELSE {}
  <2>12. /\ DOMAIN places = named \cup {"/etc/kubernetes/kubeconfig", "/etc/kubernetes/kubelet-ca.crt"}
         /\ \A path \in named : places[path] = InstallDir(ConfNames[path])
         /\ places["/etc/kubernetes/kubeconfig"] = InstallDir("bootstrap-kubeconfig")
         /\ places["/etc/kubernetes/kubelet-ca.crt"] = InstallDir("kubelet-ca.crt")
    BY <2>3, Destinations DEF places
  <2>13. ASSUME NEW path \in named
         PROVE  /\ "cloud-config" \in DOMAIN line
                /\ path = ign.options["cloud-config"]
                /\ places[path] = line["cloud-config"]
    BY <2>11, <2>12, <2>13
  <2>14. ASSUME "cloud-config" \in DOMAIN line
         PROVE  ign.options["cloud-config"] \in named
    BY <2>11, <2>14
  <2> HIDE DEF named
  <2>15. ASSUME NEW path \in DOMAIN places
         PROVE  places[path] \in Named \cup Mine
    <3>1. CASE path \in named
      BY <2>13, <3>1
    <3>2. CASE path \in {"/etc/kubernetes/kubeconfig", "/etc/kubernetes/kubelet-ca.crt"}
      BY <2>12, <3>2
    <3> QED
      BY <2>12, <3>1, <3>2
  <2>16. ASSUME NEW path \in AllBut(Named \cup Mine)
         PROVE  AsBefore(path)
    <3>1. path \notin Named \cup Mine
      BY <2>16 DEF AllBut
    <3>2. ASSUME NEW job \in Tasks
          PROVE  job.path \in Named \cup Mine
      <4>1. CASE job \in {conf, exe}
        BY <2>6, <4>1
      <4>2. CASE job \in {Job(i) : i \in wanted}
        <5>1. PICK i \in wanted : job = Job(i)
          BY <4>2
        <5>2. ign.files[i].path \in DOMAIN places
          BY DEF wanted
        <5> QED
          BY <2>7, <2>15, <5>1, <5>2
      <4> QED
        BY <2>5, <4>1, <4>2
    <3> HIDE DEF Named, Mine
    <3> QED
      BY <2>4, <3>1, <3>2
  <2> HIDE DEF Brought
  <2>17. /\ Brought("/etc/kubernetes/kubeconfig", InstallDir("bootstrap-kubeconfig"))
         /\ Brought("/etc/kubernetes/kubelet-ca.crt", InstallDir("kubelet-ca.crt"))
    BY <2>9, <2>12
  <2>18. ASSUME NEW dest \in Named
         PROVE  Brought(ign.options["cloud-config"], dest)
    <3>1. "cloud-config" \in DOMAIN line /\ dest = line["cloud-config"]
      BY <2>18
    <3>2. ign.options["cloud-config"] \in named /\ ign.options["cloud-config"] \in DOMAIN places
      BY <2>12, <2>14, <3>1
    <3>3. places[ign.options["cloud-config"]] = dest
      BY <2>13, <3>1, <3>2
    <3> QED
      BY <2>9, <3>2, <3>3
  <2> HIDE DEF Named, Mine
  <2> QED
    BY <2>8, <2>11, <2>16, <2>17, <2>18
<1>2. Inv => InitializedFromInputs
  BY <1>1 DEF InitializedFromInputs
<1> QED
  BY <1>2, InvHolds, PTL

\* A line with the CNI options: what it says of them, and what is below them.
LEMMA LineWithCNI ==
  ASSUME NEW l \in WithCNI
  PROVE  /\ l["cni-bin-dir"] = "k/cni" /\ l["cni-conf-dir"] = "k/cni/config"
         /\ DOMAIN CNIArgs \subseteq DOMAIN l
         /\ \A r \in Registrations : l = Over(CNIArgs, r) => Beyond(l, CNIArgs) = r
<1>1. ASSUME NEW r \in Registrations, l = Over(CNIArgs, r)
      PROVE  Beyond(l, CNIArgs) = r
  <2>1. PICK ign \in Ignitions : r = Over(KubeletArgs(ign), BaseOptions)
    BY DEF Registrations
  <2>2. DOMAIN CNIArgs \cap DOMAIN r = {}
    BY <2>1, RegistrationOf
  <2>3. r = [x \in DOMAIN r |-> r[x]]
    BY <2>1, OverIsFunction
  <2>4. Beyond(Over(CNIArgs, r), CNIArgs) = r
    BY <2>2, <2>3, OverWithout
  <2> QED
    BY <1>1, <2>4, Zenon
<1>2. PICK r \in Registrations : l = Over(CNIArgs, r)
  BY DEF WithCNI
<1>3. l["cni-bin-dir"] = "k/cni" /\ l["cni-conf-dir"] = "k/cni/config"
  BY <1>2, CNIOptions DEF Over
<1>4. DOMAIN CNIArgs \subseteq DOMAIN l
  BY <1>2 DEF Over
<1> QED
  BY <1>1, <1>2, <1>3, <1>4

\* After configure-cni the directories that the line names hold the package, each of
\* its files followed by the end of a longer one, and the rest is as before.
THEOREM ConfiguredFromItsPackage == Spec => []ConfiguredFromPackage
<1> DEFINE package == input.package
           plugins == {i \in DOMAIN package.dir : ~package.dir[i].isDir}
           Plugin(i) == <<line["cni-bin-dir"], package.dir[i].name>>
           Config    == <<line["cni-conf-dir"], package.configName>>
<1>1. ASSUME Inv, Configured
      PROVE  /\ \A i \in plugins : CopyOf(Plugin(i), package.dir[i].source)
             /\ CopyOf(Config, package.config)
             /\ \A path \in AllBut({Plugin(i) : i \in plugins} \cup {Config}) : AsBefore(path)
  <2>1. /\ pc = "idle" /\ outcome = "success" /\ Configuring /\ Finished
        /\ input.command = "configure-cni"
    BY <1>1 DEF Configured, Configuring, Finished
  <2>2. ShapeOK /\ input \in Inputs
    BY <1>1 DEF Inv, ShapeOK
  <2>3. package \in Packages
    BY <2>1, <2>2, InputOf
  <2>4. /\ \A job \in Tasks : ~job.truncate => CopyOf(job.path, job.source)
        /\ \A path : (\A job \in Tasks : job.path # path) => AsBefore(path)
    BY <1>1, <2>1, DiskAtEnd
  <2> DEFINE Job(i) == Copy(package.dir[i].source, CNIBinDir(package.dir[i].name))
             last   == Copy(package.config, CNIConfDir(package.configName))
  <2>5. Tasks = {Job(i) : i \in plugins} \cup {last}
    <3>1. Tasks = ConfigureTasks(package)
      BY <2>1 DEF Tasks
    <3> QED
      BY <2>3, <3>1, CopyTasks
  <2>6. line["cni-bin-dir"] = "k/cni" /\ line["cni-conf-dir"] = "k/cni/config"
    BY <1>1, <2>1, LineWithCNI DEF Inv, LineOK
  <2>7. \A i \in plugins : /\ Job(i).path = Plugin(i) /\ ~Job(i).truncate
                           /\ Job(i).source = package.dir[i].source
    BY <2>6 DEF Copy, CNIBinDir
  <2>8. last.path = Config /\ last.source = package.config /\ ~last.truncate
    BY <2>6 DEF Copy, CNIConfDir
  <2> HIDE DEF package, plugins, Plugin, Config, Job, last
  <2>9. \A i \in plugins : CopyOf(Plugin(i), package.dir[i].source)
    BY <2>4, <2>5, <2>7
  <2>10. CopyOf(Config, package.config)
    BY <2>4, <2>5, <2>8
  <2>11. ASSUME NEW path \in AllBut({Plugin(i) : i \in plugins} \cup {Config})
         PROVE  AsBefore(path)
    <3>1. path \notin {Plugin(i) : i \in plugins} \cup {Config}
      BY <2>11 DEF AllBut
    <3>2. ASSUME NEW job \in Tasks
          PROVE  job.path # path
      BY <2>5, <2>7, <2>8, <3>1
    <3> QED
      BY <2>4, <3>2
  <2> QED
    BY <2>9, <2>10, <2>11
<1>2. Inv => ConfiguredFromPackage
  BY <1>1 DEF ConfiguredFromPackage
<1> QED
  BY <1>2, InvHolds, PTL

-----------------------------------------------------------------------------
(* NodeService *)

\* A registration without the CNI options.
LEMMA LineWithoutCNI ==
  ASSUME NEW r \in Registrations
  PROVE  /\ Beyond(r, CNIArgs) = r
         /\ ~(DOMAIN CNIArgs \subseteq DOMAIN r)
<1>1. PICK ign \in Ignitions : r = Over(KubeletArgs(ign), BaseOptions)
  BY DEF Registrations
<1>2. DOMAIN CNIArgs \cap DOMAIN r = {}
  BY <1>1, RegistrationOf
<1>3. r = [x \in DOMAIN r |-> r[x]]
  BY <1>1, OverIsFunction
<1>4. Beyond(r, CNIArgs) = r
  BY <1>2, <1>3, NothingBeyond
<1>5. "cni-bin-dir" \in DOMAIN CNIArgs
  BY CNIOptions
<1> QED
  BY <1>2, <1>4, <1>5

\* A command line in the terms of NodeService.
Service(l) ==
  IF l = NoLine THEN NoLine
  ELSE [ign |-> Beyond(l, CNIArgs), cni |-> DOMAIN CNIArgs \subseteq DOMAIN l]

LEMMA RegisteredIsService == Registered = Service(line) /\ Registered' = Service(line')
BY DEF Registered, Service, CNIArgs, Over, Only, Beyond

LEMMA ServiceIs ==
  ASSUME NEW r \in Registrations
  PROVE  /\ Service(NoLine) = NoLine
         /\ Service(r) = [ign |-> r, cni |-> FALSE] /\ Service(r) # NoLine
         /\ Service(Over(CNIArgs, r)) = [ign |-> r, cni |-> TRUE]
         /\ Service(Over(CNIArgs, r)) # NoLine
<1> DEFINE l == Over(CNIArgs, r)
<1>1. l \in WithCNI
  BY DEF WithCNI
<1>2. r # NoLine /\ l # NoLine
  BY NoLineAssumption
<1>3. Service(r) = [ign |-> r, cni |-> FALSE]
  <2>1. Service(r) = [ign |-> Beyond(r, CNIArgs), cni |-> DOMAIN CNIArgs \subseteq DOMAIN r]
    BY <1>2, Zenon DEF Service
  <2>2. ~(DOMAIN CNIArgs \subseteq DOMAIN r)
    BY LineWithoutCNI
  <2>3. Beyond(r, CNIArgs) = r
    BY LineWithoutCNI
  <2>4. (DOMAIN CNIArgs \subseteq DOMAIN r) = FALSE
    BY <2>2, Zenon
  <2> QED
    BY <2>1, <2>3, <2>4, Zenon
<1>4. Service(l) = [ign |-> r, cni |-> TRUE]
  <2> HIDE DEF l
  <2>1. Service(l) = [ign |-> Beyond(l, CNIArgs), cni |-> DOMAIN CNIArgs \subseteq DOMAIN l]
    BY <1>2, Zenon DEF Service
  <2>2. (DOMAIN CNIArgs \subseteq DOMAIN l) = TRUE
    BY <1>1, LineWithCNI
  <2>3. Beyond(l, CNIArgs) = r
    BY <1>1, LineWithCNI DEF l
  <2> QED
    BY <2>1, <2>2, <2>3, Zenon
<1>5. [ign |-> r, cni |-> FALSE] # NoLine /\ [ign |-> r, cni |-> TRUE] # NoLine
  <2>1. /\ [ign |-> r, cni |-> FALSE] \in [ign : Registrations, cni : BOOLEAN]
        /\ [ign |-> r, cni |-> TRUE] \in [ign : Registrations, cni : BOOLEAN]
    OBVIOUS
  <2>2. NoLine \notin [ign : Registrations, cni : BOOLEAN]
    BY NoLineAssumption
  <2> QED
    BY <2>1, <2>2, Zenon
<1>6. Service(NoLine) = NoLine
  BY Zenon DEF Service
<1> QED
  BY <1>3, <1>4, <1>5, <1>6

\* Steps that neither register nor report.
LEMMA Stutters ==
  ASSUME UNCHANGED line, Reported' = Reported
  PROVE  UNCHANGED Promise!vars
BY DEF Promise!vars, Registered, CNIArgs, Over, Only, Beyond

\* A registration that gains the options of the CNI keeps its others.
LEMMA GainCNI ==
  ASSUME NEW s \in [ign : Registrations, cni : BOOLEAN]
  PROVE  [s EXCEPT !.cni = TRUE] = [ign |-> s.ign, cni |-> TRUE]
<1>1. PICK t \in [ign : Registrations, cni : BOOLEAN] : t = [s EXCEPT !.cni = TRUE]
  OBVIOUS
<1>2. t.ign = s.ign /\ t.cni = TRUE
  BY <1>1
<1>3. t = [ign |-> t.ign, cni |-> t.cni]
  OBVIOUS
<1> QED
  BY <1>1, <1>2, <1>3, Zenon

LEMMA StepImplements ==
  ASSUME Inv, [Next]_vars
  PROVE  [Promise!Next]_(Promise!vars)
<1> DEFINE None == [p \in {"wmcb"} |-> "none"]
\* A command that runs, or has failed, has reported nothing.
<1>1. /\ (pc # "idle" \/ outcome # "success") => Reported = None
      /\ (pc' # "idle" \/ outcome' # "success") => Reported' = None
  BY DEF Reported
<1>2. DOMAIN Reported = {"wmcb"} /\ Reported' = [p \in {"wmcb"} |-> Reported'["wmcb"]]
  BY DEF Reported
<1>3. ASSUME UNCHANGED line, Reported' = None
      PROVE  [Promise!Next]_(Promise!vars)
  <2>1. Registered' = Registered
    BY <1>3 DEF Registered, CNIArgs, Over, Only, Beyond
  <2>2. Reported' = [Reported EXCEPT !["wmcb"] = "none"]
    BY <1>3 DEF Reported
  <2>3. Promise!Restart("wmcb")
    BY <2>1, <2>2 DEF Promise!Restart
  <2> QED
    BY <2>3 DEF Promise!Next
<1>4. ASSUME line' # line, Reported' = Reported,
             \/ line' = NoLine
             \/ line = NoLine /\ line' \in Registrations
             \/ line # NoLine /\ line' = Over(CNIArgs, line)
      PROVE  Promise!Next
  <2>1. CASE line' = NoLine
    <3>1. PICK r \in Registrations : line \in {r, Over(CNIArgs, r)}
      BY <1>4, <2>1 DEF Inv, ShapeOK, WithCNI
    <3>2. Registered # NoLine /\ Registered' = NoLine
      BY <2>1, <3>1, ServiceIs, RegisteredIsService
    <3> QED
      BY <1>4, <3>2 DEF Promise!Next, Promise!Withdraw
  <2>2. CASE line = NoLine /\ line' \in Registrations
    <3>1. Registered = NoLine /\ Registered' = [ign |-> line', cni |-> FALSE]
      BY <2>2, ServiceIs, RegisteredIsService
    <3>2. Promise!Install
      BY <1>4, <2>2, <3>1 DEF Promise!Install
    <3> QED
      BY <3>2 DEF Promise!Next
  <2>3. CASE line # NoLine /\ line' = Over(CNIArgs, line)
    <3>1. PICK r \in Registrations : line \in {r, Over(CNIArgs, r)}
      BY <2>3 DEF Inv, ShapeOK, WithCNI
    <3>2. line' = Over(CNIArgs, r)
      BY <2>3, <3>1, OverTwice
    <3>3. /\ Registered \in {[ign |-> r, cni |-> FALSE], [ign |-> r, cni |-> TRUE]}
          /\ Registered # NoLine
          /\ Registered' = [ign |-> r, cni |-> TRUE]
      <4>1. /\ Service(line) \in {[ign |-> r, cni |-> FALSE], [ign |-> r, cni |-> TRUE]}
            /\ Service(line) # NoLine
        <5>1. CASE line = r
          BY <5>1, ServiceIs
        <5>2. CASE line = Over(CNIArgs, r)
          BY <5>2, ServiceIs
        <5> QED
          BY <3>1, <5>1, <5>2
      <4>2. Service(line') = [ign |-> r, cni |-> TRUE]
        BY <3>2, ServiceIs
      <4> QED
        BY <4>1, <4>2, RegisteredIsService
    <3>4. Registered' = [Registered EXCEPT !.cni = TRUE]
      <4>1. Registered \in [ign : Registrations, cni : BOOLEAN] /\ Registered.ign = r
        <5>1. CASE Registered = [ign |-> r, cni |-> FALSE]
          BY <5>1
        <5>2. CASE Registered = [ign |-> r, cni |-> TRUE]
          BY <5>2
        <5> QED
          BY <3>3, <5>1, <5>2
      <4> QED
        BY <3>3, <4>1, GainCNI
    <3>5. Promise!AddCNI
      BY <1>4, <3>3, <3>4 DEF Promise!AddCNI
    <3> QED
      BY <3>5 DEF Promise!Next
  <2> QED
    BY <1>4, <2>1, <2>2, <2>3
<1>5. ASSUME UNCHANGED vars
      PROVE  UNCHANGED Promise!vars
  <2>1. UNCHANGED <<line, pc, outcome, input>>
    BY <1>5 DEF vars, registration
  <2> QED
    BY <2>1, Stutters DEF Reported
\* A command starts, goes on, or ends without success.
<1>6. ASSUME \/ InitializeKubelet \/ Configure \/ OpenFile \/ WriteBlock \/ Written
             \/ ParseIgnition \/ Interrupted
      PROVE  [Promise!Next]_(Promise!vars)
  <2>1. UNCHANGED line
    BY <1>6 DEF InitializeKubelet, BeginInitialize, Configure, OpenFile, WriteBlock, Written,
       ParseIgnition, Interrupted, registration
  <2>2. pc' # "idle" \/ outcome' # "success"
    BY <1>6 DEF InitializeKubelet, BeginInitialize, Configure, OpenFile, WriteBlock, Written,
       ParseIgnition, Interrupted, Exit
  <2> QED
    BY <1>1, <1>3, <2>1, <2>2
\* So does one that marks the registration, and one that finds it too late to change.
<1>7. ASSUME UNCHANGED line,
             pc # "idle" /\ (pc' # "idle" \/ outcome' = "error")
      PROVE  [Promise!Next]_(Promise!vars)
  BY <1>1, <1>3, <1>7
<1>8. CASE StopAndRemove
  BY <1>7, <1>8 DEF StopAndRemove, Exit
<1>9. CASE Unregistered
  <2>1. Reported' = Reported
    BY <1>9 DEF Unregistered, Reported
  <2>2. line # NoLine /\ line' = NoLine
    BY <1>9 DEF Unregistered, Inv, LineOK
  <2> QED
    BY <1>4, <2>1, <2>2
<1>10. CASE CreateKubeletService
  <2>1. pc = "create" /\ input' = input
    BY <1>10 DEF CreateKubeletService
  <2>2. CASE line' = line
    BY <1>7, <1>10, <2>2 DEF CreateKubeletService, Exit
  <2>3. CASE line' # line
    <3>1. line = NoLine /\ line' = Over(args, BaseOptions) /\ pc' = "start"
      BY <1>10, <2>3 DEF CreateKubeletService
    <3>2. Initializing /\ args = KubeletArgs(input.ign)
      BY <2>1 DEF Inv, ControlOK
    <3>3. line' \in Registrations
      BY <3>1, <3>2, InputOf, RegistrationOf DEF Inv, ShapeOK
    <3>4. Reported' = Reported
      BY <1>1, <2>1, <3>1
    <3> QED
      BY <1>4, <2>3, <3>1, <3>3, <3>4
  <2> QED
    BY <2>2, <2>3
<1>11. CASE UpdateConfig
  <2>1. pc = "update"
    BY <1>11 DEF UpdateConfig, UpdateTo
  <2>2. CASE line' = line
    BY <1>7, <1>11, <2>2 DEF UpdateConfig, UpdateTo, Exit
  <2>3. CASE line' # line
    <3>1. line' = Over(CNIArgs, line) /\ pc' = "start"
      BY <1>11, <2>3 DEF UpdateConfig, UpdateTo
    <3>2. line # NoLine
      BY <2>1 DEF Inv, ControlOK, LineOK, Configuring
    <3>3. Reported' = Reported
      BY <1>1, <2>1, <3>1
    <3> QED
      BY <1>4, <2>3, <3>1, <3>2, <3>3
  <2> QED
    BY <2>2, <2>3
<1>12. ASSUME Start
      PROVE  Promise!Next
  <2>1. pc = "start" /\ pc' = "idle" /\ outcome' = "success" /\ UNCHANGED <<line, input>>
    BY <1>12 DEF Start, Exit, registration
  <2>2. Registered' = Registered
    BY <2>1 DEF Registered, CNIArgs, Over, Only, Beyond
  <2>3. Reported' = [Reported EXCEPT !["wmcb"] = input.command]
    BY <2>1 DEF Reported
  <2>4. Finished
    BY <2>1 DEF Finished
  <2>5. CASE Initializing
    <3>1. line \in Registrations
      BY <2>4, <2>5, InputOf, RegistrationOf DEF Inv, LineOK, ShapeOK
    <3>2. Registered # NoLine
      BY <3>1, ServiceIs, RegisteredIsService
    <3>3. Promise!AnnounceInitialized("wmcb")
      BY <2>2, <2>3, <2>5, <3>2 DEF Promise!AnnounceInitialized, Initializing
    <3> QED
      BY <3>3 DEF Promise!Next
  <2>6. CASE Configuring
    <3>1. line \in WithCNI
      BY <2>4, <2>6 DEF Inv, LineOK
    <3>2. PICK r \in Registrations : line = Over(CNIArgs, r)
      BY <3>1 DEF WithCNI
    <3>3. Registered = [ign |-> r, cni |-> TRUE] /\ Registered # NoLine
      BY <3>2, ServiceIs, RegisteredIsService
    <3>4. Promise!AnnounceConfigured("wmcb")
      BY <2>2, <2>3, <2>6, <3>3 DEF Promise!AnnounceConfigured, Configuring
    <3> QED
      BY <3>4 DEF Promise!Next
  <2> QED
    BY <2>4, <2>5, <2>6 DEF Inv, LineOK
<1> QED
  BY <1>5, <1>6, <1>8, <1>9, <1>10, <1>11, <1>12 DEF Next

\* wmcb implements NodeService with the options themselves as the command line:
\* a registration keeps all its options, and only gains those of the CNI.
THEOREM Implements == Spec => ImplementsNodeService
<1>1. Init => Promise!Init
  BY DEF Init, Promise!Init, Registered, Reported
<1>2. Inv /\ [Next]_vars => [Promise!Next]_(Promise!vars)
  BY StepImplements
<1> QED
  BY <1>1, <1>2, InvHolds, PTL DEF Spec, ImplementsNodeService, Promise!Spec

=============================================================================
