----------------------------- MODULE MCNodeFiles -----------------------------
(* Small instances of NodeFiles: two kubelets and two packages of different  *)
(* sizes, and an ignition file for each way that they differ.                *)
EXTENDS NodeFiles, TLC

CONSTANTS a, b   \* blocks

MCBlocks      == {a, b}
MCKubeletConf == <<a, b>>
MCKubelets    == {<<a, a>>, <<b>>}
MCConfNames   == "/etc/kubernetes/cloud.conf" :> "cloud.conf"
MCBaseOptions == ("config" :> "kubelet.conf") @@ ("windows-service" :> "")

File(path, source) == [path |-> path, source |-> source]
Ignition(options, files) ==
  [parses |-> TRUE, emptyUnit |-> FALSE, options |-> options, files |-> files]

\* The files of an AWS and of an Azure cluster, with their options.
AWS == Ignition(("cloud-provider" :> "aws") @@ ("v" :> "5"),
  << File("/etc/kubernetes/kubeconfig", <<a>>), File("/etc/kubernetes/kubelet-ca.crt", <<b>>),
     File("/etc/kubernetes/kubelet.conf", <<b>>) >>)

Azure == Ignition(("cloud-provider" :> "azure") @@ ("v" :> "")
                    @@ ("cloud-config" :> "/etc/kubernetes/cloud.conf"),
  << File("/etc/kubernetes/cloud.conf", <<a>>), File("/etc/kubernetes/kubeconfig", <<b, a>>) >>)

\* A unit that names a cloud.conf which is not there; one without contents; a file
\* that cannot be decoded, and no unit.
NoConf    == Ignition("cloud-config" :> "/etc/kubernetes/cloud.conf", <<>>)
EmptyUnit == [NoConf EXCEPT !.emptyUnit = TRUE]
BadFile   == Ignition(<<>>, << File("/etc/kubernetes/kubelet-ca.crt", <<b>>),
                               File("/etc/kubernetes/kubeconfig", Unreadable) >>)

MCIgnitions == {AWS, Azure, NoConf, EmptyUnit, BadFile}

Plugin(name, source) == [name |-> name, isDir |-> FALSE, source |-> source]

\* Two releases of the plugins, the second one smaller and with a plugin less.
MCPackages ==
  { [dir |-> << [name |-> "config", isDir |-> TRUE, source |-> <<a>>],
                Plugin("host-local.exe", <<a>>), Plugin("win-overlay.exe", <<a, b>>) >>,
     config |-> <<a>>, configName |-> "cni.conf"],
    [dir |-> << Plugin("win-overlay.exe", <<b>>) >>,
     config |-> <<b>>, configName |-> "cni.conf"] }
=============================================================================
