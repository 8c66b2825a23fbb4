SPECIFICATION Spec
CONSTANTS
  a = a
  b = b
  NoLine = NoLine
  Unreadable = Unreadable
  Blocks <- MCBlocks
  Ignitions <- MCIgnitions
  ConfNames <- MCConfNames
  Kubelets <- MCKubelets
  Packages <- MCPackages
  KubeletConf <- MCKubeletConf
  BaseOptions <- MCBaseOptions
  MaxFailures = 2
INVARIANTS TypeOK RegisteredIsComplete InitializedFromInputs ConfiguredFromPackage
PROPERTY ImplementsNodeService
