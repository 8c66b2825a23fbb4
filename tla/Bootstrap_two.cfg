SPECIFICATION Spec
CONSTANTS
  Processes = {p1, p2}
  Outsider = outsider
  Ignitions = {i1, i2}
  NoCommand = NoCommand
  FaultKinds = {"api", "timeout", "kill", "crash", "reboot", "outsider"}
  MaxFaults = 2
  Commands = {"initialize-kubelet", "configure-cni"}
  PatientOperator = FALSE
SYMMETRY Symmetry
INVARIANTS
  TypeOK
  Inv
  NoStrayKubelet
  ConfigNotStale
PROPERTIES
  OnlyGainsCNI
  SuccessIsTruthful
  ImplementsNodeService
