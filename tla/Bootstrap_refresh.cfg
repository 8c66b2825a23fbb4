SPECIFICATION Spec
CONSTANTS
  Processes = {p1}
  Outsider = outsider
  Ignitions = {i1, i2}
  NoCommand = NoCommand
  FaultKinds = {}
  MaxFaults = 0
  Commands = {"initialize-kubelet", "configure-cni"}
  PatientOperator = FALSE
INVARIANT RefreshRestarts
