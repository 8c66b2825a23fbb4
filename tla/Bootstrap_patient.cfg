SPECIFICATION BothFairSpec
CONSTANTS
  Processes = {p1}
  Outsider = outsider
  Ignitions = {i1, i2}
  NoCommand = NoCommand
  FaultKinds = {"timeout", "kill", "reboot", "outsider"}
  MaxFaults = 2
  Commands = {"initialize-kubelet", "configure-cni"}
  PatientOperator = TRUE
INVARIANTS
  SuccessMeansServing
  OverlayRestarted
PROPERTY BothSucceed
