SPECIFICATION FairSpec
CONSTANTS
  Processes = {p1}
  Outsider = outsider
  Ignitions = {i1, i2}
  NoCommand = NoCommand
  FaultKinds = {"api", "timeout", "kill", "crash", "reboot", "outsider"}
  MaxFaults = 2
  Commands = {"initialize-kubelet"}
  PatientOperator = FALSE
PROPERTIES
  CommandTerminates
  RetriesSucceed
