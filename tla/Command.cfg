SPECIFICATION Spec
CONSTANTS
  Programs <- MCPrograms
  Kubelets <- MCKubelets
  Words <- MCWords
  MaxWords = 4
  CNIArgs <- MCCNIArgs
CHECK_DEADLOCK FALSE
PROPERTIES
  ImplementsKubeletOptions
  OnlyGrowsByCNI
  StaysEditable
