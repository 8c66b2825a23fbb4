SPECIFICATION Spec
CONSTANTS
  p1 = p1
  p2 = p2
  Absent = Absent
  Unparsable = Unparsable
  NoFile = NoFile
  Processes <- MCBoth
  Dirs <- MCBoth
  DirOf <- MCDirOf
  Addresses <- MCAddresses
  FoundRules <- MCFoundRules
  MaxInstances = 2
  MaxGroups = 2
  MaxFaults = 2
  MaxForgets = 0
SYMMETRY Symmetry
INVARIANTS TypeOK ReportedIsRecorded ReportedIsReachable
PROPERTY ForgetsOnlyTheDead
