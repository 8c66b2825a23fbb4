SPECIFICATION Spec
CONSTANTS
  p1 = p1
  p2 = p2
  Absent = Absent
  Unparsable = Unparsable
  NoFile = NoFile
  Processes <- MCOne
  Dirs <- MCOne
  DirOf <- MCDirOf
  Addresses <- MCAddresses
  FoundRules <- MCFoundRules
  MaxInstances = 2
  MaxGroups = 1
  MaxFaults = 1
  MaxForgets = 1
INVARIANT CreatedIsSaved
