SPECIFICATION FairSpec
CONSTANTS
  p1 = p1
  p2 = p2
  Absent = Absent
  Unparsable = Unparsable
  NoFile = NoFile
  Processes <- MCOne
  Dirs <- MCOne
  DirOf <- MCDirOf
  Addresses <- MCAddresses
  FoundRules <- MCFoundRules
  MaxInstances = 2
  MaxGroups = 2
  MaxFaults = 2
  MaxForgets = 1
PROPERTY DestroyConverges
