SPECIFICATION FairSpec
CONSTANTS
  p1 = p1
  p2 = p2
  Absent = Absent
  Unparsable = Unparsable
  NoFile = NoFile
  Processes <- MCOne
  Addresses <- MCAddresses
  Flags <- MCFlags
  GivenPooled = FALSE
  FoundRules <- MCFoundRules
  MaxVMs = 2
  MaxFaults = 1
INVARIANT TypeOK
PROPERTIES ForgetsWithAWord DestroyGetsThrough
CHECK_DEADLOCK FALSE
