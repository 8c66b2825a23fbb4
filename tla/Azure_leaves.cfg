SPECIFICATION Spec
CONSTANTS
  p1 = p1
  p2 = p2
  Absent = Absent
  Unparsable = Unparsable
  NoFile = NoFile
  Processes <- MCOne
  Addresses <- MCAddresses
  Flags <- MCOwn
  GivenPooled = FALSE
  FoundRules <- MCFoundRules
  MaxVMs = 2
  MaxFaults = 0
INVARIANT DestroyLeavesNothing
