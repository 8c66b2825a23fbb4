SPECIFICATION Spec
CONSTANTS
  Absent = Absent
  Unparsable = Unparsable
  InstanceIDs <- MCInstanceIDs
  GroupIDs <- MCGroupIDs
INVARIANT FileNamesSomething
PROPERTY ImplementsResourceTracker
