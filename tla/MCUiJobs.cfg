SPECIFICATION Spec
CONSTANTS
  NumSlots = 2
  RingSize = 2
  NumPids = 2
  MaxJobs = 2
  MaxLines = 2
INVARIANTS SlotOwned ChildReaped  LogComplete RingIsLast
PROPERTY JobEnds
CHECK_DEADLOCK FALSE
