SPECIFICATION Spec
CONSTANTS
  MaxEdits = 1
  MaxRuns = 2
  MaxRequests = 1
  MaxFaults = 1
INVARIANTS TypeOK   StaleOnlyBy   AdrLostOnlyBy
CHECK_DEADLOCK FALSE
