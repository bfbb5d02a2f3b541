SPECIFICATION Spec
CONSTANTS
  Files <- MCFiles
  Contents <- MCContents
  NumWorkers = 2
INVARIANTS NodeIdsUnique EdgesAttached FullBuildExact 
CHECK_DEADLOCK FALSE
