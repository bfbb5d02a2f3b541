SPECIFICATION Spec
CONSTANTS
  Files <- MCFiles
  Contents <- MCContents
  NumWorkers = 2
INVARIANT EdgesTrue
CHECK_DEADLOCK FALSE
