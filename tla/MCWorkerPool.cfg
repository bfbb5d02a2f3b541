SPECIFICATION Spec
CONSTANTS
  Counts = {0, 1, 4}
  MaxWorkers = 3
INVARIANTS VisitedOnce FrameOutlivesThreads
PROPERTIES ImplementsParallelFor Returns
