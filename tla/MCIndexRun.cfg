SPECIFICATION Spec
CONSTANTS
  a = a  b = b  s = s
  Files = {a, b, s}
  FastSkipped = {s}
  MaxEdits = 2
  MaxRuns = 2
  MaxCancels = 1
  MaxCrashes = 1
  MaxFails = 1
SYMMETRY Symmetry
INVARIANTS
  
  
  IncrementalKeepsSkipped
