SPECIFICATION Spec
CONSTANTS
  Autos = {a1}
  MaxInits = 1
INVARIANTS CancelTargetAlive
