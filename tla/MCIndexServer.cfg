SPECIFICATION Spec
CONSTANTS
  Autos = {a1}
  MaxInits = 2
INVARIANTS ExclusiveUntilShutdown ConfigNotDangling SnapshotLive 
PROPERTIES ConfigClearedOnlyByFree ShutdownEnds
