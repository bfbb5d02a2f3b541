SPECIFICATION Spec
CONSTANTS
    PageSize = 14
    LeafHeader = 1
    InteriorHeader = 2
    CellPtr = 1
    PagePtr = 1
    Varint = 1
    TableMax = 9
    IndexMax = 2
    MinLocal = 1
    PendingPage = 5
    Kinds <- TableThenIndex
    Payloads = {2, 9, 28}
    MaxRows = 8
INVARIANTS
    PagesFit
    PendingOnlyOverflow
    TreesSound
    UsedOnce
PROPERTY WriteOnce
