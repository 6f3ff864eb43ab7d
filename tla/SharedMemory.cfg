SPECIFICATION MemorySpec
CONSTANTS
    BufferSize = 2
    Keys = {"cmd", "pose"}
    ArrayKeys = {"pose"}
    Vals = {0, 1}
    Zero = 0
    MaxPuts = 3
    Rings <- BothRings
INVARIANTS
    CountersBounded
    EmptyIsTrue
    FreshRowsIntact
    PublishedRowsWhole
    PacedReadsWhole
PROPERTIES
    UnreadRowsStable
    ImplementsFIFO
CHECK_DEADLOCK FALSE
