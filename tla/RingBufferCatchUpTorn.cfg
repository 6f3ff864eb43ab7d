SPECIFICATION TornSpec
CONSTANTS
    BufferSize = 2
    Keys = {"cmd", "pose"}
    ArrayKeys = {"pose"}
    Vals = {0, 1}
    Zero = 0
    MaxPuts = 3
    Rings <- DeadlinePacedOnly
INVARIANT SafeToReadLastK
CHECK_DEADLOCK FALSE
