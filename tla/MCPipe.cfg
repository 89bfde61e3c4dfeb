\* Files and the uart.
CONSTANTS
    NBufs = 3
    NSlots = 2
    MaxFd = 2
    Names = {"file", "uart"}
    Modes = {"in", "inout"}
    QueueSize = 4
    MallocDirty = FALSE
SPECIFICATION FairSpec
INVARIANTS ListsMatch NoFaults
PROPERTY ClosedPipesLeave
