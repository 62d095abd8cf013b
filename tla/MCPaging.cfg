CONSTANTS
    Procs = {p1, p2}
    Screen = Screen
    Junk = Junk
    Parent = Parent
    Child = Child
    NumFrames = 18
    Chunks = {}
    NumEntries = 2
    UserMappings <- Small
    KernelMappings <- None
    ScreenAddr <- ScreenAt
    ParamAddrs <- ParamCode
    ExitCleanups = 2
    MaxFrees = 2
SPECIFICATION Spec
INVARIANT MemoryAccounted
CHECK_DEADLOCK FALSE
