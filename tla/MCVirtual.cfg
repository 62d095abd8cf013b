CONSTANTS
    location = 12
    max_size = 10
    PAGE_LARGE_SIZE = 4
    Sizes <- MCSizes
    Alignments <- MCAlignments
    Procs = {p1, p2}
    Screen = Screen
    Junk = Junk
    Parent = Parent
    Child = Child
    Chunks = {c1, c2}
SPECIFICATION VirtualSpec
INVARIANTS MemoryAccounted KernelShared GivenIsSound
PROPERTY Isolation
CHECK_DEADLOCK FALSE
SYMMETRY Slots
