CONSTANTS
    Chunks = {c1, c2, c3}
    NumPages = 4
    NULL = NULL
    Files <- MCFiles
    OldBytes = {0, 13}
    PAGE_SMALL_SIZE = 2
    PAGE_LARGE_SIZE = 4
    ADDRESSES = 80
    USER_END = 20
    KernelPages <- MCKernelPages
    StackBase = 12
    StackPages = 2
    ContextBase = 16
    Memory = 7
    LargeMemory = 3
    Junk = Junk
    Maps <- MCMaps
    KERNEL_START = 2
    KERNEL_END = 8
    SMALL = 2
    LARGE = 4
    GIB = 16
    PDT_PER_PDPT = 2
    MMAP_MAX_ENTRIES = 4
SPECIFICATION MemorySpec
INVARIANTS
    ChunksExact ChunksBacked PagesAccounted ListIntact PanicJustified
    ProgramsLoaded HeaderErrorsHarmless
CHECK_DEADLOCK FALSE
