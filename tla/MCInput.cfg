CONSTANTS
    BUFFER_SIZE = 4
    Keys = {"a", "b", "dead"}
    scan_code_table <- SmallTable
    NUL = NUL
    Readers = {r1}
    MaxAhead = 3
    BOARD_X = 4
    BOARD_Y = 4
    Pieces <- MCPieces
    P_E = "P_E"
    WHITE = "WHITE"
    TICKS_PER_DROP = 2
    MIN_TICKS = 1
    SPEED_UP_LINES = 2
    NUM_FLASHES = 2
    TICKS_PER_FLASH = 1
    MaxLines = 3
    KeySets <- MCKeySets
SPECIFICATION InputSpec
INVARIANT BoardConsistent
PROPERTIES KeysInOrder ReadKeyBlocks ReaderServed BoardChanges GameGoesOn
CHECK_DEADLOCK FALSE
