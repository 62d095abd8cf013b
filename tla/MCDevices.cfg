CONSTANTS
    Verbs = {"v1", "v2"}
    Answer <- MCAnswer
    NONE = "NONE"
    Entries <- MCEntries
    Outputs <- MCOutputs
    MaxOut = 3
    MaxIn = 2
    NumSlots = 3
    NumFunctions = 2
    NumBars = 2
    VALUES = 64
    PciMachines <- MCPciMachines
    CONFIG_SIZE = 2
    NODE_SIZE = 1
    PciRoom <- MCPciRoom
    HdaSize = 16
    FirstPass <- MCFirstPass
    SecondPass <- MCSecondPass
SPECIFICATION DevicesSpec
INVARIANTS DevicesListed RingsIntact PathsRight RouteOpen
PROPERTIES IsRemoteCall ProgrammedStopped LoopsEnd
CHECK_DEADLOCK FALSE
