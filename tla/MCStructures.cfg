CONSTANTS
    Nodes = {n1, n2, n3, n4}
    Data = {a, b}
    NULL = NULL
    NumNodes = 4
    ReadyQueues = {"ready"}
    SleepQueue = "sleep"
    Items = {1, 2}
    MaxSorted = 2
SPECIFICATION StructuresSpec
INVARIANTS NodesInOnePlace Linked
PROPERTIES ListsAreQueues IsSequence
CHECK_DEADLOCK FALSE
