CONSTANTS
  p1 = p1
  p2 = p2
  p3 = p3
  p4 = p4
  PCBs = {p1, p2, p3}
  InitPcb = p1
  NULL = NULL
  KERNEL_TABLE = KERNEL_TABLE
  NumQNodes = 4
  QUANTUM = 2
  SleepTimes = {0, 1, 3}
  PriorityArgs = {0, 3, 4}
  Program <- AnyProgram
  ForkLimit = 4
  MaxSleepers = 2
  TickStages = {"user", "dispatch", "enqueue_prio", "get_next_sleep", "resume"}
SPECIFICATION Spec
INVARIANTS TypeOK Placement NoLostProcess AddressSpaceMatches TimerCoversWork AssertionsHold NodesAccounted
PROPERTIES DeadlinesKept Lifecycle
CHECK_DEADLOCK FALSE
