CONSTANTS
  p1 = p1
  p2 = p2
  p3 = p3
  p4 = p4
  PCBs = {p1, p2, p3, p4}
  InitPcb = p1
  NULL = NULL
  KERNEL_TABLE = KERNEL_TABLE
  NumQNodes = 5
  QUANTUM = 1
  SleepTimes = {2, 4, 6}
  PriorityArgs = {}
  Program <- SleepProgram
  ForkLimit = 4
  MaxSleepers = 4
  TickStages = {"user", "dispatch", "enqueue_prio", "get_next_sleep", "resume"}
SPECIFICATION Spec
INVARIANTS NoLostProcess
CHECK_DEADLOCK FALSE
