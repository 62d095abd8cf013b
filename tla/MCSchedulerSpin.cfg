CONSTANTS
  p1 = p1
  p2 = p2
  p3 = p3
  p4 = p4
  PCBs = {p1}
  InitPcb = p1
  NULL = NULL
  KERNEL_TABLE = KERNEL_TABLE
  NumQNodes = 2
  QUANTUM = 2
  SleepTimes = {0}
  PriorityArgs = {3}
  Program <- SpinProgram
  ForkLimit = 1
  MaxSleepers = 1
  TickStages = {"user"}
SPECIFICATION FairSpec
PROPERTIES InitInterrupted
CHECK_DEADLOCK FALSE
