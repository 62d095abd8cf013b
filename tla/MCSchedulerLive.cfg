CONSTANTS
  p1 = p1
  p2 = p2
  p3 = p3
  p4 = p4
  PCBs = {p1, p2, p3}
  InitPcb = p1
  NULL = NULL
  KERNEL_TABLE = KERNEL_TABLE
  NumQNodes = 4
  QUANTUM = 2
  SleepTimes = {0, 1, 3}
  PriorityArgs = {0, 3}
  Program <- IdleInitProgram
  ForkLimit = 3
  MaxSleepers = 2
  TickStages = {"user"}
SPECIFICATION PollingSpec
INVARIANTS NoPanic
PROPERTIES SleepersWake HighReadyRuns
