CONSTANTS
  Chunks = {c1, c2}
  NumPages = 2
  NULL = NULL
SPECIFICATION Spec
INVARIANTS BadFreeIsBad
CHECK_DEADLOCK FALSE
