CONSTANTS
  BUFFER_SIZE = 4
  Keys = {"a", "b", "dead"}
  scan_code_table <- SmallTable
  NUL = NUL
  Readers = {r1, r2}
  MaxAhead = 3
SPECIFICATION Spec
PROPERTIES ReadKeyBlocks
