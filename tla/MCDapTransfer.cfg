SPECIFICATION LiveSpec
CONSTANTS
  Apis <- Both
  MaxLen = 3
  Retries = 3
  MaxOps = 2
  MaxFaults = 1
INVARIANTS
  WritesInOrder
  ReadsInOrder
  OkIsClean
PROPERTIES
  Returns
CHECK_DEADLOCK FALSE
