SPECIFICATION Spec
CONSTANTS
  Size <- MCSize
  PageSize = 2
  Plans <- MCChipPlans
  Faults = {}
INVARIANTS
  UnwrittenIsKept
CHECK_DEADLOCK FALSE
