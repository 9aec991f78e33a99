SPECIFICATION LiveSpec
CONSTANTS
  Size <- MCSize
  PageSize = 2
  Plans <- MCPlans
  Faults <- AllFaults
INVARIANTS
  BufferHoldsPage
  OkMeansWritten
  ResultIsHonest
PROPERTIES
  FlashChangesAsPlanned
  Finishes
CHECK_DEADLOCK FALSE
