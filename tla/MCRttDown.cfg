SPECIFICATION DownFairSpec
CONSTANTS
  Size = 4
  TypeLens <- MCTypeLens
  MaxTyped = 8
  MaxFaults = 1
INVARIANTS
  NoGap
PROPERTIES
  UnreadBytesUntouched
  InputFifoSpec
  InputArrives
CHECK_DEADLOCK FALSE
