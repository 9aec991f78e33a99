SPECIFICATION FairSpec
CONSTANTS
  Size = 3
  BufLens <- MCBufLens
  MsgLens <- MCMsgLens
  MaxSent = 4
  MaxFaults = 1
  MaxResets = 1
INVARIANTS
  CopiedInOrder
  NoLossNoOverwrite
  OffsetsStayValid
PROPERTIES
  FifoSpec
  EverythingArrives
CHECK_DEADLOCK FALSE
