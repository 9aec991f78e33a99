SPECIFICATION Spec
CONSTANTS
  d1 = d1
  d2 = d2
  DPs <- MCDPs
  NoDp = NoDp
  First = d1
  NumAps <- MCNumAps
  IdBank = 15
  DpBanks <- MCDpBanks
  MaxFaults = 0
INVARIANTS
  EverySwitchIsHonoured
CHECK_DEADLOCK FALSE
