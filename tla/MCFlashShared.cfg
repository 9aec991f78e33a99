SPECIFICATION Spec
CONSTANTS
  Targets <- MCShared
  MaxFaults = 0
PROPERTIES
  FlashedContentsStay
CHECK_DEADLOCK FALSE
