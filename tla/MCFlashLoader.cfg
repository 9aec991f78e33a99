SPECIFICATION Spec
CONSTANTS
  Targets <- MCTargets
  MaxFaults = 1
INVARIANTS
  OkMeansDone
PROPERTIES
  FlashedContentsStay
  OnlyAskedForIsChanged
CHECK_DEADLOCK FALSE
