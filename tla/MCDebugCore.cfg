\* Cores of all five architectures; the breakpoint units may all be in use.
SPECIFICATION Spec
CONSTANTS
  NumUnits = 2
  MaxFaults = 1
  Careful = TRUE
  Arches = {"cm", "v7a", "v8a", "rv", "xt"}
  ReadRegs <- MCReadRegs
  WriteRegs <- MCWriteRegs
  Addresses <- MCAddresses
  LanesUsed = {1}
VIEW Essence
INVARIANTS HaltedIsHalted
PROPERTIES Contract AnswersAreTrue WritesLand StepsAndRunsGoOn BreakpointsAreThoseSet LeftRunning
CHECK_DEADLOCK FALSE
