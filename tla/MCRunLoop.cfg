SPECIFICATION Spec
CONSTANTS
  Setups <- MCSetups
  Tests <- MCTests
  Retries = 2
  MaxSent = 2
  MaxCalls = 2
  MaxFaults = 2
INVARIANTS
  TypeOK
  ReturnsHaltedAndFlushed
PROPERTIES
  VerdictIsTheTests
  CallsAreAnswered
  RunComesToAnEnd
