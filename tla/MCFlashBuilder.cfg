SPECIFICATION BuilderSpec
CONSTANTS
  Flashes <- MCFlashes
  MaxAddr = 8
  MaxLen = 5
  MaxAdds = 3
INVARIANTS
  StagedExactly
  DataIsProgrammed
  ErasedIsRestored
  NothingElseErased
CHECK_DEADLOCK FALSE
