SPECIFICATION Spec
CHECK_DEADLOCK FALSE
CONSTANTS
  Functions <- MCFunctions
  Inputs <- MCInputs
  MaxRegisters = 16
  MaxPasses = 4
  Fuel = 30
INVARIANTS
  SsaKept
  NothingStale
PROPERTIES
  MeaningKept
