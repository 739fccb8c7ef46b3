SPECIFICATION Spec
CHECK_DEADLOCK FALSE
CONSTANTS
  Programs <- MCPrograms
  Inputs <- MCInputs
  Fuel = 8
  Width = 3
INVARIANTS
  MeaningKept
  BlocksEnd
  AssertionsHold
