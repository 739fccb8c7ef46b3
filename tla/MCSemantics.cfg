SPECIFICATION Spec
CHECK_DEADLOCK FALSE
CONSTANTS
  Modules <- MCModules
  Scenarios <- MCScenarios
INVARIANTS
  NamesVisible
  ResolvesInnermost
  NamesMatch
  MembersFound
