SPECIFICATION Spec
CONSTANTS
  Grammars = {"blocks", "expressions", "lookaheads"}
  Tokens <- MCTokens
  Rules <- MCRules
  Tables <- MCTables
  Inputs <- MCInputs
  Sentences <- MCSentences
  StartSymbol <- MCStarts
  OpenBrace = "{"
  CloseBrace = "}"
  Semicolon = ";"
  End = "END"
INVARIANTS
  TypeOK
  SentencesAccepted
  NodesCoverInput
  TreeFollowsBlocks
  NeverBroken
  RecoveryPointsOnStack
  FunctionsIndependent
PROPERTIES
  BalancedEnds
