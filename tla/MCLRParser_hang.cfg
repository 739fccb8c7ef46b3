SPECIFICATION Spec
CONSTANTS
  Grammars = {"blocks"}
  Tokens <- MCTokens
  Rules <- MCRules
  Tables <- MCTables
  Inputs <- MCInputs
  Sentences <- MCSentences
  StartSymbol <- MCStarts
  OpenBrace = "{"
  CloseBrace = "}"
  Semicolon = ";"
  End = "END"
PROPERTIES
  ParserEnds
