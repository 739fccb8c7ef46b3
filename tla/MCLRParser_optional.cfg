SPECIFICATION Spec
CONSTANTS
  Grammars = {"optional"}
  Tokens <- MCTokens
  Rules <- MCRules
  Tables <- MCTables
  Inputs <- MCInputs
  Sentences <- MCSentences
  StartSymbol <- MCStarts
  OpenBrace = "{"
  CloseBrace = "}"
  Semicolon = ";"
  End = "END"
INVARIANTS
  SentencesAccepted
