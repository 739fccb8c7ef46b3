SPECIFICATION Spec
CONSTANTS
  Characters <- MCCharacters
  Bytes <- MCBytes
  Lexicons <- LossyLexicons
  Helpers <- MCHelpers
  FirstSources <- MCFirstSources
  NextSources <- MCNextSources
  SkippedTokens <- MCSkippedTokens
  MaxOverrun = 1
  Words <- MCWords
  RegexOf <- Parse
  NonDeterministicOf <- NonDeterministic
  DeterministicOf <- Deterministic
  GetMinimal <- Minimal
  RemovedDeadEnds <- WithoutDeadEnds
  Readings <- ReadingsOf
  Matches <- MatchesWord
  CanStart <- CanStartWith
CHECK_DEADLOCK FALSE
INVARIANTS
  KeepsLanguage
