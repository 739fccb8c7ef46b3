-------------------------- MODULE LexicalAnalyzer --------------------------
(* LexicalAnalyzer reads the table that the generator saved and cuts source  *)
(* files into tokens.  A turn of the loop of get_token_internal is an action;*)
(* next_token repeats it over tokens that the parser does not see.           *)
EXTENDS LexicalAutomatonGenerator

CONSTANTS
  Bytes,                       \* what a text is made of, more than Characters
  FirstSources(_),             \* the texts that may be loaded first, by the lexicon,
  NextSources,                 \* and later
  SkippedTokens,               \* the positions of WHITESPACE and COMMENT among the tokens
  MaxOverrun                   \* bound: how far behind the end of a text is read

ASSUME BytesAssumption == Symbols \subseteq Bytes
ASSUME SourcesAssumption ==
  NextSources \subseteq Seq(Bytes) /\ \A l \in Lexicons : FirstSources(l) \subseteq Seq(Bytes)
ASSUME OverrunAssumption == MaxOverrun \in Nat \ {0}

VARIABLES
  table,        \* jumps_
  source,       \* source_view_
  location,     \* location_
  current,      \* current_token_
  pc,           \* where next_token is
  scanState,    \* current_state of get_token_internal
  scanned       \* its cur_loc

analyzerVars == <<table, source, location, current, pc, scanState, scanned>>
vars == <<generatorVars, analyzerVars>>

(* The type of a token is its position in the lexicon, or one of these. *)
ERROR == -1
END == -2
Token(type, begin, end) == [type |-> type, begin |-> begin, end |-> end]
NoToken == Token(-3, 0, 0)

AnalyzerInit ==
  /\ table = <<>>
  /\ source = <<>>
  /\ location = 0
  /\ current = NoToken
  /\ pc = "unread"
  /\ scanState = 0
  /\ scanned = 0

Init == GeneratorInit /\ AnalyzerInit

-----------------------------------------------------------------------------

Construct ==
  /\ pc = "unread"
  /\ phase = "saved"
  /\ table' = Deserialized(file)
  /\ pc' = "idle"
  /\ UNCHANGED <<generatorVars, source, location, current, scanState, scanned>>

(* The driver loads the next file when the parser has accepted the last.  The *)
(* current token stays.                                                      *)
SetSourceView ==
  /\ \/ pc = "idle" /\ source' \in FirstSources(lexicon)
     \/ pc = "returned" /\ current.type = END /\ source' \in NextSources
  /\ location' = 0
  /\ pc' = "loaded"
  /\ UNCHANGED <<generatorVars, table, current, scanState, scanned>>

(* next_token is called; the parser does not ask for a token after END. *)
Call ==
  /\ \/ pc = "loaded"
     \/ pc = "returned" /\ current.type # END
  /\ pc' = "get"
  /\ UNCHANGED <<generatorVars, table, source, location, current, scanState, scanned>>

(* What next_token does with the token: an error takes one symbol, and       *)
(* tokens that are skipped are followed by the next.                         *)
Take(token) ==
  LET end == IF token.type = ERROR THEN token.begin + 1 ELSE token.end
  IN  /\ current' = [token EXCEPT !.end = end]
      /\ location' = end
      /\ pc' = IF token.type \in SkippedTokens THEN "get" ELSE "returned"
      /\ scanState' = 0
      /\ scanned' = 0
      /\ UNCHANGED <<generatorVars, table, source>>

AtEnd ==
  /\ pc = "get"
  /\ location = Len(source)
  /\ Take(Token(END, location, location))

Start ==
  /\ pc = "get"
  /\ location # Len(source)
  /\ location < Len(source) + MaxOverrun
  /\ pc' = "scan"
  /\ scanState' = 0
  /\ scanned' = location
  /\ UNCHANGED <<generatorVars, table, source, location, current>>

(* The bytes that may be read: behind the end of the text, any. *)
BytesAt(at) ==
  CASE at < Len(source) -> {source[at + 1]}
    [] at = Len(source) -> {Eof}
    [] OTHER -> Bytes

JumpOn(symbol) == table[scanState + 1][symbol]

Jump ==
  /\ pc = "scan"
  /\ scanned < Len(source) + MaxOverrun
  /\ \E symbol \in BytesAt(scanned) \cap Symbols :
       /\ JumpOn(symbol).kind = "next"
       /\ scanState' = JumpOn(symbol).state
  /\ scanned' = scanned + 1
  /\ UNCHANGED <<generatorVars, table, source, location, current, pc>>

FinishToken ==
  /\ pc = "scan"
  /\ \E symbol \in BytesAt(scanned) \cap Symbols :
       LET jump == JumpOn(symbol)
       IN  /\ jump.kind = "finish"
           /\ Take(Token(jump.token, location, scanned + 1 - jump.shift))

RejectSymbol ==
  /\ pc = "scan"
  /\ \E symbol \in BytesAt(scanned) \cap Symbols :
       /\ JumpOn(symbol).kind = "reject"
       /\ Take(Token(ERROR, location, scanned + 1))

(* A symbol outside the character set: the token starts behind it. *)
WideSymbol ==
  /\ pc = "scan"
  /\ ~(BytesAt(scanned) \subseteq Symbols)
  /\ Take(Token(ERROR, scanned + 1, scanned + 1))

(* The calls of the parser and the turns of the lexer. *)
Lexing == Call \/ AtEnd \/ Start \/ Jump \/ FinishToken \/ RejectSymbol \/ WideSymbol

Next ==
  \/ GeneratorNext /\ UNCHANGED analyzerVars
  \/ Construct
  \/ SetSourceView
  \/ Lexing

(* One thread, which does not stop within next_token, and a parser that asks *)
(* for tokens until END.                                                     *)
Spec == Init /\ [][Next]_vars /\ WF_vars(Lexing)
=============================================================================
