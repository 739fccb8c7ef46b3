------------------------------ MODULE MCLexis ------------------------------
(* Small instances of the lexical tables and the lexer.                      *)
EXTENDS Lexis, FiniteAutomata, RegexLanguage, TLC

SourceCharacters == {"NUL", "\n", " ", "\"", "-", "/", "8", "=", ">", "f", "i"}
MCCharacters ==
  <<"NUL", "\n", " ", "\"", "(", ")", "*", "+", "-", "/", "8", "=", ">", "[", "\\", "]",
    "^", "f", "i", "|">>
Wide == "wide"
MCBytes == ToSet(MCCharacters) \cup {Wide}

MCHelpers ==
  "{digit}" :> <<"[", "8", "]">> @@ "{space}" :> <<"[", " ", "]">>
  @@ "{comment_symbol}" :> <<"[", "^", "\n", "]">>
  @@ "{s_char}" :> <<"[", "^", "\"", "\n", "]">>

Strong(expr) == [text |-> expr, weak |-> FALSE]
Weak(expr) == [text |-> expr, weak |-> TRUE]

Identifier == <<"[", "f", "i", "]", "(", "[", "f", "i", "8", "]", ")", "*">>

(* A part of the lexicon of compile_lexis_table.cpp, in the order of TokenType. *)
TeaLexicon ==
  << Weak(Identifier), Strong(<<"i", "f">>), Strong(<<"i", "8">>), Strong(<<"{digit}", "+">>),
     Strong(<<"\"", "(", "{s_char}", ")", "*", "\"">>),
     Strong(<<"=">>), Strong(<<"\\", "-">>), Strong(<<">">>), Strong(<<">", "=">>),
     Strong(<<"\\", "-", ">">>), Strong(<<"\\", "-", "\\", "-">>),
     Strong(<<"{space}", "+">>), Strong(<<"/", "/", "{comment_symbol}", "*">>) >>
MCSkippedTokens == {12, 13}

(* Two tokens that may match the same text, of either strength. *)
Expressions == {Identifier, <<"i", "f">>, <<"[", "8", "-", "i", "]">>}
Entries == [text : Expressions, weak : BOOLEAN]
RivalLexicons == {<<first, second>> : first \in Entries, second \in Entries}

(* Every text up to a length, and longer ones made of whole parts. *)
TextSymbols == {"i", "|", "*", "(", ")", "[", "]", "-", "^", "\\"}
TextParts ==
  {<<"(", "i", ")">>, <<"(", "i", "f", ")">>, <<"(", "i", "|", "f", "f", ")">>,
   <<"[", "^", "i", "]">>, <<"[", "8", "-", "i", "f", "]">>, <<"f">>,
   <<"*">>, <<"+">>, <<"|">>}
Texts(n) == UNION {[1..k -> TextSymbols] : k \in 1..n}
TextsOfParts(n) == UNION {{FlattenSeq(parts) : parts \in [1..k -> TextParts]} : k \in 1..n}
OneTokenLexicons(n, m) ==
  {<<[text |-> t, weak |-> FALSE]>> : t \in Texts(n) \cup TextsOfParts(m)}

MCLexicons == {TeaLexicon} \cup RivalLexicons \cup OneTokenLexicons(3, 3)

Strings(S, n) == UNION {[1..k -> S] : k \in 0..n}
MCWords ==
  Strings(ToSet(MCCharacters), 2) \cup Strings({"8", "f", "i"}, 3) \cup Strings({"f", "i"}, 6)

MCFirstSources(l) ==
  IF l = TeaLexicon
  THEN Strings(SourceCharacters \cup {Wide}, 2)
         \cup [1..3 -> (SourceCharacters \ {"=", "f"}) \cup {Wide}]
  ELSE IF l \in RivalLexicons THEN [1..3 -> {"8", "f", "i"}] ELSE {}
MCNextSources == {<<>>, <<"i", "8">>}

(* Expressions whose automata have live nodes behind others. *)
LossyLexicons ==
  {<<Strong(<<"(", "i", "f", ")", "*">>)>>, <<Strong(<<"i", "|", "f", "8">>)>>}

TeaLexiconOnly == {TeaLexicon}
=============================================================================
