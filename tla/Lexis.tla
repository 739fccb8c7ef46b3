------------------------------- MODULE Lexis -------------------------------
(* What the lexical tables and the lexer promise together.                   *)
EXTENDS LexicalAnalyzer

(* The meaning of texts and expressions (RegexLanguage). *)
CONSTANTS
  Readings(_),      \* the expressions that a text may stand for
  Matches(_, _),    \* whether an expression matches a word,
  CanStart(_, _),   \* and whether it matches one that starts with the word
  Words             \* the words that the automata are tried with

(* What the automata of the tokens owe to the loop that merges them: their    *)
(* jumps lead to their nodes, none reads the null character, and of a lexicon *)
(* that texts are read with no token is empty and some token has a word.     *)
AutomataSound ==
  phase = "merge" =>
    /\ \A t \in DOMAIN automata :
         /\ 0 \in DOMAIN automata[t]
         /\ NoNode \notin DOMAIN automata[t]
         /\ \A n \in DOMAIN automata[t] :
              /\ automata[t][n].jumps[Eof] = NoNode
              /\ \A c \in Symbols : automata[t][n].jumps[c] \in (DOMAIN automata[t]) \cup {NoNode}
    /\ FirstSources(lexicon) # {} =>
         /\ \A t \in DOMAIN automata : ~automata[t][0].is_final
         /\ \E t \in DOMAIN automata : \E c \in Symbols : automata[t][0].jumps[c] # NoNode

(* Types; and every state that a row of a table, or the scan, refers to is a *)
(* row of that table.                                                        *)
TypeOK ==
  /\ lexicon \in Lexicons
  /\ phase \in {"regexes", "expressions", "deterministic", "minimal", "merge", "compacted", "saved",
                "undefined", "invalid", "overlap", "unrecognizable"}
  /\ AutomataSound
  /\ phase = "merge" => Len(jumps) = Len(newStates)
  /\ \A k \in DOMAIN jumps : \A c \in Symbols :
       jumps[k][c].kind = "next" => jumps[k][c].state \in 0..(Len(jumps) - 1)
  /\ \A i \in DOMAIN waiting : waiting[i] \in 0..(Len(jumps) - 1)
  /\ \A k \in DOMAIN table : \A c \in Symbols :
       table[k][c].kind = "next" => table[k][c].state \in 0..(Len(table) - 1)
  /\ source \in Seq(Bytes)
  /\ current.type \in (DOMAIN lexicon) \cup {ERROR, END, NoToken.type}
  /\ pc \in {"unread", "idle", "loaded", "returned", "get", "scan"}
  /\ pc = "scan" => scanState + 1 \in DOMAIN table

-----------------------------------------------------------------------------
(* The generator.                                                            *)

(* A text is parsed exactly when the grammar of regular expressions has a    *)
(* reading of it, and to that reading (RegexParser).                         *)
TextsParsed ==
  phase \in {"expressions", "undefined", "invalid"} =>
    \A t \in DOMAIN regexes :
      IF regexes[t] \notin {Invalid, Undefined} THEN regexes[t] \in Readings(Replaced(lexicon[t].text))
      ELSE Readings(Replaced(lexicon[t].text)) = {}

NodeAfter(d, node, word) ==
  LET after[i \in 0..Len(word)] ==
        IF i = 0 THEN node
        ELSE LET from == after[i - 1]
             IN  IF from = NoNode THEN NoNode ELSE d[from].jumps[word[i]]
  IN  after[Len(word)]

Accepts(d, node, word) ==
  LET last == NodeAfter(d, node, word) IN last # NoNode /\ d[last].is_final

(* The automaton of a token accepts what its expression means (the visitor,  *)
(* NonDeterministicToDeterministic.cpp and DeterministicToMinimal.cpp); and  *)
(* still does after remove_dead_ends in the lexicons that texts are read     *)
(* with.                                                                     *)
AutomataExact ==
  phase = "minimal" \/ (phase = "merge" /\ FirstSources(lexicon) # {}) =>
    \A t \in DOMAIN automata : \A word \in Words :
      Accepts(automata[t], 0, word) <=> Matches(regexes[t], word)

(* No two nodes of it accept the same words (get_minimal).                   *)
AutomataSmallest ==
  phase = "minimal" =>
    \A t \in DOMAIN automata : \A m, n \in DOMAIN automata[t] :
      m # n => \E word \in Words :
                 Accepts(automata[t], m, word) # Accepts(automata[t], n, word)

(* Removing dead ends never adds a word, and leaves no node from which no    *)
(* word is accepted.                                                         *)
NothingInvented ==
  phase = "merge" =>
    \A t \in DOMAIN automata :
      /\ \A word \in Words : Accepts(automata[t], 0, word) => Matches(regexes[t], word)
      /\ \A n \in DOMAIN automata[t] : \E word \in Words : Accepts(automata[t], n, word)

(* Removing dead ends loses no word either.                                  *)
KeepsLanguage ==
  phase = "merge" =>
    \A t \in DOMAIN automata : \A word \in Words :
      Matches(regexes[t], word) => Accepts(automata[t], 0, word)

(* Tokens that match the same text are refused exactly when one that is not  *)
(* weak would be overridden (LexicalAutomatonGenerator.cpp:84-98).           *)
OverlapsRejected ==
  LET overlapping == \E t, u \in DOMAIN lexicon : \E word \in Words :
                       /\ t < u /\ ~lexicon[t].weak
                       /\ Matches(regexes[t], word) /\ Matches(regexes[u], word)
  IN  pc = "unread" => /\ phase = "overlap" => overlapping
                       /\ phase = "saved" => ~overlapping

-----------------------------------------------------------------------------
(* The lexer.                                                                *)

OnlyCharacters == ToSet(source) \subseteq Symbols

(* The null character ends every token: no state is refused for having no    *)
(* end, and nothing is read or skipped behind the end of a text.             *)
StaysInside ==
  /\ phase # "unrecognizable"
  /\ OnlyCharacters => location <= Len(source) /\ scanned <= Len(source)

(* The lexer cuts the text as MaximalMunch says: the automaton built for all *)
(* tokens at once, compacted, saved and read back, and the loops over it.    *)
Munching == INSTANCE MaximalMunch
MunchSpec == Munching!Spec

(* Every token takes something, so the end is reached.                       *)
ReachesEnd ==
  (pc = "get" /\ OnlyCharacters) ~> (pc = "returned" /\ current.type = END)

(* An error takes the one symbol at which the token would have begun.        *)
OneSymbolPerError ==
  [][current'.type = ERROR => current'.begin = location /\ location' = location + 1]_current
=============================================================================
