------------------------------- MODULE Regex -------------------------------
(* The regular expressions of the lexical table generator: the nodes of      *)
(* RegexNodes.h and RegexParser.  A text is a sequence of characters.  Reads *)
(* past the end of a text, which the scans for brackets can make, give the   *)
(* answer Undefined; exceptions give Invalid.                                *)
EXTENDS LexicalTable, FiniteSets

(* A node, or the reason why there is none, is a tuple that starts with its  *)
(* kind.                                                                     *)
SymbolNode(match) == <<"symbol", match>>
ConcatenationNode(left, right) == <<"concatenation", left, right>>
OrNode(left, right) == <<"or", left, right>>
StarNode(child) == <<"star", child>>
PlusNode(child) == <<"plus", child>>

IsNode(result) == result \notin {Invalid, Undefined}

(* The first of two parts that has no node decides. *)
Joined(first, second, node) ==
  IF ~IsNode(first) THEN first ELSE IF ~IsNode(second) THEN second ELSE node

Operators == {"+", "*", "|", "[", "]", "(", ")", "-", "^"}
Escape == "\\"

From(text, i) == SubSeq(text, i, Len(text))

-----------------------------------------------------------------------------
(* The scans.  They give the index of what they look for, End(text) when it  *)
(* is not there, and Lost when they ran past the end.                        *)

End(text) == Len(text) + 1
Lost == 0

(* get_closing_bracket, for a text that starts with a bracket. *)
ClosingBracket(text) ==
  LET scan[i \in Nat] ==
        IF i > End(text) THEN Lost
        ELSE IF i = End(text) \/ text[i] = "]" THEN i
        ELSE IF text[i] = Escape THEN scan[i + 2]
        ELSE scan[i + 1]
  IN  scan[1]

(* get_matching_paren, for a text that starts with a parenthesis.  After a   *)
(* class that does not end, the scan goes on behind the end.                 *)
MatchingParen(text) ==
  LET scan[i \in Nat, balance \in Nat] ==
        IF i > End(text) THEN Lost
        ELSE IF i = End(text) THEN i
        ELSE CASE text[i] = Escape -> scan[i + 2, balance]
               [] text[i] = "(" -> scan[i + 1, balance + 1]
               [] text[i] = ")" -> IF balance = 1 THEN i ELSE scan[i + 1, balance - 1]
               [] text[i] = "[" ->
                    LET closing == ClosingBracket(From(text, i))
                    IN  IF closing = Lost THEN Lost ELSE scan[i + closing, balance]
               [] OTHER -> scan[i + 1, balance]
  IN  scan[1, 0]

Unmatched == -1

(* Mutant: a "|" in parentheses counts too. *)
AnyOr(text) ==
  LET scan[i \in Nat] ==
        IF i > End(text) THEN Lost
        ELSE IF i = End(text) \/ text[i] = "|" THEN i
        ELSE IF text[i] = Escape THEN scan[i + 2]
        ELSE IF text[i] = "(" /\ MatchingParen(From(text, i)) = End(From(text, i)) THEN Unmatched
        ELSE scan[i + 1]
  IN  scan[1]

(* The first "|" outside parentheses; Unmatched when a parenthesis before it *)
(* does not close.                                                           *)
TopLevelOr(text) ==
  LET scan[i \in Nat] ==
        IF i > End(text) THEN Lost
        ELSE IF i = End(text) \/ text[i] = "|" THEN i
        ELSE IF text[i] = Escape THEN scan[i + 2]
        ELSE IF text[i] = "("
        THEN LET paren == MatchingParen(From(text, i))
             IN  IF paren = Lost THEN Lost
                 ELSE IF paren = End(From(text, i)) THEN Unmatched
                 ELSE scan[i + paren]
        ELSE scan[i + 1]
  IN  scan[1]

-----------------------------------------------------------------------------
(* read_symbol gives how many characters it took, or 0 for an exception.     *)
SymbolLength(text) ==
  CASE text = <<>> \/ text[1] \in Operators -> 0
    [] text[1] # Escape -> 1
    [] Len(text) = 1 -> 0
    [] OTHER -> 2
SymbolRead(text) == text[SymbolLength(text)]

(* The ranges of a character class, each its two ends; Broken stands for an  *)
(* exception.                                                                *)
Broken == <<>>
RECURSIVE Ranges(_)
Ranges(text) ==
  LET begin == SymbolLength(text)
      rest == From(text, begin + 1)
      last == From(rest, 2)
      end == SymbolLength(last)
  IN  CASE text = <<>> -> <<>>
        [] text # <<>> /\ begin = 0 -> <<Broken>>
        [] begin > 0 /\ (rest = <<>> \/ rest[1] # "-") ->
             <<<<SymbolRead(text), SymbolRead(text)>>>> \o Ranges(rest)
        [] OTHER ->
             IF end = 0 THEN <<Broken>>
             ELSE <<<<SymbolRead(text), SymbolRead(last)>>>> \o Ranges(From(last, end + 1))

(* parse_character_class: every range flips its characters. *)
CharacterClass(text) ==
  LET negated == text # <<>> /\ text[1] = "^"
      ranges == Ranges(IF negated THEN Tail(text) ELSE text)
      Flips(c) ==
        {i \in DOMAIN ranges : Code(c) \in Code(ranges[i][1])..Code(ranges[i][2])}
  IN  IF text = <<>> \/ Broken \in ToSet(ranges) THEN Invalid
      ELSE SymbolNode({c \in Symbols :
                         (Cardinality(Flips(c)) % 2 = 1) # negated})

(* The operators behind a parenthesis. *)
RECURSIVE Repeated(_, _)
Repeated(node, text) ==
  IF text = <<>> THEN node
  ELSE CASE text[1] = "*" -> Repeated(StarNode(node), Tail(text))
         [] text[1] = "+" -> Repeated(PlusNode(node), Tail(text))
         [] OTHER -> node

RepetitionEnd(text, i) ==
  CHOOSE j \in i..End(text) :
    /\ \A k \in i..(j - 1) : text[k] \in {"*", "+"}
    /\ j = End(text) \/ text[j] \notin {"*", "+"}

RECURSIVE Parse(_)

(* What follows the first part of a concatenation. *)
WithRest(left, text, next) ==
  IF ~IsNode(left) \/ next = End(text) THEN left
  ELSE LET right == Parse(From(text, next))
       IN  Joined(left, right, ConcatenationNode(left, right))

(* The first part is a parenthesis, a class or a symbol. *)
ParseConcatenation(text) ==
  CASE text = <<>> -> Invalid
    [] text # <<>> /\ text[1] = "(" ->
         LET paren == MatchingParen(text)
             next == RepetitionEnd(text, paren + 1)
             child == Parse(SubSeq(text, 2, paren - 1))
         IN  IF paren = 2 THEN Invalid
             ELSE WithRest(IF IsNode(child) THEN Repeated(child, From(text, paren + 1))
                           ELSE child, text, next)
    [] text # <<>> /\ text[1] = "[" ->
         LET closing == ClosingBracket(text)
             class == CharacterClass(SubSeq(text, 2, closing - 1))
         IN  IF closing = Lost THEN Undefined
             ELSE IF closing = End(text) /\ IsNode(class) THEN Undefined
             ELSE WithRest(class, text, closing + 1)
    [] OTHER ->
         IF SymbolLength(text) = 0 THEN Invalid
         ELSE WithRest(SymbolNode({SymbolRead(text)}), text, SymbolLength(text) + 1)

(* parse_recursively. *)
Parse(text) ==
  LET or == TopLevelOr(text)
      right == Parse(From(text, or + 1))
      left == Parse(SubSeq(text, 1, or - 1))
  IN  CASE or = Lost -> Undefined
        [] or = Unmatched -> Invalid
        [] or = End(text) -> ParseConcatenation(text)
        [] OTHER -> Joined(right, left, OrNode(left, right))
=============================================================================
