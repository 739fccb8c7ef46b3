--------------------------- MODULE RegexLanguage ---------------------------
(* What a regular expression means, by derivatives: the reference that the   *)
(* automata are compared with.  The end of file is in no word.               *)
EXTENDS Regex

Nothing == SymbolNode({})
EmptyWord == StarNode(Nothing)

RECURSIVE Nullable(_)
Nullable(node) ==
  CASE node[1] = "symbol" -> FALSE
    [] node[1] = "concatenation" -> Nullable(node[2]) /\ Nullable(node[3])
    [] node[1] = "or" -> Nullable(node[2]) \/ Nullable(node[3])
    [] node[1] = "star" -> TRUE
    [] node[1] = "plus" -> Nullable(node[2])

RECURSIVE HasNoWord(_)
HasNoWord(node) ==
  CASE node[1] = "symbol" -> node[2] \subseteq {Eof}
    [] node[1] = "concatenation" -> HasNoWord(node[2]) \/ HasNoWord(node[3])
    [] node[1] = "or" -> HasNoWord(node[2]) /\ HasNoWord(node[3])
    [] node[1] = "star" -> FALSE
    [] node[1] = "plus" -> HasNoWord(node[2])

(* Keeps derivatives small. *)
Followed(left, right) ==
  IF HasNoWord(left) THEN Nothing
  ELSE IF left = EmptyWord THEN right ELSE ConcatenationNode(left, right)
Choice(left, right) ==
  IF HasNoWord(left) THEN right ELSE IF HasNoWord(right) THEN left ELSE OrNode(left, right)

(* The words that may follow the symbol. *)
RECURSIVE Derivative(_, _)
Derivative(node, c) ==
  CASE node[1] = "symbol" -> IF c \in node[2] \ {Eof} THEN EmptyWord ELSE Nothing
    [] node[1] = "concatenation" ->
         Choice(Followed(Derivative(node[2], c), node[3]),
                IF Nullable(node[2]) THEN Derivative(node[3], c) ELSE Nothing)
    [] node[1] = "or" -> Choice(Derivative(node[2], c), Derivative(node[3], c))
    [] node[1] \in {"star", "plus"} -> Followed(Derivative(node[2], c), StarNode(node[2]))

MatchesWord(node, word) == Nullable(FoldLeft(Derivative, node, word))
CanStartWith(node, word) == ~HasNoWord(FoldLeft(Derivative, node, word))

-----------------------------------------------------------------------------
(* The grammar of the texts: the readings of a text are the nodes it may     *)
(* stand for.                                                                *)

Atoms(text) ==
  IF \/ Len(text) = 1 /\ text[1] \notin Operators \cup {Escape}
     \/ Len(text) = 2 /\ text[1] = Escape
  THEN {Last(text)} ELSE {}

(* The characters of a class: an odd number of its ranges has them.          *)
Ends(head) ==
  {<<c, c>> : c \in Atoms(head)} \cup
  UNION {Atoms(SubSeq(head, 1, k - 1)) \X Atoms(From(head, k + 1)) :
           k \in {k \in DOMAIN head : head[k] = "-"}}
Between(ends) == {c \in Symbols : Code(c) \in Code(ends[1])..Code(ends[2])}
Flipped(a, b) == (a \cup b) \ (a \cap b)

RECURSIVE Classes(_)
Classes(text) ==
  IF text = <<>> THEN {{}}
  ELSE UNION {UNION {{Flipped(Between(ends), class) : class \in Classes(From(text, i + 1))}
                     : ends \in Ends(SubSeq(text, 1, i))}
              : i \in DOMAIN text}

Bracketed(text) ==
  IF Len(text) < 3 \/ text[1] # "[" \/ Last(text) # "]" THEN {}
  ELSE LET body == SubSeq(text, 2, Len(text) - 1)
       IN  IF body[1] = "^"
           THEN {SymbolNode(Symbols \ class) : class \in Classes(Tail(body))}
           ELSE {SymbolNode(class) : class \in Classes(body)}

RECURSIVE ReadingsOf(_)

RECURSIVE Grouped(_)
Grouped(text) ==
  IF Len(text) < 3 \/ text[1] # "(" THEN {}
  ELSE CASE Last(text) = ")" -> ReadingsOf(SubSeq(text, 2, Len(text) - 1))
         [] Last(text) = "*" -> {StarNode(node) : node \in Grouped(Front(text))}
         [] Last(text) = "+" -> {PlusNode(node) : node \in Grouped(Front(text))}
         [] OTHER -> {}

Parts(text) == {SymbolNode({c}) : c \in Atoms(text)} \cup Bracketed(text) \cup Grouped(text)

RECURSIVE Chains(_)
Chains(text) ==
  Parts(text) \cup
  UNION {UNION {{ConcatenationNode(left, right) : right \in Chains(From(text, i + 1))}
                : left \in Parts(SubSeq(text, 1, i))}
         : i \in 1..(Len(text) - 1)}

ReadingsOf(text) ==
  Chains(text) \cup
  UNION {UNION {{OrNode(left, right) : right \in ReadingsOf(From(text, i + 1))}
                : left \in Chains(SubSeq(text, 1, i - 1))}
         : i \in {i \in DOMAIN text : text[i] = "|"}}
=============================================================================
