----------------------------- MODULE MCLRParser -----------------------------
(* Small grammars for TLC, with the tables LRTableBuilder makes for them.    *)
EXTENDS LRParser, SequencesExt

AllTokens ==
  {"f", "{", "}", ";", "n", "+", "*", "(", ")", "a", "b", "c", "d", "e", End}

Generator == INSTANCE LRTableBuilder WITH Tokens <- AllTokens

Rule(from, to) == [from |-> from, to |-> to]

(* The shape of grammar.txt: a program of declarations with blocks, which    *)
(* hold blocks and statements that end with a semicolon.                     *)
Blocks ==
  [start |-> "program",
   rules |-> <<Rule("program", <<>>), Rule("program", <<"decls">>),
               Rule("decls", <<"decl">>), Rule("decls", <<"decls", "decl">>),
               Rule("decl", <<"f", "block">>),
               Rule("block", <<"{", "}">>), Rule("block", <<"{", "stmts", "}">>),
               Rule("stmts", <<"stmt">>), Rule("stmts", <<"stmts", "stmt">>),
               Rule("stmt", <<"block">>), Rule("stmt", <<"f", ";">>)>>]

(* Expressions with two levels of binding, as in grammar.txt. *)
Expressions ==
  [start |-> "sum",
   rules |-> <<Rule("sum", <<"term">>), Rule("sum", <<"sum", "+", "term">>),
               Rule("term", <<"atom">>), Rule("term", <<"term", "*", "atom">>),
               Rule("atom", <<"n">>), Rule("atom", <<"(", "sum", ")">>)>>]

(* Merging the states of this one that only differ in what follows would     *)
(* make a conflict.                                                          *)
Lookaheads ==
  [start |-> "S",
   rules |-> <<Rule("S", <<"a", "A", "d">>), Rule("S", <<"b", "B", "d">>),
               Rule("S", <<"a", "B", "e">>), Rule("S", <<"b", "A", "e">>),
               Rule("A", <<"c">>), Rule("B", <<"c">>)>>]

(* A symbol that may be empty, after another symbol. *)
Optional ==
  [start |-> "S",
   rules |-> <<Rule("S", <<"A", "B", "b">>), Rule("A", <<"a">>),
               Rule("B", <<>>), Rule("B", <<"d">>)>>]

GrammarOf ==
  [blocks |-> Blocks, expressions |-> Expressions, lookaheads |-> Lookaheads,
   optional |-> Optional]

AllTables ==
  [blocks |-> Generator!Build(Blocks), expressions |-> Generator!Build(Expressions),
   lookaheads |-> Generator!Build(Lookaheads), optional |-> Generator!Build(Optional)]

AllStarts == [g \in DOMAIN GrammarOf |-> GrammarOf[g].start]

-----------------------------------------------------------------------------
(* The files: every short sequence of tokens, and two functions with short   *)
(* bodies.                                                                   *)

TokensOf(g) ==
  UNION {Range(r.to) : r \in Range(g.rules)} \ Generator!NonTerminals(g)
UpTo(tokens, n) == UNION {[1..k -> tokens] : k \in 0..n}
TokensUpTo(g, n) == UpTo(TokensOf(GrammarOf[g]), n)

InFunction(body) == <<"f", "{">> \o body \o <<"}">>
Bodies(n) == UpTo({"f", ";", "{", "}"}, n)
OneFunction == {InFunction(u) : u \in Bodies(3)}
TwoFunctions == {InFunction(u) \o InFunction(v) : u \in Bodies(3), v \in Bodies(2)}

AllInputs ==
  [g \in DOMAIN GrammarOf |->
     CASE g = "blocks" -> TokensUpTo(g, 5) \cup OneFunction \cup TwoFunctions
       [] g = "expressions" -> TokensUpTo(g, 5)
       [] OTHER -> TokensUpTo(g, 4)]
Longest == [g \in DOMAIN GrammarOf |-> IF g = "blocks" THEN 11 ELSE 5]

(* What a grammar derives up to a length, computed from its rules alone. *)
Derived(g, length) ==
  LET N == Generator!NonTerminals(g)
      Strings(L, symbol) == IF symbol \in N THEN L[symbol] ELSE {<<symbol>>}
      Join(S, T) ==
        UNION {{u \o v : u \in {w \in S : Len(w) + Len(v) <= length}} : v \in T}
      OfBody(L, body) ==
        LET Extend(S, symbol) == Join(S, Strings(L, symbol))
        IN  FoldLeft(Extend, {<<>>}, body)
      More(L) ==
        [n \in N |-> L[n] \cup UNION {OfBody(L, r.to) : r \in {q \in Range(g.rules) :
                                                                q.from = n}}]
  IN  Generator!LeastFixpoint(More, [n \in N |-> {}])[g.start]

SentencesOf(g) == AllInputs[g] \cap Derived(GrammarOf[g], Longest[g])
AllSentences ==
  [blocks |-> SentencesOf("blocks"), expressions |-> SentencesOf("expressions"),
   lookaheads |-> SentencesOf("lookaheads"), optional |-> SentencesOf("optional")]

(* The values of the constants. *)
MCTokens == AllTokens
MCTables == AllTables
MCRules == [g \in DOMAIN GrammarOf |-> Range(GrammarOf[g].rules)]
MCInputs == AllInputs
MCSentences == AllSentences
MCStarts == AllStarts

(* RecoveryTests: an error in one function neither hides the errors of the   *)
(* next one nor causes any there.  A function has an error reported in it    *)
(* exactly when it is no sentence by itself.  This is about functions whose  *)
(* bodies have matching braces.                                              *)
WholeFunction(f) == f \in OneFunction /\ BracesPair(SubSeq(f, 3, Len(f) - 1))
FunctionsIndependent ==
  Ended =>
    \A k \in 1..(Len(input) - 1) :
      LET first == SubSeq(input, 1, k)
          second == SubSeq(input, k + 1, Len(input))
          Wrong(f) == f \notin Sentences[grammar]
      IN  WholeFunction(first) /\ WholeFunction(second)
            => /\ Wrong(first) <=> errors \cap 1..k # {}
               /\ Wrong(second) <=> errors \cap (k + 1)..(Len(input) + 1) # {}

ASSUME GeneratedWithoutConflict ==
  \A g \in DOMAIN GrammarOf :
    Generator!Check(GrammarOf[g]) /\ ~AllTables[g].conflicts

(* What the proofs about the tables suppose of a grammar and of its states.  *)
ASSUME GeneratedStates ==
  \A g \in DOMAIN GrammarOf :
    LET augmented == Generator!Augmented(GrammarOf[g])
        first == Generator!First(augmented)
        itemSets == Generator!ItemSets(augmented, first)
    IN  /\ Generator!GrammarOK(GrammarOf[g])
        /\ Generator!Canonical(augmented, first, itemSets,
                                Generator!Gotos(augmented, first, itemSets))
=============================================================================
