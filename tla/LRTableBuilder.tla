--------------------------- MODULE LRTableBuilder ---------------------------
(* The generator of the parsing tables (syntax/lr/LRTableBuilder.cpp) and    *)
(* the checks of the grammar it starts from (syntax/grammar/Grammar.cpp).    *)
(* The loops of the code that add to a table until nothing is new are least  *)
(* fixpoints here; a state of the automaton is its set of items, numbered in *)
(* some order (the code numbers them in the order of a hash table).          *)
EXTENDS LRItems, SequencesExt

RECURSIVE Iterated(_, _, _)
Iterated(F(_), x, y) == IF x = y THEN x ELSE Iterated(F, y, F(y))
LeastFixpoint(F(_), x) == Iterated(F, x, F(x))

-----------------------------------------------------------------------------
(* Grammar::check.                                                           *)

Producing(g) ==
  LET More(P) == P \cup {r.from : r \in {q \in Range(g.rules) :
                           Range(q.to) \cap NonTerminals(g) \subseteq P}}
  IN  LeastFixpoint(More, {})

Reachable(g) ==
  LET More(R) == R \cup UNION {Range(r.to) \cap NonTerminals(g) :
                                 r \in {q \in Range(g.rules) : q.from \in R}}
  IN  LeastFixpoint(More, {g.start})

Check(g) == Producing(g) = NonTerminals(g) /\ Reachable(g) = NonTerminals(g)

-----------------------------------------------------------------------------
(* build_first_table.                                                        *)

(* The symbols of a body that can come first: those after symbols that may   *)
(* be empty.                                                                 *)
Leading(body, g, first) ==
  {i \in DOMAIN body :
     \A j \in 1..(i - 1) : body[j] \in NonTerminals(g) /\ End \in first[body[j]]}

FirstOfBody(body, g, first) ==
  IF body = <<>> THEN {End}
  ELSE UNION {IF body[i] \in NonTerminals(g) THEN first[body[i]] ELSE {body[i]} :
                i \in Leading(body, g, first)}

First(g) ==
  LET More(first) ==
        [n \in NonTerminals(g) |->
           first[n] \cup UNION {FirstOfBody(r.to, g, first) :
                                  r \in {q \in Range(g.rules) : q.from = n}}]
  IN  LeastFixpoint(More, [n \in NonTerminals(g) |-> {}])

-----------------------------------------------------------------------------
(* closure and build_states_table.                                           *)

Closure(g, first, items) ==
  LeastFixpoint(LAMBDA S : S \cup UNION {Expanded(g, first, item) : item \in S}, items)

Goto(g, first, state, symbol) == Closure(g, first, Advance(g, state, symbol))

StartState(g, first) == Closure(g, first, StartKernel(g))

StatesOf(g, first) ==
  LeastFixpoint(LAMBDA S : S \cup UNION {{Goto(g, first, state, x) :
                                            x \in NextSymbols(g, state)} : state \in S},
                {StartState(g, first)})

Numbered(first, others) ==
  FoldSet(LAMBDA state, known : Append(known, state), <<first>>, others \ {first})
Number(itemSets, state) == (CHOOSE i \in DOMAIN itemSets : itemSets[i] = state) - 1

ItemSets(g, first) == Numbered(StartState(g, first), StatesOf(g, first))
Gotos(g, first, itemSets) ==
  [n \in 0..(Len(itemSets) - 1) |-> [x \in NextSymbols(g, itemSets[n + 1]) |->
     Number(itemSets, Goto(g, first, itemSets[n + 1], x))]]

(* LRTableBuilder::LRTableBuilder.  "conflicts" stands for                   *)
(* ActionsConflictException.                                                 *)
BuildFrom(g, first) ==
  LET itemSets == ItemSets(g, first)
  IN  TablesOf(g, itemSets, Gotos(g, first, itemSets))
Build(source) == BuildFrom(Augmented(source), First(Augmented(source)))
=============================================================================
