------------------------------ MODULE LRItems ------------------------------
(* The items and states of the table generator, and the tables it makes of   *)
(* them (syntax/lr/LRTableBuilder.cpp).  How the states are found is in      *)
(* LRTableBuilder; what they are is Canonical.                               *)
EXTENDS Naturals, Sequences, FiniteSets

CONSTANTS
  Tokens,   \* TokenType::values
  End       \* TokenType::END, also the mark of an empty production

(* A grammar is a start symbol and a sequence of rules; the symbols on the   *)
(* left of the rules are its nonterminals.                                   *)
NonTerminals(g) == {g.rules[i].from : i \in DOMAIN g.rules}

(* The grammar with a start symbol of its own. *)
NewStart == "start"
Augmented(g) ==
  [start |-> NewStart, rules |-> Append(g.rules, [from |-> NewStart, to |-> <<g.start>>])]

(* The rules of a grammar do not name the end of the file, and the number of *)
(* the new start symbol is not in use.                                       *)
GrammarOK(source) ==
  /\ source.rules \in Seq([from : NonTerminals(source),
                           to : Seq((Tokens \ {End}) \cup NonTerminals(source))])
  /\ source.start \in NonTerminals(source)
  /\ NonTerminals(source) \cap (Tokens \cup {NewStart}) = {}
  /\ End \in Tokens /\ NewStart \notin Tokens

-----------------------------------------------------------------------------
(* closure and group_by_next.  An item is a rule, a place in its body and    *)
(* one token that may follow.                                                *)

Item(rule, dot, follow) == [rule |-> rule, dot |-> dot, follow |-> follow]
Body(g, item) == g.rules[item.rule].to
AtEnd(g, item) == item.dot > Len(Body(g, item))
NextSymbol(g, item) == Body(g, item)[item.dot]

(* Mutant: the first tokens of a nonterminal are not looked up. *)
FollowingUnresolved(g, first, item) ==
  LET next == item.dot + 1 IN
  IF next > Len(Body(g, item)) \/ Body(g, item)[next] \in NonTerminals(g) THEN {item.follow}
  ELSE {Body(g, item)[next]}

(* What may follow the symbol after the dot.  Only one symbol is looked at.  *)
Following(g, first, item) ==
  LET next == item.dot + 1 IN
  IF next > Len(Body(g, item)) THEN {item.follow}
  ELSE IF Body(g, item)[next] \in NonTerminals(g) THEN first[Body(g, item)[next]]
  ELSE {Body(g, item)[next]}

Expanded(g, first, item) ==
  IF AtEnd(g, item) THEN {}
  ELSE {Item(r, 1, t) : r \in {q \in DOMAIN g.rules :
                                 g.rules[q].from = NextSymbol(g, item)},
                        t \in Following(g, first, item)}

Advance(g, state, symbol) ==
  {Item(item.rule, item.dot + 1, item.follow) :
     item \in {i \in state : ~AtEnd(g, i) /\ NextSymbol(g, i) = symbol}}

NextSymbols(g, state) == {NextSymbol(g, i) : i \in {j \in state : ~AtEnd(g, j)}}

-----------------------------------------------------------------------------
(* build_states_table: a state is the closure of its kernel, of the start    *)
(* rules or of what another state becomes by a symbol.  gotos has the number *)
(* of the state that each symbol leads to.                                   *)

Items(g) ==
  UNION {[rule : {r}, dot : 1..(Len(g.rules[r].to) + 1), follow : Tokens] : r \in DOMAIN g.rules}

StartKernel(g) ==
  {Item(r, 1, End) : r \in {q \in DOMAIN g.rules : g.rules[q].from = g.start}}

IsClosure(g, first, kernel, items) ==
  /\ kernel \subseteq items
  /\ \A item \in items :
       /\ Expanded(g, first, item) \subseteq items
       /\ item \in kernel \/ \E other \in items : item \in Expanded(g, first, other)

Canonical(g, first, itemSets, gotos) ==
  /\ itemSets \in Seq(SUBSET Items(g)) /\ itemSets # <<>>
  /\ IsClosure(g, first, StartKernel(g), itemSets[1])
  /\ \A k \in DOMAIN itemSets \ {1} : \E j \in DOMAIN itemSets : \E x \in NextSymbols(g, itemSets[j]) :
       IsClosure(g, first, Advance(g, itemSets[j], x), itemSets[k])
  /\ \A j \in DOMAIN itemSets : \A x \in NextSymbols(g, itemSets[j]) :
       /\ gotos[j - 1][x] \in 0..(Len(itemSets) - 1)
       /\ IsClosure(g, first, Advance(g, itemSets[j], x), itemSets[gotos[j - 1][x] + 1])

-----------------------------------------------------------------------------
(* build_actions_table.                                                      *)

Accept == [kind |-> "accept"]
Reject == [kind |-> "reject"]
Shift(next) == [kind |-> "shift", next |-> next]
Reduce(g, rule) ==
  [kind |-> "reduce", next |-> g.rules[rule].from, count |-> Len(g.rules[rule].to)]

(* All actions the automaton allows in a state for a token.                  *)
Candidates(g, state, token, gotos) ==
  {IF g.rules[item.rule].from = g.start THEN Accept ELSE Reduce(g, item.rule) :
     item \in {i \in state : AtEnd(g, i) /\ i.follow = token}}
  \cup {Shift(gotos[t]) : t \in {token} \cap NextSymbols(g, state)}

(* Two different rules to reduce are a conflict even if the code behind them *)
(* would build the same node.                                                *)
Conflict(g, state, token) ==
  LET reductions == {i.rule : i \in {j \in state : AtEnd(g, j) /\ j.follow = token}}
  IN  \/ Cardinality(reductions) > 1
      \/ reductions # {} /\ token \in NextSymbols(g, state)

ActionIn(candidates) ==
  IF candidates = {} THEN Reject ELSE CHOOSE a \in candidates : TRUE

(* The position of an item, without what may follow. *)
Position(g, item) ==
  [from |-> g.rules[item.rule].from, to |-> Body(g, item), dot |-> item.dot]

(* A number that was never assigned in the goto table is zero.               *)
TablesOf(g, itemSets, gotos) ==
  [conflicts |-> \E i \in DOMAIN itemSets : \E t \in Tokens : Conflict(g, itemSets[i], t),
   actions |-> [n \in 0..(Len(itemSets) - 1) |-> [t \in Tokens |->
      ActionIn(Candidates(g, itemSets[n + 1], t, gotos[n]))]],
   goto |-> [n \in 0..(Len(itemSets) - 1) |-> [x \in NonTerminals(g) \ {NewStart} |->
      IF x \in NextSymbols(g, itemSets[n + 1]) THEN gotos[n][x] ELSE 0]],
   positions |-> [n \in 0..(Len(itemSets) - 1) |->
      {Position(g, item) : item \in itemSets[n + 1]}]]
=============================================================================
