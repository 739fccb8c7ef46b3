------------------------------ MODULE LRTables ------------------------------
(* The tables of the parser and what they stand for: what the builder makes  *)
(* (syntax/lr/LRTableBuilder.cpp), and all that the parser needs of it.      *)
EXTENDS Naturals, Sequences

CONSTANTS
  Tokens,                            \* TokenType
  End,                               \* TokenType::END
  Rules,                             \* grammar -> its rules [from |-> ..., to |-> ...]
  Tables,                            \* grammar -> [actions |-> ..., goto |-> ...,
                                     \*   positions |-> ...]
  StartSymbol                        \* grammar -> its start symbol

Symbols(g) == Tokens \cup {r.from : r \in Rules[g]}

(* A state of the tables stands for a set of positions in rules: the places  *)
(* that parsing may have reached, each before the symbol its dot counts.     *)
Positions(g, state) == Tables[g].positions[state]
At(p, dot) == [from |-> p.from, to |-> p.to, dot |-> dot]
RuleOf(p) == [from |-> p.from, to |-> p.to]
AtEnd(p) == p.dot = Len(p.to) + 1

(* What the builder of the tables guarantees.  A step between two states is  *)
(* made by the symbol that every rule the second is in the middle of has     *)
(* just passed, ...                                                          *)
Leads(g, state, symbol, next) ==
  /\ next \in DOMAIN Tables[g].actions
  /\ \E p \in Positions(g, next) : p.dot > 1
  /\ \A p \in Positions(g, next) :
       p.dot > 1 => p.to[p.dot - 1] = symbol /\ At(p, p.dot - 1) \in Positions(g, state)

(* ... where a rule may begin its nonterminal leads on (the rule that the    *)
(* builder adds for the start symbol is only begun by the file), ...         *)
PositionOK(g, state, p) ==
  /\ p.to \in Seq(Symbols(g)) /\ p.dot \in 1..(Len(p.to) + 1)
  /\ RuleOf(p) \in Rules[g] \/ p.to = <<StartSymbol[g]>>
  /\ state = 0 => p.dot = 1
  /\ p.dot = 1 /\ RuleOf(p) \in Rules[g]
       => Leads(g, state, p.from, Tables[g].goto[state][p.from])

(* ... a rule is reduced where it ends, and the file is accepted, at END,    *)
(* where a rule that only the first state begins has passed the start symbol. *)
ActionOK(g, state, token, a) ==
  /\ a.kind = "shift" => token # End /\ Leads(g, state, token, a.next)
  /\ a.kind = "reduce" =>
       \E p \in Positions(g, state) :
         /\ AtEnd(p) /\ RuleOf(p) \in Rules[g]
         /\ p.from = a.next /\ Len(p.to) = a.count
  /\ a.kind = "accept" =>
       /\ token = End
       /\ \E p \in Positions(g, state) :
            /\ AtEnd(p) /\ p.to = <<StartSymbol[g]>>
            /\ \A s \in DOMAIN Tables[g].actions : At(p, 1) \in Positions(g, s) => s = 0

TablesFit(g) ==
  /\ 0 \in DOMAIN Tables[g].actions
  /\ \A state \in DOMAIN Tables[g].actions :
       /\ \A r \in Rules[g] : Tables[g].goto[state][r.from] \in DOMAIN Tables[g].actions
       /\ \A p \in Positions(g, state) : PositionOK(g, state, p)
       /\ \A token \in Tokens :
            ActionOK(g, state, token, Tables[g].actions[state][token])
=============================================================================
