-------------------------- MODULE LRTables_proofs --------------------------
(* The tables that the builder makes of its states are what the parser needs, *)
(* for every grammar, with conflicts or without.                             *)
EXTENDS LRTables, TLAPS

Builder == INSTANCE LRItems

(* The rules of the grammar with its own start symbol are those of the       *)
(* source, and one for the start.                                            *)
StartRule(source) == [from |-> Builder!NewStart, to |-> <<source.start>>]

RulesAugmented(source, g) ==
  /\ g.start = Builder!NewStart
  /\ DOMAIN g.rules = 1..(Len(source.rules) + 1) /\ Len(source.rules) \in Nat
  /\ g.rules[Len(source.rules) + 1] = StartRule(source)
  /\ \A r \in 1..Len(source.rules) :
       /\ g.rules[r] = source.rules[r] /\ g.rules[r].from \in Builder!NonTerminals(source)
       /\ g.rules[r].from # Builder!NewStart
       /\ g.rules[r] = [from |-> g.rules[r].from, to |-> g.rules[r].to]
       /\ g.rules[r].to \in Seq((Tokens \ {End}) \cup Builder!NonTerminals(source))
  /\ Builder!NonTerminals(g) \ {Builder!NewStart} = Builder!NonTerminals(source)

LEMMA AugmentedRules ==
  ASSUME NEW source, Builder!GrammarOK(source), NEW g, g = Builder!Augmented(source)
  PROVE  RulesAugmented(source, g)
<1>. DEFINE N == Builder!NonTerminals(source)
            T == [from : N, to : Seq((Tokens \ {End}) \cup N)]
            n == Len(source.rules)
<1>1. source.rules \in Seq(T) /\ N \cap {Builder!NewStart} = {}
  BY DEF Builder!GrammarOK
<1>2. g.start = Builder!NewStart /\ g.rules = Append(source.rules, StartRule(source))
  BY DEF Builder!Augmented, StartRule
<1>3. n \in Nat /\ DOMAIN source.rules = 1..n /\ \A r \in 1..n : source.rules[r] \in T
  <2>. HIDE DEF T, N
  <2>. QED  BY <1>1
<1>4. /\ DOMAIN g.rules = 1..(n + 1) /\ g.rules[n + 1] = StartRule(source)
      /\ \A r \in 1..n : g.rules[r] = source.rules[r]
  <2>. HIDE DEF T
  <2>. DEFINE more == Seq(T \cup {StartRule(source)})
  <2>1. source.rules \in more /\ StartRule(source) \in T \cup {StartRule(source)}
    BY <1>1, <1>3
  <2>2. g.rules \in more /\ Len(g.rules) = n + 1
    BY <1>2, <2>1
  <2>. QED  BY <1>2, <1>3, <2>1, <2>2
<1>5. ASSUME NEW r \in 1..n
      PROVE  /\ g.rules[r] = source.rules[r] /\ g.rules[r].from \in N
             /\ g.rules[r].from # Builder!NewStart
             /\ g.rules[r] = [from |-> g.rules[r].from, to |-> g.rules[r].to]
             /\ g.rules[r].to \in Seq((Tokens \ {End}) \cup N)
  <2>1. g.rules[r] = source.rules[r] /\ source.rules[r] \in T
    BY <1>3, <1>4
  <2>. HIDE DEF N
  <2>. QED  BY <1>1, <2>1
<1>6. Builder!NonTerminals(g) \ {Builder!NewStart} = N
  <2>1. Builder!NonTerminals(g) = {g.rules[r].from : r \in 1..(n + 1)}
    BY <1>4 DEF Builder!NonTerminals
  <2>2. N = {source.rules[r].from : r \in 1..n}
    BY <1>3 DEF Builder!NonTerminals
  <2>3. StartRule(source).from = Builder!NewStart
    BY DEF StartRule
  <2>4. \A r \in 1..(n + 1) : r = n + 1 \/ r \in 1..n
    BY <1>3
  <2>5. \A r \in 1..n : r \in 1..(n + 1)
    BY <1>3
  <2>. HIDE DEF N
  <2>6. ASSUME NEW x \in Builder!NonTerminals(g) \ {Builder!NewStart} PROVE x \in N
    <3>1. PICK r \in 1..(n + 1) : x = g.rules[r].from
      BY <2>1
    <3>. QED  BY <1>4, <1>5, <2>3, <2>4, <3>1
  <2>7. ASSUME NEW x \in N PROVE x \in Builder!NonTerminals(g) \ {Builder!NewStart}
    <3>1. PICK r \in 1..n : x = source.rules[r].from
      BY <2>2
    <3>. QED  BY <1>4, <1>5, <2>1, <2>5, <3>1
  <2>. QED  BY <2>6, <2>7
<1>. QED  BY <1>2, <1>3, <1>4, <1>5, <1>6 DEF RulesAugmented

-----------------------------------------------------------------------------
(* The tables of g are made of the canonical states of its rules.            *)
Built(g, source, first, itemSets, gotos) ==
  /\ Builder!GrammarOK(source)
  /\ Builder!Canonical(Builder!Augmented(source), first, itemSets, gotos)
  /\ Rules[g] = {source.rules[r] : r \in DOMAIN source.rules}
  /\ StartSymbol[g] = source.start
  /\ Tables[g] = Builder!TablesOf(Builder!Augmented(source), itemSets, gotos)

LEMMA BuiltTables ==
  ASSUME NEW g, NEW source, NEW first, NEW itemSets, NEW gotos,
         Built(g, source, first, itemSets, gotos), NEW a, a = Builder!Augmented(source)
  PROVE  /\ Len(itemSets) \in Nat /\ Len(itemSets) >= 1 /\ DOMAIN itemSets = 1..Len(itemSets)
         /\ DOMAIN Tables[g].actions = 0..(Len(itemSets) - 1)
         /\ \A s \in 0..(Len(itemSets) - 1) :
              /\ Positions(g, s) = {Builder!Position(a, item) : item \in itemSets[s + 1]}
              /\ \A t \in Tokens :
                   Tables[g].actions[s][t]
                     = Builder!ActionIn(Builder!Candidates(a, itemSets[s + 1], t, gotos[s]))
              /\ \A x \in Builder!NonTerminals(source) :
                   Tables[g].goto[s][x]
                     = IF x \in Builder!NextSymbols(a, itemSets[s + 1]) THEN gotos[s][x] ELSE 0
<1>. DEFINE n == Len(itemSets)
<1>1. itemSets \in Seq(SUBSET Builder!Items(a)) /\ itemSets # <<>>
  BY DEF Built, Builder!Canonical
<1>2. n \in Nat /\ n >= 1 /\ DOMAIN itemSets = 1..n
  <2>. DEFINE S == SUBSET Builder!Items(a)
  <2>1. itemSets \in Seq(S) /\ itemSets # <<>>
    BY <1>1
  <2>. HIDE DEF S
  <2>. QED  BY <2>1
<1>3. Tables[g] = Builder!TablesOf(a, itemSets, gotos)
  BY DEF Built
<1>4. Builder!NonTerminals(source) = Builder!NonTerminals(a) \ {Builder!NewStart}
  BY AugmentedRules DEF Built, RulesAugmented
<1>. HIDE DEF n
<1>5. /\ Tables[g].actions = [k \in 0..(n - 1) |-> [t \in Tokens |->
            Builder!ActionIn(Builder!Candidates(a, itemSets[k + 1], t, gotos[k]))]]
      /\ Tables[g].goto = [k \in 0..(n - 1) |-> [x \in Builder!NonTerminals(source) |->
            IF x \in Builder!NextSymbols(a, itemSets[k + 1]) THEN gotos[k][x] ELSE 0]]
      /\ Tables[g].positions = [k \in 0..(n - 1) |->
            {Builder!Position(a, item) : item \in itemSets[k + 1]}]
  BY <1>3, <1>4 DEF Builder!TablesOf, n
<1>. QED  BY <1>2, <1>5 DEF Positions, n

(* An item is a place in a rule, and its position says which. *)
ItemOK(g, source, a, item, p) ==
  /\ item.rule \in 1..(Len(source.rules) + 1)
  /\ item.dot \in 1..(Len(a.rules[item.rule].to) + 1)
  /\ p.from = a.rules[item.rule].from /\ p.to = a.rules[item.rule].to
  /\ p.dot = item.dot
  /\ IF item.rule = Len(source.rules) + 1
     THEN p.from = Builder!NewStart /\ p.to = <<StartSymbol[g]>> /\ RuleOf(p) \notin Rules[g]
     ELSE item.rule \in 1..Len(source.rules) /\ RuleOf(p) \in Rules[g]
  /\ p.to \in Seq((Tokens \ {End}) \cup Builder!NonTerminals(source))
  /\ p.to \in Seq(Symbols(g))

LEMMA ItemFacts ==
  ASSUME NEW g, NEW source, NEW first, NEW itemSets, NEW gotos,
         Built(g, source, first, itemSets, gotos), NEW a, a = Builder!Augmented(source),
         NEW k \in 1..Len(itemSets), NEW item \in itemSets[k]
  PROVE  ItemOK(g, source, a, item, Builder!Position(a, item))
<1>. DEFINE n == Len(source.rules)
            N == Builder!NonTerminals(source)
            T == (Tokens \ {End}) \cup N
            p == Builder!Position(a, item)
<1>0. Builder!GrammarOK(source)
  BY DEF Built
<1>1. /\ DOMAIN a.rules = 1..(n + 1) /\ n \in Nat /\ a.rules[n + 1] = StartRule(source)
      /\ \A r \in 1..n :
           /\ a.rules[r] = source.rules[r] /\ a.rules[r].from \in N
           /\ a.rules[r].from # Builder!NewStart
           /\ a.rules[r] = [from |-> a.rules[r].from, to |-> a.rules[r].to]
           /\ a.rules[r].to \in Seq(T)
  <2>1. RulesAugmented(source, a)
    BY <1>0, AugmentedRules
  <2>. QED  BY <2>1 DEF RulesAugmented
<1>2. DOMAIN source.rules = 1..n
  <2>. DEFINE R == [from : N, to : Seq(T)]
  <2>1. source.rules \in Seq(R)
    BY <1>0 DEF Builder!GrammarOK
  <2>. HIDE DEF R
  <2>. QED  BY <2>1
<1>3. Rules[g] = {source.rules[r] : r \in 1..n} /\ StartSymbol[g] = source.start
  BY <1>2 DEF Built
<1>4. N = {r.from : r \in Rules[g]}
  BY <1>2, <1>3 DEF Builder!NonTerminals
<1>5. T \subseteq Symbols(g) /\ source.start \in T
  BY <1>0, <1>4 DEF Symbols, Builder!GrammarOK
<1>6. item \in Builder!Items(a)
  <2>1. itemSets \in Seq(SUBSET Builder!Items(a))
    BY DEF Built, Builder!Canonical
  <2>. DEFINE S == SUBSET Builder!Items(a)
  <2>2. itemSets[k] \in S
    <3>1. itemSets \in Seq(S)
      BY <2>1
    <3>. HIDE DEF S
    <3>. QED  BY <3>1
  <2>. QED  BY <2>2
<1>7. item.rule \in 1..(n + 1) /\ item.dot \in 1..(Len(a.rules[item.rule].to) + 1)
  BY <1>1, <1>6 DEF Builder!Items
<1>8. /\ p.from = a.rules[item.rule].from /\ p.to = a.rules[item.rule].to
      /\ p.dot = item.dot
  BY DEF Builder!Position, Builder!Body
<1>. HIDE DEF n, N, T, p
<1>9. ASSUME item.rule = n + 1
      PROVE  /\ p.from = Builder!NewStart /\ p.to = <<source.start>>
             /\ RuleOf(p) \notin Rules[g]
  <2>1. p.from = Builder!NewStart /\ p.to = <<source.start>>
    BY <1>1, <1>8, <1>9 DEF StartRule
  <2>2. ASSUME NEW r \in Rules[g] PROVE r.from # Builder!NewStart
    <3>1. PICK number \in 1..n : r = source.rules[number]
      BY <1>3
    <3>2. a.rules[number] = source.rules[number] /\ a.rules[number].from # Builder!NewStart
      BY <1>1
    <3>. QED  BY <3>1, <3>2
  <2>. QED  BY <2>1, <2>2 DEF RuleOf
<1>10. ASSUME item.rule # n + 1
       PROVE  item.rule \in 1..n /\ RuleOf(p) \in Rules[g]
  <2>1. item.rule \in 1..n
    BY <1>1, <1>7, <1>10
  <2>2. /\ a.rules[item.rule] = source.rules[item.rule]
        /\ a.rules[item.rule] = [from |-> a.rules[item.rule].from, to |-> a.rules[item.rule].to]
    BY <1>1, <2>1, Zenon
  <2>3. RuleOf(p) = source.rules[item.rule]
    BY <1>8, <2>2, Zenon DEF RuleOf
  <2>. QED  BY <1>3, <2>1, <2>3
<1>11. p.to \in Seq(T) /\ p.to \in Seq(Symbols(g))
  <2>1. CASE item.rule = n + 1
    <3>1. p.to = <<source.start>>
      BY <1>9, <2>1
    <3>. QED  BY <1>5, <3>1
  <2>2. CASE item.rule # n + 1
    <3>1. p.to \in Seq(T)
      BY <1>1, <1>8, <1>10, <2>2, Zenon
    <3>. QED  BY <1>5, <3>1
  <2>. QED  BY <2>1, <2>2
<1>12. IF item.rule = n + 1
       THEN p.from = Builder!NewStart /\ p.to = <<StartSymbol[g]>> /\ RuleOf(p) \notin Rules[g]
       ELSE item.rule \in 1..n /\ RuleOf(p) \in Rules[g]
  BY <1>3, <1>9, <1>10
<1>13. ItemOK(g, source, a, item, p)
  BY <1>7, <1>8, <1>11, <1>12, Zenon DEF n, N, T, ItemOK
<1>. QED  BY <1>13 DEF p

(* What closure adds to a kernel are the starts of rules. *)
LEMMA KernelItems ==
  ASSUME NEW a, NEW first, NEW kernel, NEW items,
         Builder!IsClosure(a, first, kernel, items), NEW item \in items
  PROVE  \/ item \in kernel
         \/ /\ item.dot = 1
            /\ \E other \in items :
                 /\ ~Builder!AtEnd(a, other)
                 /\ a.rules[item.rule].from = Builder!NextSymbol(a, other)
<1>. SUFFICES ASSUME item \notin kernel
              PROVE  /\ item.dot = 1
                     /\ \E other \in items :
                          /\ ~Builder!AtEnd(a, other)
                          /\ a.rules[item.rule].from = Builder!NextSymbol(a, other)
  OBVIOUS
<1>1. PICK other \in items : item \in Builder!Expanded(a, first, other)
  BY DEF Builder!IsClosure
<1>2. ~Builder!AtEnd(a, other)
  BY <1>1 DEF Builder!Expanded
<1>3. PICK r \in DOMAIN a.rules, t \in Builder!Following(a, first, other) :
        a.rules[r].from = Builder!NextSymbol(a, other) /\ item = Builder!Item(r, 1, t)
  BY <1>1, <1>2 DEF Builder!Expanded
<1>. QED  BY <1>2, <1>3 DEF Builder!Item

LEMMA StateKernels ==
  ASSUME NEW g, NEW source, NEW first, NEW itemSets, NEW gotos,
         Built(g, source, first, itemSets, gotos), NEW a, a = Builder!Augmented(source)
  PROVE  /\ Builder!IsClosure(a, first, Builder!StartKernel(a), itemSets[1])
         /\ \A k \in 1..Len(itemSets) : k # 1 =>
              \E j \in 1..Len(itemSets) : \E x \in Builder!NextSymbols(a, itemSets[j]) :
                Builder!IsClosure(a, first, Builder!Advance(a, itemSets[j], x), itemSets[k])
         /\ \A j \in 1..Len(itemSets) : \A x \in Builder!NextSymbols(a, itemSets[j]) :
              /\ gotos[j - 1][x] \in 0..(Len(itemSets) - 1)
              /\ Builder!IsClosure(a, first, Builder!Advance(a, itemSets[j], x),
                                   itemSets[gotos[j - 1][x] + 1])
<1>1. DOMAIN itemSets = 1..Len(itemSets)
  BY BuiltTables
<1>2. Builder!Canonical(a, first, itemSets, gotos)
  BY DEF Built
<1>. DEFINE D == DOMAIN itemSets
<1>3. /\ Builder!IsClosure(a, first, Builder!StartKernel(a), itemSets[1])
      /\ \A k \in D \ {1} : \E j \in D : \E x \in Builder!NextSymbols(a, itemSets[j]) :
           Builder!IsClosure(a, first, Builder!Advance(a, itemSets[j], x), itemSets[k])
      /\ \A j \in D : \A x \in Builder!NextSymbols(a, itemSets[j]) :
           /\ gotos[j - 1][x] \in 0..(Len(itemSets) - 1)
           /\ Builder!IsClosure(a, first, Builder!Advance(a, itemSets[j], x),
                                itemSets[gotos[j - 1][x] + 1])
  BY <1>2, Zenon DEF Builder!Canonical
<1>4. D = 1..Len(itemSets)
  BY <1>1
<1>. HIDE DEF D
<1>. QED  BY <1>3, <1>4

(* An item past its start comes from the item one symbol before. *)
ComesFrom(a, state, x, item) ==
  \E i \in state :
    /\ item.rule = i.rule /\ item.follow = i.follow
    /\ item.dot = i.dot + 1 /\ item.dot > 1 /\ item.dot - 1 = i.dot
    /\ a.rules[i.rule].to[i.dot] = x

LEMMA AdvancedItems ==
  ASSUME NEW g, NEW source, NEW first, NEW itemSets, NEW gotos,
         Built(g, source, first, itemSets, gotos), NEW a, a = Builder!Augmented(source),
         NEW j \in 1..Len(itemSets), NEW x,
         NEW item \in Builder!Advance(a, itemSets[j], x)
  PROVE  ComesFrom(a, itemSets[j], x, item)
<1>1. PICK i \in itemSets[j] :
        Builder!NextSymbol(a, i) = x /\ item = Builder!Item(i.rule, i.dot + 1, i.follow)
  BY DEF Builder!Advance
<1>. DEFINE len == Len(a.rules[i.rule].to)
<1>2. i.dot \in 1..(len + 1)
  BY ItemFacts DEF ItemOK
<1>. HIDE DEF len
<1>3. i.dot + 1 > 1 /\ (i.dot + 1) - 1 = i.dot
  BY <1>2
<1>4. item.rule = i.rule /\ item.follow = i.follow /\ item.dot = i.dot + 1
  BY <1>1 DEF Builder!Item
<1>5. a.rules[i.rule].to[i.dot] = x
  BY <1>1 DEF Builder!NextSymbol, Builder!Body
<1>. QED  BY <1>3, <1>4, <1>5 DEF ComesFrom

(* The symbols after the dots are symbols of the rules of the source. *)
LEMMA NextFacts ==
  ASSUME NEW g, NEW source, NEW first, NEW itemSets, NEW gotos,
         Built(g, source, first, itemSets, gotos), NEW a, a = Builder!Augmented(source),
         NEW k \in 1..Len(itemSets), NEW item \in itemSets[k], ~Builder!AtEnd(a, item)
  PROVE  /\ item.dot \in 1..Len(a.rules[item.rule].to)
         /\ Builder!NextSymbol(a, item) = a.rules[item.rule].to[item.dot]
         /\ Builder!NextSymbol(a, item) # Builder!NewStart
         /\ Builder!NextSymbol(a, item) # End
<1>. DEFINE p == Builder!Position(a, item)
            T == (Tokens \ {End}) \cup Builder!NonTerminals(source)
            to == a.rules[item.rule].to
<1>1. item.dot \in 1..(Len(to) + 1) /\ p.to = to /\ p.to \in Seq(T)
  <2>1. ItemOK(g, source, a, item, p)
    BY ItemFacts
  <2>. QED  BY <2>1 DEF ItemOK
<1>2. Builder!NewStart \notin T /\ End \notin T
  BY DEF Built, Builder!GrammarOK
<1>3. ~(item.dot > Len(to)) /\ Builder!NextSymbol(a, item) = to[item.dot]
  BY DEF Builder!AtEnd, Builder!Body, Builder!NextSymbol
<1>. HIDE DEF p, T, to
<1>4. item.dot \in 1..Len(to) /\ to[item.dot] \in T
  BY <1>1, <1>3
<1>. QED  BY <1>2, <1>3, <1>4 DEF to

(* The rule of the start is begun by the first state and by nothing else, and *)
(* what follows it is the end of the file.                                    *)
LEMMA StartItems ==
  ASSUME NEW g, NEW source, NEW first, NEW itemSets, NEW gotos,
         Built(g, source, first, itemSets, gotos), NEW a, a = Builder!Augmented(source),
         NEW k \in 1..Len(itemSets), NEW item \in itemSets[k]
  PROVE  /\ k = 1 => item.dot = 1
         /\ item.dot = 1 /\ item.rule = Len(source.rules) + 1 => k = 1 /\ item.follow = End
         /\ item.dot = 1 /\ item.rule # Len(source.rules) + 1
              => a.rules[item.rule].from \in Builder!NextSymbols(a, itemSets[k])
<1>. DEFINE n == Len(source.rules)
<1>1. RulesAugmented(source, a)
  BY AugmentedRules DEF Built
<1>2. item.rule \in 1..(n + 1) /\ n \in Nat
  BY <1>1, ItemFacts DEF RulesAugmented, ItemOK
<1>. HIDE DEF n
<1>3. /\ a.start = Builder!NewStart /\ a.rules[n + 1].from = Builder!NewStart
      /\ DOMAIN a.rules = 1..(n + 1)
      /\ \A r \in 1..(n + 1) : r # n + 1 => a.rules[r].from # Builder!NewStart
  <2>1. \A r \in 1..(n + 1) : r # n + 1 => r \in 1..n
    BY <1>2
  <2>2. a.start = Builder!NewStart /\ DOMAIN a.rules = 1..(n + 1)
    BY <1>1 DEF RulesAugmented, n
  <2>3. a.rules[n + 1] = StartRule(source)
    BY <1>1 DEF RulesAugmented, n
  <2>4. \A r \in 1..n : a.rules[r].from # Builder!NewStart
    BY <1>1 DEF RulesAugmented, n
  <2>. QED  BY <2>1, <2>2, <2>3, <2>4 DEF StartRule
<1>4. CASE k = 1
  <2>1. Builder!IsClosure(a, first, Builder!StartKernel(a), itemSets[k])
    BY <1>4, StateKernels
  <2>2. CASE item \in Builder!StartKernel(a)
    <3>1. PICK r \in 1..(n + 1) :
            a.rules[r].from = Builder!NewStart /\ item = Builder!Item(r, 1, End)
      BY <1>3, <2>2 DEF Builder!StartKernel
    <3>2. r = n + 1 /\ item.rule = r /\ item.dot = 1 /\ item.follow = End
      BY <1>3, <3>1 DEF Builder!Item
    <3>. QED  BY <1>4, <3>2 DEF n
  <2>3. CASE item \notin Builder!StartKernel(a)
    <3>1. item.dot = 1
      BY <2>1, <2>3, KernelItems
    <3>2. PICK other \in itemSets[k] :
            ~Builder!AtEnd(a, other) /\ a.rules[item.rule].from = Builder!NextSymbol(a, other)
      BY <2>1, <2>3, KernelItems
    <3>3. a.rules[item.rule].from # Builder!NewStart
      BY <3>2, NextFacts
    <3>4. a.rules[item.rule].from \in Builder!NextSymbols(a, itemSets[k])
      BY <3>2 DEF Builder!NextSymbols
    <3>. QED  BY <1>3, <3>1, <3>3, <3>4 DEF n
  <2>. QED  BY <2>2, <2>3
<1>5. CASE k # 1
  <2>0. PICK j \in 1..Len(itemSets) : \E x \in Builder!NextSymbols(a, itemSets[j]) :
          Builder!IsClosure(a, first, Builder!Advance(a, itemSets[j], x), itemSets[k])
    BY <1>5, StateKernels
  <2>1. PICK x \in Builder!NextSymbols(a, itemSets[j]) :
          Builder!IsClosure(a, first, Builder!Advance(a, itemSets[j], x), itemSets[k])
    BY <2>0
  <2>2. CASE item \in Builder!Advance(a, itemSets[j], x)
    <3>1. ComesFrom(a, itemSets[j], x, item)
      BY <2>2, AdvancedItems
    <3>2. item.dot # 1
      BY <3>1 DEF ComesFrom
    <3>. QED  BY <1>5, <3>2
  <2>3. CASE item \notin Builder!Advance(a, itemSets[j], x)
    <3>2. PICK other \in itemSets[k] :
            ~Builder!AtEnd(a, other) /\ a.rules[item.rule].from = Builder!NextSymbol(a, other)
      BY <2>1, <2>3, KernelItems
    <3>3. a.rules[item.rule].from # Builder!NewStart
      BY <3>2, NextFacts
    <3>4. a.rules[item.rule].from \in Builder!NextSymbols(a, itemSets[k])
      BY <3>2 DEF Builder!NextSymbols
    <3>. QED  BY <1>3, <1>5, <3>3, <3>4 DEF n
  <2>. QED  BY <2>2, <2>3
<1>. QED  BY <1>4, <1>5
LEMMA StartDone ==
  ASSUME NEW g, NEW source, NEW first, NEW itemSets, NEW gotos,
         Built(g, source, first, itemSets, gotos), NEW a, a = Builder!Augmented(source),
         NEW k \in 1..Len(itemSets), NEW item \in itemSets[k]
  PROVE  item.rule = Len(source.rules) + 1 /\ item.dot = 2 => item.follow = End
<1>0. SUFFICES ASSUME item.rule = Len(source.rules) + 1, item.dot = 2
               PROVE  item.follow = End
  OBVIOUS
<1>1. k # 1 /\ item.dot # 1
  BY <1>0, StartItems
<1>2. PICK j \in 1..Len(itemSets) : \E x \in Builder!NextSymbols(a, itemSets[j]) :
        Builder!IsClosure(a, first, Builder!Advance(a, itemSets[j], x), itemSets[k])
  BY <1>1, StateKernels
<1>3. PICK x \in Builder!NextSymbols(a, itemSets[j]) :
        Builder!IsClosure(a, first, Builder!Advance(a, itemSets[j], x), itemSets[k])
  BY <1>2
<1>4. item \in Builder!Advance(a, itemSets[j], x)
  BY <1>1, <1>3, KernelItems
<1>5. PICK i \in itemSets[j] :
        item.rule = i.rule /\ item.follow = i.follow /\ item.dot - 1 = i.dot
  <2>1. ComesFrom(a, itemSets[j], x, item)
    BY <1>4, AdvancedItems
  <2>. QED  BY <2>1 DEF ComesFrom
<1>6. i.dot = 1 /\ i.rule = Len(source.rules) + 1
  BY <1>0, <1>5
<1>. QED  BY <1>5, <1>6, StartItems

(* A step between two states passes a symbol of everything the second is in  *)
(* the middle of.                                                            *)
LEMMA StepLeads ==
  ASSUME NEW g, NEW source, NEW first, NEW itemSets, NEW gotos,
         Built(g, source, first, itemSets, gotos), NEW a, a = Builder!Augmented(source),
         NEW s \in 0..(Len(itemSets) - 1), NEW x \in Builder!NextSymbols(a, itemSets[s + 1])
  PROVE  Leads(g, s, x, gotos[s][x])
<1>. DEFINE n == Len(itemSets)
            next == gotos[s][x]
<1>1. n \in Nat /\ n >= 1 /\ DOMAIN Tables[g].actions = 0..(n - 1)
  BY BuiltTables
<1>. HIDE DEF n
<1>2. s + 1 \in 1..n /\ (s + 1) - 1 = s
  BY <1>1 DEF n
<1>3. /\ next \in 0..(n - 1)
      /\ Builder!IsClosure(a, first, Builder!Advance(a, itemSets[s + 1], x), itemSets[next + 1])
  BY <1>2, StateKernels DEF n
<1>. HIDE DEF next
<1>4. next + 1 \in 1..n
  BY <1>1, <1>3
<1>5. /\ Positions(g, s) = {Builder!Position(a, item) : item \in itemSets[s + 1]}
      /\ Positions(g, next) = {Builder!Position(a, item) : item \in itemSets[next + 1]}
  BY <1>3, BuiltTables DEF n
<1>6. \E p \in Positions(g, next) : p.dot > 1
  <2>1. PICK i \in itemSets[s + 1] : ~Builder!AtEnd(a, i) /\ x = Builder!NextSymbol(a, i)
    BY DEF Builder!NextSymbols
  <2>. DEFINE item == Builder!Item(i.rule, i.dot + 1, i.follow)
  <2>2. item \in Builder!Advance(a, itemSets[s + 1], x)
    BY <2>1 DEF Builder!Advance
  <2>3. item \in itemSets[next + 1]
    BY <1>3, <2>2 DEF Builder!IsClosure
  <2>4. i.dot \in 1..Len(a.rules[i.rule].to)
    BY <1>2, <2>1, NextFacts DEF n
  <2>5. i.dot + 1 > 1
    BY <2>4
  <2>6. Builder!Position(a, item).dot = i.dot + 1
    BY DEF Builder!Position, Builder!Item
  <2>. HIDE DEF item
  <2>. QED  BY <1>5, <2>3, <2>5, <2>6
<1>7. ASSUME NEW p \in Positions(g, next), p.dot > 1
      PROVE  p.to[p.dot - 1] = x /\ At(p, p.dot - 1) \in Positions(g, s)
  <2>1. PICK item \in itemSets[next + 1] : p = Builder!Position(a, item)
    BY <1>5
  <2>2. /\ p.from = a.rules[item.rule].from /\ p.to = a.rules[item.rule].to
        /\ p.dot = item.dot
    BY <2>1 DEF Builder!Position, Builder!Body
  <2>3. item.dot # 1
    BY <1>7, <2>2
  <2>4. item \in Builder!Advance(a, itemSets[s + 1], x)
    BY <1>3, <2>3, KernelItems
  <2>5. PICK i \in itemSets[s + 1] :
          /\ item.rule = i.rule /\ item.dot - 1 = i.dot
          /\ a.rules[i.rule].to[i.dot] = x
    <3>1. ComesFrom(a, itemSets[s + 1], x, item)
      BY <1>2, <2>4, AdvancedItems DEF n
    <3>. QED  BY <3>1, Zenon DEF ComesFrom
  <2>6. At(p, p.dot - 1) = Builder!Position(a, i)
    BY <2>2, <2>5 DEF At, Builder!Position, Builder!Body
  <2>. QED  BY <1>5, <2>2, <2>5, <2>6
<1>. QED  BY <1>1, <1>3, <1>6, <1>7 DEF Leads, next

(* What the tables say of a token in a state is what an item of the state    *)
(* asks for, whichever of a conflict it is.                                  *)
LEMMA Chosen ==
  ASSUME NEW a, NEW state, NEW token, NEW gotos, NEW chosen,
         chosen = Builder!ActionIn(Builder!Candidates(a, state, token, gotos))
  PROVE  /\ chosen.kind = "shift" =>
              token \in Builder!NextSymbols(a, state) /\ chosen.next = gotos[token]
         /\ chosen.kind = "reduce" => \E item \in state :
              /\ Builder!AtEnd(a, item) /\ a.rules[item.rule].from # a.start
              /\ chosen = Builder!Reduce(a, item.rule)
         /\ chosen.kind = "accept" => \E item \in state :
              /\ Builder!AtEnd(a, item) /\ item.follow = token
              /\ a.rules[item.rule].from = a.start
<1>. DEFINE candidates == Builder!Candidates(a, state, token, gotos)
<1>1. CASE candidates = {}
  <2>1. chosen = Builder!Reject
    BY <1>1 DEF Builder!ActionIn
  <2>. QED  BY <2>1 DEF Builder!Reject
<1>2. CASE candidates # {}
  <2>1. chosen \in candidates
    <3>. HIDE DEF candidates
    <3>. QED  BY <1>2 DEF Builder!ActionIn, candidates
  <2>2. CASE \E t \in {token} \cap Builder!NextSymbols(a, state) : chosen = Builder!Shift(gotos[t])
    BY <2>2 DEF Builder!Shift
  <2>3. CASE \E item \in {i \in state : Builder!AtEnd(a, i) /\ i.follow = token} :
               chosen = IF a.rules[item.rule].from = a.start
                        THEN Builder!Accept ELSE Builder!Reduce(a, item.rule)
    <3>1. PICK item \in state :
            /\ Builder!AtEnd(a, item) /\ item.follow = token
            /\ chosen = IF a.rules[item.rule].from = a.start
                        THEN Builder!Accept ELSE Builder!Reduce(a, item.rule)
      BY <2>3
    <3>2. CASE a.rules[item.rule].from = a.start
      BY <3>1, <3>2 DEF Builder!Accept
    <3>3. CASE a.rules[item.rule].from # a.start
      <4>1. chosen = Builder!Reduce(a, item.rule) /\ chosen.kind = "reduce"
        BY <3>1, <3>3 DEF Builder!Reduce
      <4>. QED  BY <3>1, <3>3, <4>1
    <3>. QED  BY <3>2, <3>3
  <2>. QED  BY <2>1, <2>2, <2>3 DEF Builder!Candidates
<1>. QED  BY <1>1, <1>2

-----------------------------------------------------------------------------
(* What LRParser assumes of its tables holds of all that the builder makes:  *)
(* every state it numbers is a set of places in rules that only steps by     *)
(* their symbols lead to, and every action comes from one of those places.   *)
(* The tables may have conflicts, and the sets of first tokens may be        *)
(* anything: neither is needed for the parser's stack to make sense.         *)
THEOREM BuiltTablesFit ==
  ASSUME NEW g, NEW source, NEW first, NEW itemSets, NEW gotos,
         Built(g, source, first, itemSets, gotos)
  PROVE  TablesFit(g)
<1>. DEFINE a == Builder!Augmented(source)
            n == Len(itemSets)
            last == Len(source.rules) + 1
            Goto(s, x) == Tables[g].goto[s][x]
<1>1. /\ n \in Nat /\ n >= 1
      /\ DOMAIN Tables[g].actions = 0..(n - 1)
      /\ \A s \in 0..(n - 1) :
           /\ Positions(g, s) = {Builder!Position(a, item) : item \in itemSets[s + 1]}
           /\ \A t \in Tokens :
                Tables[g].actions[s][t]
                  = Builder!ActionIn(Builder!Candidates(a, itemSets[s + 1], t, gotos[s]))
           /\ \A x \in Builder!NonTerminals(source) :
                Goto(s, x) = IF x \in Builder!NextSymbols(a, itemSets[s + 1])
                             THEN gotos[s][x] ELSE 0
  BY BuiltTables
<1>2. a = Builder!Augmented(source)
  OBVIOUS
<1>3. RulesAugmented(source, a)
  BY AugmentedRules DEF Built
<1>. HIDE DEF a, n, Goto
<1>4. \A r \in Rules[g] : r.from \in Builder!NonTerminals(source)
  BY DEF Built, Builder!NonTerminals
<1>5. a.start = Builder!NewStart /\ \A r \in 1..(last - 1) : a.rules[r].from # Builder!NewStart
  <2>1. last - 1 = Len(source.rules)
    BY <1>3 DEF RulesAugmented
  <2>. QED  BY <1>3, <2>1 DEF RulesAugmented
<1>6. 0 \in DOMAIN Tables[g].actions
  BY <1>1
<1>. SUFFICES ASSUME NEW s \in 0..(n - 1)
     PROVE  /\ \A r \in Rules[g] : Goto(s, r.from) \in 0..(n - 1)
            /\ \A p \in Positions(g, s) : PositionOK(g, s, p)
            /\ \A token \in Tokens : ActionOK(g, s, token, Tables[g].actions[s][token])
  BY <1>1, <1>6, Zenon DEF TablesFit, Goto
<1>7. s + 1 \in 1..n /\ (s + 1 = 1 <=> s = 0)
  BY <1>1
<1>8. ASSUME NEW x \in Builder!NextSymbols(a, itemSets[s + 1])
      PROVE  Leads(g, s, x, gotos[s][x]) /\ gotos[s][x] \in 0..(n - 1)
  <2>1. Leads(g, s, x, gotos[s][x])
    BY <1>2, StepLeads DEF n
  <2>. QED  BY <1>1, <2>1 DEF Leads
<1>9. ASSUME NEW r \in Rules[g] PROVE Goto(s, r.from) \in 0..(n - 1)
  <2>1. 0 \in 0..(n - 1)
    BY <1>1
  <2>. QED  BY <1>1, <1>4, <1>8, <2>1
<1>10. ASSUME NEW p \in Positions(g, s) PROVE PositionOK(g, s, p)
  <2>1. PICK item \in itemSets[s + 1] : p = Builder!Position(a, item)
    BY <1>1
  <2>2. ItemOK(g, source, a, item, p)
    BY <1>2, <1>7, <2>1, ItemFacts DEF n
  <2>3. s = 0 => item.dot = 1
    BY <1>2, <1>7, StartItems DEF n
  <2>4. ASSUME p.dot = 1, RuleOf(p) \in Rules[g]
        PROVE  Leads(g, s, p.from, Tables[g].goto[s][p.from])
    <3>1. item.dot = 1 /\ item.rule # last /\ p.from = a.rules[item.rule].from
      BY <2>2, <2>4 DEF ItemOK
    <3>2. p.from \in Builder!NextSymbols(a, itemSets[s + 1])
      BY <1>2, <1>7, <3>1, StartItems DEF n
    <3>3. p.from \in Builder!NonTerminals(source)
      BY <1>4, <2>4 DEF RuleOf
    <3>4. Goto(s, p.from) = gotos[s][p.from]
      BY <1>1, <3>2, <3>3
    <3>. QED  BY <1>8, <3>2, <3>4 DEF Goto
  <2>5. p.dot \in 1..(Len(p.to) + 1) /\ p.dot = item.dot /\ p.to \in Seq(Symbols(g))
    BY <2>2, Zenon DEF ItemOK
  <2>6. RuleOf(p) \in Rules[g] \/ p.to = <<StartSymbol[g]>>
    BY <2>2, Zenon DEF ItemOK
  <2>. QED  BY <2>3, <2>4, <2>5, <2>6, Zenon DEF PositionOK
<1>11. ASSUME NEW token \in Tokens
       PROVE  ActionOK(g, s, token, Tables[g].actions[s][token])
  <2>. DEFINE chosen == Tables[g].actions[s][token]
  <2>1. chosen = Builder!ActionIn(Builder!Candidates(a, itemSets[s + 1], token, gotos[s]))
    BY <1>1
  <2>. HIDE DEF chosen
  <2>2. ASSUME NEW item \in itemSets[s + 1], Builder!AtEnd(a, item)
        PROVE  /\ Builder!Position(a, item) \in Positions(g, s)
               /\ ItemOK(g, source, a, item, Builder!Position(a, item))
               /\ AtEnd(Builder!Position(a, item))
    <3>. DEFINE p == Builder!Position(a, item)
                len == Len(p.to)
    <3>1. ItemOK(g, source, a, item, p)
      BY <1>2, <1>7, ItemFacts DEF n
    <3>2. p \in Positions(g, s)
      BY <1>1
    <3>3. item.dot > Len(a.rules[item.rule].to)
      BY <2>2 DEF Builder!AtEnd, Builder!Body
    <3>. HIDE DEF p
    <3>4. p.dot \in 1..(len + 1) /\ p.dot > len /\ p.to \in Seq(Symbols(g))
      BY <3>1, <3>3, Zenon DEF ItemOK
    <3>5. len \in Nat
      BY <3>4
    <3>. HIDE DEF len
    <3>6. p.dot = len + 1
      BY <3>4, <3>5
    <3>. QED  BY <3>1, <3>2, <3>6 DEF p, len, AtEnd
  <2>3. ASSUME chosen.kind = "shift"
        PROVE  token # End /\ Leads(g, s, token, chosen.next)
    <3>1. token \in Builder!NextSymbols(a, itemSets[s + 1]) /\ chosen.next = gotos[s][token]
      BY <2>1, <2>3, Chosen
    <3>2. PICK item \in itemSets[s + 1] :
            ~Builder!AtEnd(a, item) /\ token = Builder!NextSymbol(a, item)
      BY <3>1 DEF Builder!NextSymbols
    <3>3. token # End
      BY <1>2, <1>7, <3>2, NextFacts DEF n
    <3>. QED  BY <1>8, <3>1, <3>3
  <2>4. ASSUME chosen.kind = "reduce"
        PROVE  \E p \in Positions(g, s) :
                 /\ AtEnd(p) /\ RuleOf(p) \in Rules[g]
                 /\ p.from = chosen.next /\ Len(p.to) = chosen.count
    <3>1. PICK item \in itemSets[s + 1] :
            /\ Builder!AtEnd(a, item) /\ a.rules[item.rule].from # a.start
            /\ chosen = Builder!Reduce(a, item.rule)
      BY <2>1, <2>4, Chosen
    <3>. DEFINE p == Builder!Position(a, item)
    <3>2. p \in Positions(g, s) /\ ItemOK(g, source, a, item, p) /\ AtEnd(p)
      BY <2>2, <3>1
    <3>3. chosen.next = a.rules[item.rule].from /\ chosen.count = Len(a.rules[item.rule].to)
      BY <3>1 DEF Builder!Reduce
    <3>. HIDE DEF p
    <3>4. p.from = chosen.next /\ Len(p.to) = chosen.count
      BY <3>2, <3>3, Zenon DEF ItemOK
    <3>5. item.rule # last
      BY <1>5, <3>1, <3>2, <3>3, <3>4 DEF ItemOK
    <3>6. RuleOf(p) \in Rules[g]
      BY <3>2, <3>5, Zenon DEF ItemOK
    <3>. QED  BY <3>2, <3>4, <3>6
  <2>5. ASSUME chosen.kind = "accept"
        PROVE  /\ token = End
               /\ \E p \in Positions(g, s) :
                    /\ AtEnd(p) /\ p.to = <<StartSymbol[g]>>
                    /\ \A t \in DOMAIN Tables[g].actions : At(p, 1) \in Positions(g, t) => t = 0
    <3>1. PICK item \in itemSets[s + 1] :
            /\ Builder!AtEnd(a, item) /\ item.follow = token
            /\ a.rules[item.rule].from = Builder!NewStart
      BY <1>5, <2>1, <2>5, Chosen
    <3>. DEFINE p == Builder!Position(a, item)
    <3>2. p \in Positions(g, s) /\ ItemOK(g, source, a, item, p) /\ AtEnd(p)
      BY <2>2, <3>1
    <3>3. item.rule = last
      <4>1. item.rule \in 1..last /\ last \in Nat
        BY <1>3, <3>2 DEF ItemOK, RulesAugmented
      <4>2. item.rule \notin 1..(last - 1)
        BY <1>5, <3>1
      <4>. HIDE DEF last
      <4>. QED  BY <4>1, <4>2
    <3>. HIDE DEF p
    <3>4. p.to = <<StartSymbol[g]>> /\ p.from = Builder!NewStart /\ p.dot = item.dot
      BY <3>2, <3>3, Zenon DEF ItemOK
    <3>5. item.dot = 2
      BY <3>2, <3>4 DEF AtEnd
    <3>6. item.follow = End
      BY <1>2, <1>7, <3>3, <3>5, StartDone DEF n
    <3>7. ASSUME NEW t \in 0..(n - 1), At(p, 1) \in Positions(g, t) PROVE t = 0
      <4>1. PICK i \in itemSets[t + 1] : At(p, 1) = Builder!Position(a, i)
        BY <1>1, <3>7
      <4>2. t + 1 \in 1..n /\ (t + 1 = 1 => t = 0)
        BY <1>1
      <4>. DEFINE q == Builder!Position(a, i)
      <4>3. ItemOK(g, source, a, i, q)
        BY <1>2, <4>2, ItemFacts DEF n
      <4>4. q.from = Builder!NewStart /\ q.dot = 1
        BY <3>4, <4>1 DEF At
      <4>. HIDE DEF q
      <4>5. i.dot = 1 /\ a.rules[i.rule].from = Builder!NewStart /\ i.rule \in 1..last
        BY <4>3, <4>4, Zenon DEF ItemOK
      <4>6. i.rule = last
        <5>1. i.rule \notin 1..(last - 1) /\ last \in Nat
          BY <1>3, <1>5, <4>5 DEF RulesAugmented
        <5>. HIDE DEF last
        <5>. QED  BY <4>5, <5>1
      <4>7. t + 1 = 1
        BY <1>2, <4>2, <4>5, <4>6, StartItems DEF n
      <4>. QED  BY <4>2, <4>7
    <3>. QED  BY <1>1, <3>1, <3>2, <3>4, <3>6, <3>7
  <2>. QED  BY <2>3, <2>4, <2>5, Zenon DEF ActionOK, chosen
<1>. QED  BY <1>9, <1>10, <1>11
=============================================================================
