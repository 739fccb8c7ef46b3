---------------------------- MODULE Lexis_proofs ----------------------------
(* Proofs about the lexer, for all characters, lexicons and texts: it stays  *)
(* inside of its text, and cuts it as MaximalMunch says, if the automata of  *)
(* the tokens are what the generator's loop takes them for.                  *)
EXTENDS Lexis, LexicalAutomatonGenerator_proofs

-----------------------------------------------------------------------------
(* Where a word leads to in an automaton. *)

NodesOf(d) == (DOMAIN d) \cup {NoNode}
NodesClosed(d) ==
  NoNode \notin DOMAIN d /\ \A n \in DOMAIN d : \A c \in Symbols : d[n].jumps[c] \in NodesOf(d)

Step(d, n, c) == IF n = NoNode THEN NoNode ELSE d[n].jumps[c]
Walks(f, d, node, word) ==
  f[0] = node /\ \A i \in 1..Len(word) : f[i] = Step(d, f[i - 1], word[i])

LEMMA WalksAgree ==
  ASSUME NEW d, NEW node, NEW word, Len(word) \in Nat, NEW f, NEW g,
         Walks(f, d, node, word), Walks(g, d, node, word)
  PROVE  \A i \in 0..Len(word) : f[i] = g[i]
<1> DEFINE n == Len(word)
           T == {i \in Nat : i <= n => f[i] = g[i]}
<1>1. 0 \in T
  BY DEF Walks
<1>2. ASSUME NEW i \in Nat, i \in T PROVE i + 1 \in T
  <2>1. CASE i + 1 <= n
    <3> DEFINE k == i + 1
    <3>1. k \in 1..n /\ k - 1 = i /\ f[i] = g[i]
      BY <1>2, <2>1
    <3> HIDE DEF k
    <3>2. f[k] = Step(d, f[k - 1], word[k]) /\ g[k] = Step(d, g[k - 1], word[k])
      BY <3>1 DEF Walks
    <3>3. f[k] = g[k]
      BY <3>1, <3>2
    <3>. QED  BY <3>3 DEF k
  <2>2. CASE ~(i + 1 <= n)
    BY <2>2
  <2>. QED  BY <2>1, <2>2
<1>3. Nat \subseteq T
  <2> HIDE DEF T
  <2>. QED  BY <1>1, <1>2, SetInduction
<1>. QED  BY <1>3

LEMMA NodeAfterIs ==
  ASSUME NEW d, NEW node, NEW word, Len(word) \in Nat, NEW f, Walks(f, d, node, word)
  PROVE  NodeAfter(d, node, word) = f[Len(word)]
<1> DEFINE n == Len(word)
           Is(g) == g = [i \in 0..n |->
                           IF i = 0 THEN node
                           ELSE IF g[i - 1] = NoNode THEN NoNode ELSE d[g[i - 1]].jumps[word[i]]]
           h == [i \in 0..n |-> f[i]]
           b == CHOOSE g : Is(g)
<1>1. Is(h)
  <2>1. ASSUME NEW i \in 0..n
        PROVE  f[i] = IF i = 0 THEN node
                      ELSE IF h[i - 1] = NoNode THEN NoNode ELSE d[h[i - 1]].jumps[word[i]]
    <3>1. CASE i = 0
      BY <3>1 DEF Walks
    <3>2. CASE i # 0
      <4>1. i \in 1..n /\ i - 1 \in 0..n
        BY <3>2
      <4>2. f[i] = Step(d, f[i - 1], word[i]) /\ h[i - 1] = f[i - 1]
        BY <4>1 DEF Walks
      <4> HIDE DEF h
      <4>. QED  BY <3>2, <4>2 DEF Step
    <3>. QED  BY <3>1, <3>2
  <2>. QED  BY <2>1
<1>2. NodeAfter(d, node, word) = b[n]
  BY Zenon DEF NodeAfter
<1>3. Is(b)
  <2> HIDE DEF Is
  <2>. QED  BY <1>1, Zenon
<1> HIDE DEF b
<1>4. Walks(b, d, node, word)
  <2>1. b[0] = node
    BY <1>3
  <2> DEFINE v(i) == IF i = 0 THEN node
                     ELSE IF b[i - 1] = NoNode THEN NoNode ELSE d[b[i - 1]].jumps[word[i]]
  <2>2. b = [i \in 0..n |-> v(i)]
    BY <1>3, Zenon
  <2>3. ASSUME NEW i \in 1..n PROVE b[i] = Step(d, b[i - 1], word[i])
    <3>1. i \in 0..n /\ i # 0
      OBVIOUS
    <3>2. b[i] = v(i)
      <4> HIDE DEF v, n, Is
      <4>. QED  BY <2>2, <3>1, Zenon
    <3>3. v(i) = Step(d, b[i - 1], word[i])
      BY <3>1, Zenon DEF Step
    <3> HIDE DEF v
    <3>. QED  BY <3>2, <3>3
  <2> HIDE DEF v, Is
  <2>. QED  BY <2>1, <2>3 DEF Walks
<1>5. b[n] = f[n]
  BY <1>4, WalksAgree
<1>. QED  BY <1>2, <1>5

LEMMA WalkExists ==
  ASSUME NEW d, NodesClosed(d), NEW node \in NodesOf(d), NEW word \in Seq(Symbols)
  PROVE  \E f \in [Nat -> NodesOf(d)] : Walks(f, d, node, word)
<1> DEFINE X == NodesOf(d)
           n == Len(word)
           step == [p \in Nat \X X |->
                      IF p[1] + 1 \in 1..n THEN Step(d, p[2], word[p[1] + 1]) ELSE p[2]]
<1>0. n \in Nat /\ \A i \in 1..n : word[i] \in Symbols
  BY DEF Symbols
<1>1. step \in [Nat \X X -> X]
  <2>1. ASSUME NEW p \in Nat \X X, p[1] + 1 \in 1..n
        PROVE  Step(d, p[2], word[p[1] + 1]) \in X
    <3> DEFINE c == word[p[1] + 1]
    <3>1. p[2] \in X /\ c \in Symbols
      BY <1>0, <2>1
    <3> HIDE DEF c
    <3>2. Step(d, p[2], c) \in X
      BY <3>1 DEF Step, NodesClosed, NodesOf
    <3>. QED  BY <3>2 DEF c
  <2> HIDE DEF X
  <2>. QED  BY <2>1
<1>2. PICK f : Iterates(f, X, node, step)
  <2> HIDE DEF step, X
  <2>1. node \in X
    BY DEF X
  <2>. QED  BY <1>1, <2>1, Iterate
<1>3. f \in [Nat -> X] /\ f[0] = node /\ \A i \in Nat : f[i + 1] = step[<<i, f[i]>>]
  BY <1>2, Zenon DEF Iterates
<1>4. ASSUME NEW i \in 1..n PROVE f[i] = Step(d, f[i - 1], word[i])
  <2> DEFINE j == i - 1
  <2>1. j \in Nat /\ j + 1 = i /\ f[j] \in X
    BY <1>0, <1>3
  <2> HIDE DEF j
  <2>2. f[i] = step[<<j, f[j]>>]
    BY <1>3, <2>1
  <2>. QED  BY <2>1, <2>2 DEF j
<1>. QED  BY <1>3, <1>4 DEF Walks

LEMMA NodeAfterType ==
  ASSUME NEW d, NodesClosed(d), NEW node \in NodesOf(d), NEW word \in Seq(Symbols)
  PROVE  NodeAfter(d, node, word) \in NodesOf(d)
<1>1. Len(word) \in Nat
  BY DEF Symbols
<1>2. PICK f \in [Nat -> NodesOf(d)] : Walks(f, d, node, word)
  BY WalkExists
<1>. QED  BY <1>1, <1>2, NodeAfterIs

LEMMA NodeAfterEmpty ==
  ASSUME NEW d, NEW node
  PROVE  NodeAfter(d, node, <<>>) = node
<1> DEFINE f == [i \in Nat |-> node]
           w == <<>>
<1>1. Len(w) = 0 /\ f[0] = node
  OBVIOUS
<1> HIDE DEF w, f
<1>2. Walks(f, d, node, w)
  BY <1>1 DEF Walks
<1>3. NodeAfter(d, node, w) = node
  BY <1>1, <1>2, NodeAfterIs
<1>. QED  BY <1>3 DEF w

(* A word and then another is as good as both in one.                        *)
LEMMA NodeAfterBoth ==
  ASSUME NEW d, NodesClosed(d), NEW node \in NodesOf(d),
         NEW w \in Seq(Symbols), NEW v \in Seq(Symbols)
  PROVE  NodeAfter(d, node, w \o v) = NodeAfter(d, NodeAfter(d, node, w), v)
<1> DEFINE both == w \o v
           n == Len(w)
           m == Len(v)
           middle == NodeAfter(d, node, w)
<1>0. /\ n \in Nat /\ m \in Nat /\ Len(both) = n + m
      /\ \A i \in 1..n : both[i] = w[i]
      /\ \A i \in 1..m : both[n + i] = v[i]
  <2> DEFINE S == Symbols
  <2>1. w \in Seq(S) /\ v \in Seq(S)
    OBVIOUS
  <2> HIDE DEF S
  <2>2. n \in Nat /\ m \in Nat /\ Len(both) = n + m
    BY <2>1
  <2>3. \A i \in 1..n : both[i] = w[i]
    BY <2>1
  <2>4. \A i \in 1..m : both[n + i] = v[i]
    BY <2>1
  <2>. QED  BY <2>2, <2>3, <2>4
<1>1. PICK f \in [Nat -> NodesOf(d)] : Walks(f, d, node, w)
  BY WalkExists
<1>2. middle = f[n] /\ middle \in NodesOf(d)
  BY <1>0, <1>1, NodeAfterIs
<1> HIDE DEF middle
<1>3. PICK g \in [Nat -> NodesOf(d)] : Walks(g, d, middle, v)
  BY <1>2, WalkExists
<1> DEFINE h == [i \in Nat |-> IF i <= n THEN f[i] ELSE g[i - n]]
<1>4. h[0] = node /\ h[n + m] = g[m]
  <2>1. f[0] = node /\ g[0] = f[n]
    BY <1>1, <1>2, <1>3 DEF Walks
  <2>2. n \in Nat /\ m \in Nat
    BY <1>0
  <2> HIDE DEF n, m
  <2>3. h[0] = node
    BY <2>1, <2>2
  <2>4. CASE m = 0
    BY <2>1, <2>2, <2>4
  <2>5. CASE m # 0
    <3>1. n + m \in Nat /\ ~(n + m <= n) /\ (n + m) - n = m
      BY <2>2, <2>5
    <3>. QED  BY <2>3, <3>1
  <2>. QED  BY <2>3, <2>4, <2>5
<1>5. ASSUME NEW i \in 1..(n + m) PROVE h[i] = Step(d, h[i - 1], both[i])
  <2>1. CASE i <= n
    <3>1. i \in 1..n /\ h[i] = f[i] /\ h[i - 1] = f[i - 1]
      BY <1>0, <2>1
    <3>. QED  BY <1>0, <1>1, <3>1 DEF Walks
  <2>2. CASE i > n
    <3> DEFINE j == i - n
    <3>1. j \in 1..m /\ n + j = i /\ h[i] = g[j]
      BY <1>0, <2>2
    <3>2. h[i - 1] = g[j - 1]
      <4>1. CASE i - 1 > n
        BY <1>0, <4>1
      <4>2. CASE i - 1 = n
        BY <1>0, <1>2, <1>3, <4>2 DEF Walks
      <4>. QED  BY <1>0, <2>2, <4>1, <4>2
    <3> HIDE DEF j, h
    <3>3. g[j] = Step(d, g[j - 1], v[j])
      BY <1>3, <3>1 DEF Walks
    <3>4. both[i] = v[j]
      BY <1>0, <3>1
    <3>. QED  BY <3>1, <3>2, <3>3, <3>4
  <2>. QED  BY <1>0, <2>1, <2>2
<1> HIDE DEF h, both
<1>6. Walks(h, d, node, both) /\ Len(both) \in Nat
  BY <1>0, <1>4, <1>5 DEF Walks
<1>7. NodeAfter(d, node, both) = g[m]
  <2>1. NodeAfter(d, node, both) = h[Len(both)]
    BY <1>6, NodeAfterIs
  <2>2. Len(both) = n + m
    BY <1>0 DEF both
  <2>. QED  BY <1>4, <2>1, <2>2
<1>8. NodeAfter(d, middle, v) = g[m]
  BY <1>0, <1>3, NodeAfterIs
<1>. QED  BY <1>7, <1>8 DEF both, middle

LEMMA NodeAfterOne ==
  ASSUME NEW d, NodesClosed(d), NEW node \in NodesOf(d), NEW c \in Symbols
  PROVE  NodeAfter(d, node, <<c>>) = Step(d, node, c)
<1> DEFINE w == <<c>>
           f == [i \in Nat |-> IF i = 0 THEN node ELSE Step(d, node, c)]
<1>1. Len(w) = 1 /\ w[1] = c /\ f[0] = node /\ f[1] = Step(d, node, c)
  OBVIOUS
<1> HIDE DEF w, f
<1>2. Walks(f, d, node, w)
  <2>1. \A i \in 1..Len(w) : i = 1 /\ i - 1 = 0
    BY <1>1
  <2>. QED  BY <1>1, <2>1 DEF Walks
<1>3. NodeAfter(d, node, w) = f[1]
  <2>0. Len(w) \in Nat
    BY <1>1
  <2>1. NodeAfter(d, node, w) = f[Len(w)]
    BY <1>2, <2>0, NodeAfterIs
  <2>. QED  BY <1>1, <2>1
<1>. QED  BY <1>1, <1>3 DEF w

LEMMA NodeAfterAppend ==
  ASSUME NEW d, NodesClosed(d), NEW node \in NodesOf(d),
         NEW w \in Seq(Symbols), NEW c \in Symbols
  PROVE  NodeAfter(d, node, Append(w, c)) = Step(d, NodeAfter(d, node, w), c)
<1>1. Append(w, c) = w \o <<c>> /\ <<c>> \in Seq(Symbols)
  <2> DEFINE S == Symbols
  <2>1. w \in Seq(S) /\ c \in S
    OBVIOUS
  <2> HIDE DEF S
  <2>2. Append(w, c) = w \o <<c>> /\ <<c>> \in Seq(S)
    BY <2>1
  <2>. QED  BY <2>2 DEF S
<1>2. NodeAfter(d, node, w) \in NodesOf(d)
  BY NodeAfterType
<1>3. NodeAfter(d, node, w \o <<c>>) = NodeAfter(d, NodeAfter(d, node, w), <<c>>)
  BY <1>1, NodeAfterBoth
<1>. QED  BY <1>1, <1>2, <1>3, NodeAfterOne

LEMMA NodeAfterNone ==
  ASSUME NEW d, NEW w \in Seq(Symbols)
  PROVE  NodeAfter(d, NoNode, w) = NoNode
<1> DEFINE f == [i \in Nat |-> NoNode]
<1>1. Len(w) \in Nat
  BY DEF Symbols
<1>2. Walks(f, d, NoNode, w)
  BY <1>1 DEF Walks, Step
<1>3. f[Len(w)] = NoNode
  BY <1>1
<1> HIDE DEF f
<1>. QED  BY <1>1, <1>2, <1>3, NodeAfterIs

-----------------------------------------------------------------------------
(* The states of the merged automaton are what words lead to in those of the *)
(* tokens.                                                                   *)

Reached(word) == [t \in DOMAIN automata |-> NodeAfter(automata[t], 0, word)]

LEMMA ClosedNodes ==
  ASSUME Closed, NEW t \in DOMAIN automata
  PROVE  NodesClosed(automata[t]) /\ 0 \in NodesOf(automata[t])
BY DEF Closed, NodesClosed, NodesOf

LEMMA ReachedIs ==
  ASSUME Closed, NEW w \in Seq(Symbols)
  PROVE  /\ Reached(w) \in Mappings
         /\ \A c \in Symbols : Target(Reached(w), c) = Reached(Append(w, c))
         /\ \A t \in DOMAIN automata : Reached(w)[t] = NodeAfter(automata[t], 0, w)
<1>1. ASSUME NEW t \in DOMAIN automata
      PROVE  NodeAfter(automata[t], 0, w) \in {NoNode} \cup DOMAIN automata[t]
  BY ClosedNodes, NodeAfterType DEF NodesOf
<1>2. Reached(w) \in Mappings
  <2>1. ASSUME NEW t \in DOMAIN automata PROVE NodeAfter(automata[t], 0, w) \in AllNodes
    <3>1. CASE NodeAfter(automata[t], 0, w) \in DOMAIN automata[t]
      BY <3>1, Zenon DEF AllNodes
    <3>2. CASE NodeAfter(automata[t], 0, w) = NoNode
      <4>1. NoNode \in AllNodes
        BY DEF AllNodes
      <4>. QED  BY <3>2, <4>1
    <3>. QED  BY <1>1, <3>1, <3>2
  <2>. QED  BY <1>1, <2>1 DEF Reached, Mappings
<1>3. ASSUME NEW c \in Symbols PROVE Target(Reached(w), c) = Reached(Append(w, c))
  <2>1. ASSUME NEW t \in DOMAIN automata
        PROVE  NodeAfter(automata[t], 0, Append(w, c)) = Step(automata[t], NodeAfter(automata[t], 0, w), c)
    BY ClosedNodes, NodeAfterAppend
  <2>2. Target(Reached(w), c)
          = [t \in DOMAIN automata |-> Step(automata[t], NodeAfter(automata[t], 0, w), c)]
    BY DEF Target, Reached, Step
  <2>. QED  BY <2>1, <2>2 DEF Reached
<1>. QED  BY <1>2, <1>3 DEF Reached

LEMMA ReachedEmpty == Reached(<<>>) = FirstMapping
BY NodeAfterEmpty DEF Reached, FirstMapping

(* No symbol leads anywhere from nowhere.                                    *)
LEMMA TargetOfNone ==
  ASSUME NEW m, NoTarget(m), NEW c
  PROVE  NoTarget(Target(m, c))
BY DEF NoTarget, Target

(* What the proofs say of the automata only changes with them.               *)
LEMMA SameAutomata ==
  ASSUME automata' = automata, lexicon' = lexicon
  PROVE  /\ Closed => Closed'
         /\ \A m : FinalTokens(m)' = FinalTokens(m)
         /\ \A m, c : Target(m, c)' = Target(m, c)
         /\ \A m : Overlap(m)' <=> Overlap(m)
         /\ Mappings' = Mappings /\ FirstMapping' = FirstMapping
         /\ Startable' <=> Startable
         /\ \A w : Reached(w)' = Reached(w)
<1>1. Closed => Closed'
  BY DEF Closed
<1>2. \A m : FinalTokens(m)' = FinalTokens(m)
  BY DEF FinalTokens
<1>3. \A m, c : Target(m, c)' = Target(m, c)
  BY DEF Target
<1>4. \A m : Overlap(m)' <=> Overlap(m)
  BY DEF Overlap, FinalTokens
<1>5. Mappings' = Mappings /\ FirstMapping' = FirstMapping
  BY DEF Mappings, AllNodes, FirstMapping
<1>6. Startable' <=> Startable
  BY DEF Startable, Target, FirstMapping, NoTarget
<1>7. \A w : Reached(w)' = Reached(w)
  BY DEF Reached
<1>. QED  BY <1>1, <1>2, <1>3, <1>4, <1>5, <1>6, <1>7

LEMMA SameMerging ==
  ASSUME automata' = automata, lexicon' = lexicon, Merging(newStates', jumps', waiting')
  PROVE  Merging(newStates, jumps, waiting)'
<1>1. /\ (newStates \in Seq(Mappings))' /\ (newStates[1] = FirstMapping)'
      /\ (jumps \in Seq([Symbols -> Jumps]) /\ waiting \in Seq(Nat))'
      /\ (Len(newStates) = Len(jumps) /\ Len(newStates) >= 1)'
      /\ (\A i \in 1..Len(waiting) : waiting[i] < Len(newStates))'
  BY SameAutomata DEF Merging
<1>2. ASSUME NEW k \in 1..Len(newStates'), RowIs(jumps'[k], newStates'[k], newStates')
      PROVE  RowIs(jumps[k], newStates[k], newStates)'
  BY <1>2 DEF RowIs, EndOf, FinalTokens, Target, NoTarget
<1>3. ASSUME NEW k \in 1..Len(newStates'), ~Overlap(newStates'[k])
      PROVE  (~Overlap(newStates[k]))'
  BY <1>3 DEF Overlap, FinalTokens
<1>4. ASSUME NEW k \in 1..Len(newStates')
      PROVE  \/ (jumps[k] = NoJumps /\ \E i \in 1..Len(waiting) : waiting[i] = k - 1)'
             \/ (RowIs(jumps[k], newStates[k], newStates) /\ ~Overlap(newStates[k]))'
  <2>1. \/ jumps'[k] = NoJumps /\ \E i \in 1..Len(waiting') : waiting'[i] = k - 1
        \/ RowIs(jumps'[k], newStates'[k], newStates') /\ ~Overlap(newStates'[k])
    BY DEF Merging
  <2>. QED  BY <1>2, <1>3, <2>1
<1>. QED  BY <1>1, <1>4 DEF Merging

LEMMA SameLabelled ==
  ASSUME automata' = automata, lexicon' = lexicon
  PROVE  \A rows, label : Labelled(rows, label)' <=> Labelled(rows, label)
BY DEF Labelled, JumpIs, EndOf, Startable, FinalTokens, Target, NoTarget, Mappings, AllNodes, FirstMapping, Overlap

LEMMA SameTable ==
  ASSUME automata' = automata, lexicon' = lexicon, \E label : Labelled(jumps', label)
  PROVE  (\E label : Labelled(jumps, label))'
<1>1. PICK label : Labelled(jumps', label)
  OBVIOUS
<1>2. PICK rows : rows = jumps'
  OBVIOUS
<1>3. Labelled(rows, label)'
  BY <1>1, <1>2, SameLabelled
<1>4. (Labelled(jumps, label))'
  BY <1>2, <1>3 DEF Labelled
<1>. QED  BY <1>4

-----------------------------------------------------------------------------
(* Every word leads to a state of the merged automaton, and every state is   *)
(* what some word leads to.                                                  *)

LEMMA LastOfWord ==
  ASSUME NEW S, NEW w \in Seq(S), NEW n \in Nat, Len(w) = n + 1
  PROVE  \E v \in Seq(S) : \E c \in S : w = Append(v, c) /\ Len(v) = n
<1>1. SubSeq(w, 1, n) \in Seq(S) /\ Len(SubSeq(w, 1, n)) = n
  OBVIOUS
<1>2. \A i \in 1..n : SubSeq(w, 1, n)[i] = w[i]
  OBVIOUS
<1>3. w[n + 1] \in S
  OBVIOUS
<1> DEFINE v == SubSeq(w, 1, n)
           c == w[n + 1]
<1> HIDE DEF v, c
<1>4. v \in Seq(S) /\ Len(v) = n /\ c \in S /\ c = w[n + 1] /\ \A i \in 1..n : v[i] = w[i]
  BY <1>1, <1>2, <1>3 DEF v, c
<1>5. w = Append(v, c)
  BY <1>4
<1>. QED  BY <1>4, <1>5

LEMMA WordsReached ==
  ASSUME CharactersAssumption, Closed, NEW states, NEW rows, Merging(states, rows, <<>>)
  PROVE  \A w \in Seq(Symbols) :
           \/ NoTarget(Reached(w))
           \/ \E k \in 1..Len(states) : states[k] = Reached(w) /\ ~Overlap(states[k])
<1> DEFINE Known(w) == \/ NoTarget(Reached(w))
                       \/ \E k \in 1..Len(states) : states[k] = Reached(w) /\ ~Overlap(states[k])
           T == {n \in Nat : \A w \in Seq(Symbols) : Len(w) = n => Known(w)}
<1>0. /\ states[1] = FirstMapping /\ 1 \in 1..Len(states)
      /\ \A k \in 1..Len(states) : RowIs(rows[k], states[k], states) /\ ~Overlap(states[k])
  <2>1. Len(<<>>) = 0
    OBVIOUS
  <2>2. Len(states) \in Nat
    BY DEF Merging
  <2>. QED  BY <2>1, <2>2 DEF Merging
<1>1. 0 \in T
  <2>1. ASSUME NEW w \in Seq(Symbols), Len(w) = 0 PROVE Known(w)
    <3> DEFINE S == Symbols
    <3>1. w \in Seq(S) /\ Len(w) = 0
      BY <2>1
    <3> HIDE DEF S
    <3>2. w = <<>>
      BY <3>1
    <3>3. Reached(w) = FirstMapping
      BY <3>2, ReachedEmpty
    <3>. QED  BY <1>0, <3>3
  <2> HIDE DEF Known
  <2>. QED  BY <2>1
<1>2. ASSUME NEW n \in Nat, n \in T PROVE n + 1 \in T
  <2>1. ASSUME NEW w \in Seq(Symbols), Len(w) = n + 1 PROVE Known(w)
    <3>1. PICK v \in Seq(Symbols) : \E c \in Symbols : w = Append(v, c) /\ Len(v) = n
      BY <2>1, LastOfWord
    <3>2. PICK c \in Symbols : w = Append(v, c)
      BY <3>1
    <3>3. Known(v)
      <4> HIDE DEF Known
      <4>. QED  BY <1>2, <3>1
    <3>4. Reached(w) = Target(Reached(v), c)
      BY <3>2, ReachedIs
    <3>5. CASE NoTarget(Reached(v))
      BY <3>4, <3>5, TargetOfNone
    <3>6. CASE ~NoTarget(Reached(v))
      <4>1. PICK k \in 1..Len(states) : states[k] = Reached(v)
        BY <3>3, <3>6
      <4>2. RowIs(rows[k], Reached(v), states)
        BY <1>0, <4>1
      <4>3. ~NoTarget(Target(Reached(v), c)) =>
              \E s \in 1..Len(states) : states[s] = Target(Reached(v), c)
        BY <4>2 DEF RowIs
      <4>. QED  BY <1>0, <3>4, <4>3
    <3>. QED  BY <3>5, <3>6
  <2> HIDE DEF Known
  <2>. QED  BY <1>2, <2>1
<1>3. Nat \subseteq T
  <2> HIDE DEF T
  <2>. QED  BY <1>1, <1>2, SetInduction
<1>4. ASSUME NEW w \in Seq(Symbols) PROVE Known(w)
  <2>1. Len(w) \in Nat
    BY DEF Symbols
  <2>. QED  BY <1>3, <2>1
<1>. QED  BY <1>4

LEMMA NoneOverlaps ==
  ASSUME CharactersAssumption, Closed, NEW states, NEW rows, Merging(states, rows, <<>>)
  PROVE  \A w \in Seq(Symbols) : ~Overlap(Reached(w))
<1>1. ASSUME NEW w \in Seq(Symbols), NoTarget(Reached(w)) PROVE ~Overlap(Reached(w))
  <2>1. Reached(w) \in Mappings
    BY ReachedIs
  <2>2. FinalTokens(Reached(w)) = {}
    BY <1>1, <2>1, FinalTokensType
  <2>. QED  BY <2>2 DEF Overlap
<1>. QED  BY <1>1, WordsReached

-----------------------------------------------------------------------------
(* The invariant of the generator.                                           *)

Merged == {"merge", "overlap", "compacted", "saved"}

(* Some token has a first symbol, and none is empty. *)
AutomataReady ==
  /\ \A t \in DOMAIN automata : ~automata[t][0].is_final
  /\ \E t \in DOMAIN automata : \E c \in Symbols : automata[t][0].jumps[c] # NoNode

(* The expressions that texts are parsed to. *)
Parsed ==
  {node \in UNION {{RegexOf(Replaced(l[t].text)) : t \in DOMAIN l} : l \in Lexicons} :
     node \notin {Invalid, Undefined}}

GeneratorTypes ==
  /\ lexicon \in Lexicons
  /\ phase \in {"regexes", "expressions", "deterministic", "minimal", "merge", "compacted", "saved",
                "undefined", "invalid", "overlap"}
  /\ phase # "regexes" => DOMAIN regexes = DOMAIN lexicon
  /\ phase \notin {"regexes", "undefined", "invalid"} => \A t \in DOMAIN regexes : regexes[t] \in Parsed
  /\ phase \in {"deterministic", "minimal"} \cup Merged => DOMAIN automata = DOMAIN lexicon
  /\ phase \notin {"merge", "overlap", "compacted"} => jumps = <<>>
  /\ phase \notin {"merge", "overlap"} => waiting = <<>>

AutomataKept ==
  phase \in Merged => Closed /\ (FirstSources(lexicon) # {} => AutomataReady)

TableMade ==
  /\ phase \in {"merge", "overlap"} => Merging(newStates, jumps, waiting)
  /\ phase = "compacted" => \E label : Labelled(jumps, label)
  /\ phase = "saved" => \E rows : file = Serialized(rows) /\ \E label : Labelled(rows, label)

StatesReached ==
  /\ phase \in {"merge", "overlap"} =>
       \A k \in 1..Len(newStates) : \E w \in Seq(Symbols) : newStates[k] = Reached(w)
  /\ phase = "overlap" => \E w \in Seq(Symbols) : Overlap(Reached(w))
  /\ phase \in {"compacted", "saved"} => \A w \in Seq(Symbols) : ~Overlap(Reached(w))

GeneratorInv == GeneratorTypes /\ AutomataKept /\ TableMade /\ StatesReached

LEMMA GeneratorStart == Init => GeneratorInv
BY DEF Init, GeneratorInit, GeneratorInv, GeneratorTypes, AutomataKept, TableMade, StatesReached,
       Merged

(* What the run checks of the automata is what the loop needs.               *)
LEMMA SoundIsClosed ==
  lexicon \in Lexicons /\ AutomataSound /\ phase = "merge" /\ DOMAIN automata = DOMAIN lexicon
    => Closed /\ (FirstSources(lexicon) # {} => AutomataReady)
<1> SUFFICES ASSUME lexicon \in Lexicons, AutomataSound, phase = "merge",
                    DOMAIN automata = DOMAIN lexicon
             PROVE  Closed /\ (FirstSources(lexicon) # {} => AutomataReady)
  OBVIOUS
<1>1. \E n \in Nat : DOMAIN automata = 1..n
  <2>1. lexicon \in Seq(ToSet(lexicon))
    BY LexiconsAssumption
  <2> DEFINE S == ToSet(lexicon)
  <2> HIDE DEF S
  <2>2. lexicon \in Seq(S)
    BY <2>1 DEF S
  <2>3. Len(lexicon) \in Nat /\ DOMAIN lexicon = 1..Len(lexicon)
    BY <2>2
  <2>. QED  BY <2>3
<1>. QED  BY <1>1 DEF AutomataSound, Closed, AutomataReady

(* Nothing changes in the generator once the automata are merged.            *)
LEMMA GeneratorRests ==
  ASSUME GeneratorInv, UNCHANGED generatorVars
  PROVE  GeneratorInv'
<1> USE DEF generatorVars
<1>1. GeneratorTypes'
  BY DEF GeneratorInv, GeneratorTypes, Merged
<1>2. AutomataKept'
  BY SameAutomata DEF GeneratorInv, AutomataKept, AutomataReady, Merged
<1>3. TableMade'
  <2>1. phase' \in {"merge", "overlap"} => Merging(newStates, jumps, waiting)'
    BY SameMerging DEF GeneratorInv, TableMade
  <2>2. phase' = "compacted" => (\E label : Labelled(jumps, label))'
    BY SameTable DEF GeneratorInv, TableMade
  <2>3. phase' = "saved" => (\E rows : file = Serialized(rows) /\ \E label : Labelled(rows, label))'
    <3>1. ASSUME phase' = "saved"
          PROVE  \E rows : file' = Serialized(rows) /\ \E label : Labelled(rows, label)'
      <4>1. PICK rows : file = Serialized(rows) /\ \E label : Labelled(rows, label)
        BY <3>1 DEF GeneratorInv, TableMade
      <4>2. \E label : Labelled(rows, label)'
        BY <4>1, SameLabelled
      <4>. QED  BY <4>1, <4>2
    <3>. QED  BY <3>1
  <2>. QED  BY <2>1, <2>2, <2>3 DEF TableMade
<1>4. StatesReached'
  BY SameAutomata DEF GeneratorInv, StatesReached
<1>. QED  BY <1>1, <1>2, <1>3, <1>4 DEF GeneratorInv

LEMMA GeneratorStep ==
  ASSUME GeneratorInv, AutomataSound', GeneratorNext
  PROVE  GeneratorInv'
<1> USE CharactersAssumption
<1>0. GeneratorTypes /\ AutomataKept /\ TableMade /\ StatesReached
  BY DEF GeneratorInv
<1>1. CASE ParseRegexes
  <2>0. ASSUME phase' = "expressions" PROVE \A t \in DOMAIN regexes' : regexes'[t] \in Parsed
    <3> DEFINE nodes == [t \in DOMAIN lexicon |-> RegexOf(Replaced(lexicon[t].text))]
    <3>1. regexes' = nodes /\ Undefined \notin ToSet(nodes) /\ Invalid \notin ToSet(nodes)
      BY <1>1, <2>0 DEF ParseRegexes
    <3>2. ASSUME NEW t \in DOMAIN lexicon PROVE nodes[t] \in Parsed
      <4>1. nodes[t] \in ToSet(nodes)
        BY DEF ToSet
      <4>2. nodes[t] = RegexOf(Replaced(lexicon[t].text)) /\ lexicon \in Lexicons
        BY <1>0 DEF GeneratorTypes
      <4>3. nodes[t] \notin {Invalid, Undefined}
        <5> HIDE DEF nodes
        <5>. QED  BY <3>1, <4>1
      <4> HIDE DEF nodes
      <4> DEFINE Of(l) == {RegexOf(Replaced(l[u].text)) : u \in DOMAIN l}
      <4>4. nodes[t] \in Of(lexicon)
        BY <4>2
      <4>5. Of(lexicon) \in {Of(l) : l \in Lexicons}
        BY <4>2
      <4>6. nodes[t] \in UNION {Of(l) : l \in Lexicons}
        BY <4>4, <4>5, Zenon
      <4>. QED  BY <4>3, <4>6, Zenon DEF Parsed
    <3>. QED  BY <3>1, <3>2
  <2>a. regexes' = [t \in DOMAIN lexicon |-> RegexOf(Replaced(lexicon[t].text))]
        /\ phase' \in {"undefined", "invalid", "expressions"}
    BY <1>1 DEF ParseRegexes
  <2>1. GeneratorTypes'
    BY <1>0, <1>1, <2>0, <2>a DEF GeneratorTypes, ParseRegexes, Merged
  <2>2. phase' \notin Merged
    BY <1>1 DEF ParseRegexes, Merged
  <2>. QED  BY <2>1, <2>2 DEF GeneratorInv, AutomataKept, TableMade, StatesReached, Merged
<1>2. CASE BuildDeterministic \/ Minimise
  <2>1. GeneratorTypes'
    BY <1>0, <1>2 DEF GeneratorTypes, BuildDeterministic, Minimise, Merged
  <2>2. phase' \notin Merged
    BY <1>2 DEF BuildDeterministic, Minimise, Merged
  <2>. QED  BY <2>1, <2>2 DEF GeneratorInv, AutomataKept, TableMade, StatesReached, Merged
<1>3. CASE RemoveDeadEnds
  <2>1. GeneratorTypes'
    BY <1>0, <1>3 DEF GeneratorTypes, RemoveDeadEnds, Merged
  <2>2. phase' = "merge" /\ (lexicon \in Lexicons)' /\ (DOMAIN automata = DOMAIN lexicon)'
    BY <2>1, <1>3 DEF GeneratorTypes, RemoveDeadEnds, Merged
  <2>3. Closed' /\ (FirstSources(lexicon) # {} => AutomataReady)'
    <3>1. (lexicon \in Lexicons /\ AutomataSound /\ phase = "merge"
             /\ DOMAIN automata = DOMAIN lexicon)'
      BY <2>2
    <3>2. (Closed /\ (FirstSources(lexicon) # {} => AutomataReady))'
      BY <3>1, SoundIsClosed, PTL
    <3>. QED  BY <3>2
  <2>4. Merging(<<FirstMapping>>, <<NoJumps>>, <<0>>)'
    BY <2>3, MergeStart, PTL
  <2>5. newStates' = <<FirstMapping'>> /\ jumps' = <<NoJumps>> /\ waiting' = <<0>>
    BY <1>3 DEF RemoveDeadEnds, FirstMapping
  <2>6. NoJumps' = NoJumps
    BY DEF NoJumps
  <2>7. Merging(newStates, jumps, waiting)'
    BY <2>4, <2>5, <2>6
  <2>8. (Reached(<<>>) = FirstMapping)'
    BY ReachedEmpty, PTL
  <2>9. \A k \in 1..Len(newStates') : \E w \in Seq(Symbols) : newStates'[k] = Reached(w)'
    <3>1. \A k \in 1..Len(newStates') : newStates'[k] = FirstMapping'
      BY <2>5
    <3>2. <<>> \in Seq(Symbols)
      OBVIOUS
    <3>. QED  BY <2>8, <3>1, <3>2
  <2>. QED  BY <2>1, <2>2, <2>3, <2>7, <2>9
            DEF GeneratorInv, AutomataKept, TableMade, StatesReached
(* The loop and what follows it leave the automata. *)
<1>4. ASSUME automata' = automata, lexicon' = lexicon, regexes' = regexes, phase \in Merged
      PROVE  AutomataKept' /\ Closed
  BY <1>0, <1>4, SameAutomata DEF AutomataKept, AutomataReady
<1>5. CASE MergeThrows \/ MergeNext
  <2> DEFINE index == Last(waiting)
             at == index + 1
             m == newStates[at]
  <2>1. /\ phase = "merge" /\ waiting # <<>>
        /\ automata' = automata /\ lexicon' = lexicon /\ regexes' = regexes /\ file' = file
    BY <1>5 DEF MergeThrows, MergeNext
  <2>2. Closed /\ AutomataKept' /\ Merging(newStates, jumps, waiting)
    BY <1>0, <1>4, <2>1 DEF TableMade, Merged
  <2>3. /\ newStates \in Seq(Mappings) /\ Len(newStates) \in Nat
        /\ at \in 1..Len(newStates) /\ m \in Mappings
    <3>1. newStates \in Seq(Mappings) /\ Len(newStates) \in Nat /\ waiting \in Seq(Nat)
      BY <2>2 DEF Merging
    <3>2. Len(waiting) \in Nat /\ Len(waiting) >= 1
      BY <2>1, <3>1
    <3>3. waiting[Len(waiting)] \in Nat /\ waiting[Len(waiting)] < Len(newStates)
      BY <2>2, <3>1, <3>2 DEF Merging
    <3>4. at \in 1..Len(newStates)
      BY <3>1, <3>3 DEF Last
    <3> HIDE DEF at
    <3>5. m \in Mappings
      BY <3>1, <3>4
    <3>. QED  BY <3>1, <3>4, <3>5
  <2>4. PICK w \in Seq(Symbols) : m = Reached(w)
    BY <1>0, <2>1, <2>3 DEF StatesReached
  <2>5. CASE MergeThrows
    <3>1. ~Unrecognizable(m)
      <4>1. Eof \in Symbols /\ NoTarget(Target(m, Eof))
        BY <2>2, <2>3, TargetType, CharactersType
      <4>. QED  BY <4>1 DEF Unrecognizable
    <3>2. /\ Overlap(m) /\ phase' = "overlap"
          /\ newStates' = newStates /\ jumps' = jumps /\ waiting' = waiting
      BY <2>5, <3>1 DEF MergeThrows
    <3>3. GeneratorTypes'
      BY <1>0, <2>1, <3>2 DEF GeneratorTypes, Merged
    <3>4. TableMade'
      <4>1. Merging(newStates, jumps, waiting)'
        BY <2>1, <2>2, <3>2, SameMerging
      <4>. QED  BY <3>2, <4>1 DEF TableMade
    <3>5. StatesReached'
      <4>1. \A k \in 1..Len(newStates) : \E v \in Seq(Symbols) : newStates[k] = Reached(v)
        BY <1>0, <2>1 DEF StatesReached
      <4>2. \A v : Reached(v)' = Reached(v)
        BY <2>1, SameAutomata
      <4>3. Overlap(Reached(w))'
        <5>1. Overlap(Reached(w))
          BY <2>4, <3>2
        <5>2. PICK r : r = Reached(w)
          OBVIOUS
        <5>3. Overlap(r)'
          BY <2>1, <5>1, <5>2, SameAutomata
        <5>. QED  BY <4>2, <5>2, <5>3
      <4>. QED  BY <3>2, <4>1, <4>2, <4>3 DEF StatesReached
    <3>. QED  BY <2>2, <3>3, <3>4, <3>5 DEF GeneratorInv
  <2>6. CASE MergeNext
    <3>1. /\ ~Overlap(m) /\ phase' = phase
          /\ newStates' = Discovered(m)
          /\ jumps' = Turned(m, at) /\ waiting' = Queued(Discovered(m))
      BY <2>6 DEF MergeNext, Turned, Queued
    <3>2. GeneratorTypes'
      BY <1>0, <2>1, <3>1 DEF GeneratorTypes, Merged
    <3>3. Merging(Discovered(m), Turned(m, at), Queued(Discovered(m)))
      BY <2>1, <2>2, <3>1, MergeTurn
    <3>4. TableMade'
      <4>1. Merging(newStates', jumps', waiting')
        BY <3>1, <3>3
      <4>2. Merging(newStates, jumps, waiting)'
        BY <2>1, <4>1, SameMerging
      <4>. QED  BY <2>1, <3>1, <4>2 DEF TableMade
    <3>5. ASSUME NEW k \in 1..Len(Discovered(m))
          PROVE  \E v \in Seq(Symbols) : Discovered(m)[k] = Reached(v)
      <4>0. /\ Len(Discovered(m)) \in Nat
            /\ \A i \in 1..Len(newStates) : Discovered(m)[i] = newStates[i]
            /\ \A i \in 1..Len(Discovered(m)) :
                 i > Len(newStates) => \E c \in Symbols : Discovered(m)[i] = Target(m, c)
        BY <2>2, <2>3, DiscoveredIs
      <4>1. CASE k <= Len(newStates)
        <5>1. k \in 1..Len(newStates)
          BY <2>3, <4>0, <4>1
        <5>. QED  BY <1>0, <2>1, <4>0, <5>1 DEF StatesReached
      <4>2. CASE k > Len(newStates)
        <5>1. PICK c \in Symbols : Discovered(m)[k] = Target(m, c)
          BY <4>0, <4>2
        <5>2. Target(m, c) = Reached(Append(w, c))
          BY <2>2, <2>4, ReachedIs
        <5>3. Append(w, c) \in Seq(Symbols)
          <6> DEFINE S == Symbols
          <6>1. w \in Seq(S) /\ c \in S
            OBVIOUS
          <6> HIDE DEF S
          <6>2. Append(w, c) \in Seq(S)
            BY <6>1
          <6>. QED  BY <6>2 DEF S
        <5>. QED  BY <5>1, <5>2, <5>3
      <4>. QED  BY <2>3, <4>0, <4>1, <4>2
    <3>6. StatesReached'
      <4>1. \A v : Reached(v)' = Reached(v)
        BY <2>1, SameAutomata
      <4>2. \A k \in 1..Len(newStates') : \E v \in Seq(Symbols) : newStates'[k] = Reached(v)'
        BY <3>1, <3>5, <4>1
      <4>. QED  BY <2>1, <3>1, <4>2 DEF StatesReached
    <3>. QED  BY <2>2, <3>2, <3>4, <3>6 DEF GeneratorInv
  <2>. QED  BY <1>5, <2>5, <2>6
<1>6. CASE Compact
  <2>1. /\ phase = "merge" /\ waiting = <<>> /\ jumps' = Compacted(jumps) /\ phase' = "compacted"
        /\ automata' = automata /\ lexicon' = lexicon /\ regexes' = regexes
        /\ waiting' = waiting
    BY <1>6 DEF Compact
  <2>2. Closed /\ AutomataKept' /\ Merging(newStates, jumps, <<>>)
    BY <1>0, <1>4, <2>1 DEF TableMade, Merged
  <2>3. GeneratorTypes'
    BY <1>0, <2>1 DEF GeneratorTypes, Merged
  <2>4. TableMade'
    <3>1. \E label : Labelled(jumps', label)
      BY <2>1, <2>2, CompactedIs
    <3>2. (\E label : Labelled(jumps, label))'
      BY <2>1, <3>1, SameTable
    <3>. QED  BY <2>1, <3>2 DEF TableMade
  <2>5. StatesReached'
    <3>1. \A w \in Seq(Symbols) : ~Overlap(Reached(w))
      BY <2>2, NoneOverlaps
    <3>2. ASSUME NEW w \in Seq(Symbols) PROVE ~Overlap(Reached(w))'
      <4>1. PICK r : r = Reached(w)
        OBVIOUS
      <4>2. ~Overlap(r)' /\ r = Reached(w)'
        BY <2>1, <3>1, <4>1, SameAutomata
      <4>. QED  BY <4>2
    <3>. QED  BY <2>1, <3>2 DEF StatesReached
  <2>. QED  BY <2>2, <2>3, <2>4, <2>5 DEF GeneratorInv
<1>7. CASE Save
  <2>1. /\ phase = "compacted" /\ file' = Serialized(jumps) /\ jumps' = <<>> /\ phase' = "saved"
        /\ automata' = automata /\ lexicon' = lexicon /\ regexes' = regexes
        /\ waiting' = waiting
    BY <1>7 DEF Save
  <2>2. Closed /\ AutomataKept'
    BY <1>0, <1>4, <2>1 DEF Merged
  <2>3. GeneratorTypes'
    BY <1>0, <2>1 DEF GeneratorTypes, Merged
  <2>4. TableMade'
    <3>1. PICK rows : rows = jumps
      OBVIOUS
    <3>2. PICK label : Labelled(rows, label)
      BY <1>0, <2>1, <3>1 DEF TableMade
    <3>3. Labelled(rows, label)' /\ file' = Serialized(rows)
      BY <2>1, <3>1, <3>2, SameLabelled
    <3>4. (\E r : file = Serialized(r) /\ \E l : Labelled(r, l))'
      BY <3>3
    <3>. QED  BY <2>1, <3>4 DEF TableMade
  <2>5. StatesReached'
    <3>1. \A w \in Seq(Symbols) : ~Overlap(Reached(w))
      BY <1>0, <2>1 DEF StatesReached
    <3>2. ASSUME NEW w \in Seq(Symbols) PROVE ~Overlap(Reached(w))'
      <4>1. PICK r : r = Reached(w)
        OBVIOUS
      <4>2. ~Overlap(r)' /\ r = Reached(w)'
        BY <2>1, <3>1, <4>1, SameAutomata
      <4>. QED  BY <4>2
    <3>. QED  BY <2>1, <3>2 DEF StatesReached
  <2>. QED  BY <2>2, <2>3, <2>4, <2>5 DEF GeneratorInv
<1>. QED  BY <1>1, <1>2, <1>3, <1>5, <1>6, <1>7 DEF GeneratorNext

-----------------------------------------------------------------------------
(* The invariant of the lexer. *)

AnalyzerTypes ==
  /\ pc \in {"unread", "idle", "loaded", "returned", "get", "scan"}
  /\ source \in Seq(Bytes) /\ location \in Nat /\ scanned \in Nat
  /\ current.type \in (DOMAIN lexicon) \cup {ERROR, END, NoToken.type}
  /\ pc = "unread" => table = <<>>
  /\ pc \in {"unread", "idle"} => current = NoToken
  /\ pc # "unread" => phase = "saved"
  /\ pc \notin {"unread", "idle"} => FirstSources(lexicon) # {}
  /\ pc # "scan" => scanned = 0
  /\ OnlyCharacters => location <= Len(source)

(* What was scanned of a token, and the state it has led to.                 *)
Scan == SubSeq(source, location + 1, scanned)
Scanning(label) ==
  /\ location # Len(source) /\ location <= scanned
  /\ scanState + 1 \in 1..Len(table)
  /\ scanned = location => scanState = 0
  /\ ~NoTarget(label[scanState + 1])
  /\ location < Len(source) =>
       /\ scanned <= Len(source)
       /\ Scan \in Seq(Symbols)
       /\ label[scanState + 1] = Reached(Scan)

TableRead ==
  pc # "unread" => \E label : Labelled(table, label) /\ (pc = "scan" => Scanning(label))

LexisInv == GeneratorInv /\ AnalyzerTypes /\ TableRead

LEMMA LexisStart == Init => LexisInv
<1> SUFFICES ASSUME Init PROVE LexisInv
  OBVIOUS
<1>1. AnalyzerTypes
  <2>1. /\ table = <<>> /\ source = <<>> /\ location = 0 /\ current = NoToken
        /\ pc = "unread" /\ scanned = 0
    BY DEF Init, AnalyzerInit
  <2>2. <<>> \in Seq(Bytes) /\ Len(<<>>) = 0
    OBVIOUS
  <2>3. source \in Seq(Bytes) /\ Len(source) = 0
    BY <2>1, <2>2
  <2> DEFINE n == Len(source)
  <2>a. n = 0
    BY <2>3
  <2> HIDE DEF n
  <2>4. location \in Nat /\ scanned \in Nat /\ location <= n
    BY <2>1, <2>a
  <2>. QED  BY <2>1, <2>3, <2>4 DEF AnalyzerTypes, n
<1>2. TableRead
  BY DEF Init, AnalyzerInit, TableRead
<1>. QED  BY <1>1, <1>2, GeneratorStart DEF LexisInv

LEMMA SourceType ==
  ASSUME AnalyzerTypes
  PROVE  Len(source) \in Nat /\ \A i \in 1..Len(source) : source[i] \in Bytes
<1>1. source \in Seq(Bytes)
  BY DEF AnalyzerTypes
<1>. QED  BY <1>1

LEMMA ReadyIsStartable ==
  ASSUME Closed, AutomataReady
  PROVE  Startable /\ ~NoTarget(FirstMapping) /\ FinalTokens(FirstMapping) = {}
<1>1. PICK t \in DOMAIN automata : \E c \in Symbols : automata[t][0].jumps[c] # NoNode
  BY DEF AutomataReady
<1>2. PICK c \in Symbols : automata[t][0].jumps[c] # NoNode
  BY <1>1
<1>3. 0 # NoNode
  BY DEF NoNode
<1>4. DOMAIN FirstMapping = DOMAIN automata /\ FirstMapping[t] = 0
  BY DEF FirstMapping
<1>5. Target(FirstMapping, c)[t] # NoNode /\ t \in DOMAIN Target(FirstMapping, c)
  BY <1>2, <1>3, <1>4 DEF Target
<1>6. Startable
  BY <1>5 DEF Startable, NoTarget
<1>7. ~NoTarget(FirstMapping)
  BY <1>3, <1>4 DEF NoTarget
<1>8. FinalTokens(FirstMapping) = {}
  BY DEF FinalTokens, FirstMapping, AutomataReady
<1>. QED  BY <1>6, <1>7, <1>8

LEMMA TableStays ==
  ASSUME automata' = automata, lexicon' = lexicon, table' = table, NEW label,
         Labelled(table, label)
  PROVE  Labelled(table, label)'
<1>1. PICK rows : rows = table
  OBVIOUS
<1>2. Labelled(rows, label)'
  BY <1>1, SameLabelled
<1>. QED  BY <1>1, <1>2

(* What a turn of the loop finds.                                            *)
LEMMA TurnIs ==
  ASSUME LexisInv, pc = "scan", NEW label, Labelled(table, label), Scanning(label),
         NEW c \in BytesAt(scanned) \cap Symbols
  PROVE  /\ Closed /\ DOMAIN automata = DOMAIN lexicon /\ AutomataReady
         /\ label[scanState + 1] \in Mappings
         /\ ~Overlap(label[scanState + 1])
         /\ JumpIs(label, JumpOn(c), label[scanState + 1], Target(label[scanState + 1], c))
         /\ Target(label[scanState + 1], c) \in Mappings
         /\ location < Len(source) =>
              \/ scanned < Len(source) /\ c = source[scanned + 1]
              \/ scanned = Len(source) /\ NoTarget(Target(label[scanState + 1], c))
<1> USE CharactersAssumption
<1>1. phase = "saved" /\ FirstSources(lexicon) # {}
  BY DEF LexisInv, AnalyzerTypes
<1>2. Closed /\ DOMAIN automata = DOMAIN lexicon /\ AutomataReady
  BY <1>1 DEF LexisInv, GeneratorInv, AutomataKept, GeneratorTypes, Merged
<1> DEFINE k == scanState + 1
           from == label[k]
           to == Target(from, c)
<1>3. k \in 1..Len(table) /\ c \in Symbols
  BY DEF Scanning
<1>4. label \in Seq(Mappings) /\ Len(label) = Len(table)
      /\ ~Overlap(from) /\ JumpIs(label, table[k][c], from, to)
  BY <1>3 DEF Labelled
<1>5. from \in Mappings
  <2> DEFINE X == Mappings
  <2>1. label \in Seq(X) /\ k \in 1..Len(label)
    BY <1>3, <1>4
  <2> HIDE DEF X, k
  <2>2. label[k] \in X
    BY <2>1
  <2>. QED  BY <2>2 DEF X, k
<1>6. to \in Mappings /\ NoTarget(Target(from, Eof))
  BY <1>2, <1>3, <1>5, TargetType
<1>7. ASSUME location < Len(source)
      PROVE  \/ scanned < Len(source) /\ c = source[scanned + 1]
             \/ scanned = Len(source) /\ NoTarget(to)
  <2>1. scanned <= Len(source) /\ scanned \in Nat /\ Len(source) \in Nat
    BY <1>7, SourceType DEF Scanning, LexisInv, AnalyzerTypes
  <2>2. CASE scanned < Len(source)
    <3>1. BytesAt(scanned) = {source[scanned + 1]}
      BY <2>1, <2>2 DEF BytesAt
    <3>. QED  BY <2>2, <3>1
  <2>3. CASE scanned = Len(source)
    <3>1. BytesAt(scanned) = {Eof}
      BY <2>1, <2>3 DEF BytesAt
    <3>2. c = Eof
      BY <3>1
    <3>. QED  BY <1>6, <2>3, <3>2
  <2>. QED  BY <2>1, <2>2, <2>3
<1>. QED  BY <1>2, <1>4, <1>5, <1>6, <1>7 DEF JumpOn

(* How a token may end, and that it ends inside of the text.                 *)
LEMMA FinishIs ==
  ASSUME LexisInv, pc = "scan", NEW label, Labelled(table, label), Scanning(label),
         NEW c \in BytesAt(scanned) \cap Symbols, JumpOn(c).kind = "finish"
  PROVE  \/ /\ NoTarget(Target(label[scanState + 1], c))
            /\ FinalTokens(label[scanState + 1]) # {}
            /\ JumpOn(c) = Finish(1, Max(FinalTokens(label[scanState + 1])))
            /\ JumpOn(c).token \in DOMAIN lexicon /\ JumpOn(c).shift = 1
            /\ location < scanned
         \/ /\ ~NoTarget(Target(label[scanState + 1], c))
            /\ FinalTokens(Target(label[scanState + 1], c)) # {}
            /\ ~Overlap(Target(label[scanState + 1], c))
            /\ \A e \in Symbols : NoTarget(Target(Target(label[scanState + 1], c), e))
            /\ JumpOn(c) = Finish(0, Max(FinalTokens(Target(label[scanState + 1], c))))
            /\ JumpOn(c).token \in DOMAIN lexicon /\ JumpOn(c).shift = 0
            /\ location < Len(source) => scanned < Len(source)
<1> DEFINE from == label[scanState + 1]
           to == Target(from, c)
<1>1. /\ Closed /\ DOMAIN automata = DOMAIN lexicon /\ from \in Mappings /\ to \in Mappings
      /\ JumpIs(label, JumpOn(c), from, to) /\ AutomataReady
      /\ location < Len(source) => scanned < Len(source) \/ NoTarget(to)
  BY TurnIs
<1>2. Startable => label[1] = FirstMapping
  BY DEF Labelled
<1> HIDE DEF to
<1>3. CASE NoTarget(to)
  <2>1. JumpOn(c) = EndOf(from)
    BY <1>1, <1>3 DEF JumpIs
  <2>2. FinalTokens(from) # {} /\ JumpOn(c) = Finish(1, Max(FinalTokens(from)))
    BY <2>1 DEF EndOf, Reject
  <2> DEFINE token == Max(FinalTokens(from))
  <2>3. token \in DOMAIN lexicon
    <3> HIDE DEF from
    <3>. QED  BY <1>1, <2>2, FinalTokensType
  <2>4. location # scanned
    <3>1. SUFFICES ASSUME location = scanned PROVE FALSE
      OBVIOUS
    <3>2. from = FirstMapping
      BY <1>1, <1>2, <3>1, ReadyIsStartable DEF Scanning
    <3>. QED  BY <1>1, <2>2, <3>2, ReadyIsStartable
  <2>5. location < scanned
    BY <2>4 DEF Scanning, LexisInv, AnalyzerTypes
  <2>6. JumpOn(c) = Finish(1, token)
    BY <2>2
  <2> HIDE DEF token
  <2>7. JumpOn(c).token = token /\ JumpOn(c).shift = 1
    BY <2>6 DEF Finish
  <2>. QED  BY <1>3, <2>2, <2>3, <2>5, <2>7 DEF to
<1>4. CASE ~NoTarget(to)
  <2>1. /\ FinalTokens(to) # {} /\ ~Overlap(to) /\ \A e \in Symbols : NoTarget(Target(to, e))
        /\ JumpOn(c) = Finish(0, Max(FinalTokens(to)))
    BY <1>1, <1>4 DEF JumpIs
  <2> DEFINE token == Max(FinalTokens(to))
  <2>2. token \in DOMAIN lexicon
    BY <1>1, <2>1, FinalTokensType
  <2>3. JumpOn(c) = Finish(0, token)
    BY <2>1
  <2> HIDE DEF token
  <2>4. JumpOn(c).token = token /\ JumpOn(c).shift = 0
    BY <2>3 DEF Finish
  <2>. QED  BY <1>1, <1>4, <2>1, <2>2, <2>4 DEF to
<1>. QED  BY <1>3, <1>4

LEMMA SubSeqLonger ==
  ASSUME NEW S, NEW s \in Seq(S), NEW a \in Nat, NEW b \in Nat, a <= b, b < Len(s)
  PROVE  SubSeq(s, a + 1, b + 1) = Append(SubSeq(s, a + 1, b), s[b + 1])
<1> DEFINE u == SubSeq(s, a + 1, b)
           v == SubSeq(s, a + 1, b + 1)
           n == b - a
<1>1. n \in Nat /\ a + n = b /\ Len(s) \in Nat
  OBVIOUS
<1>2. u \in Seq(S) /\ Len(u) = n
  OBVIOUS
<1>3. v \in Seq(S) /\ Len(v) = n + 1
  OBVIOUS
<1>4. \A i \in 1..n : u[i] = s[a + i]
  OBVIOUS
<1>5. \A i \in 1..(n + 1) : v[i] = s[a + i]
  OBVIOUS
<1>6. a + (n + 1) = b + 1 /\ s[b + 1] \in S
  BY <1>1
<1> DEFINE c == s[b + 1]
<1>7. c \in S /\ v[n + 1] = c
  BY <1>1, <1>5, <1>6
<1> HIDE DEF u, v, n, c
<1>8. Append(u, c) \in Seq(S) /\ Len(Append(u, c)) = n + 1
  BY <1>1, <1>2, <1>7
<1>9. \A i \in 1..(n + 1) : Append(u, c)[i] = v[i]
  BY <1>1, <1>2, <1>4, <1>5, <1>7
<1>10. v = Append(u, c)
  BY <1>1, <1>3, <1>8, <1>9
<1>. QED  BY <1>10 DEF u, v, c

(* A token that is given back. *)
LEMMA TakeStep ==
  ASSUME LexisInv, pc \in {"get", "scan"}, NEW type, NEW begin \in Nat, NEW end,
         type \in (DOMAIN lexicon) \cup {ERROR, END},
         Take(Token(type, begin, end)),
         type # ERROR => end \in Nat /\ (OnlyCharacters => end <= Len(source)),
         type = ERROR => (OnlyCharacters => begin + 1 <= Len(source))
  PROVE  LexisInv'
<1> DEFINE last == IF type = ERROR THEN begin + 1 ELSE end
<1>1. /\ current'.type = type /\ location' = last
      /\ pc' \in {"get", "returned"} /\ scanned' = 0
      /\ UNCHANGED <<generatorVars, table, source>>
  <2>1. Token(type, begin, end).type = type /\ Token(type, begin, end).begin = begin
        /\ Token(type, begin, end).end = end
    BY DEF Token
  <2> DEFINE token == Token(type, begin, end)
  <2>2. token \in [type : {type}, begin : {begin}, end : {end}]
    BY DEF Token
  <2>3. /\ current' = [token EXCEPT !.end = last] /\ location' = last
        /\ pc' \in {"get", "returned"} /\ scanned' = 0
        /\ UNCHANGED <<generatorVars, table, source>>
    BY <2>1 DEF Take
  <2> HIDE DEF token, last
  <2>4. current'.type = token.type
    BY <2>2, <2>3
  <2>. QED  BY <2>1, <2>3, <2>4 DEF token
<1>2. last \in Nat /\ (OnlyCharacters => last <= Len(source))
  OBVIOUS
<1> HIDE DEF last
<1>3. GeneratorInv'
  BY <1>1, GeneratorRests DEF LexisInv
<1>4. lexicon' = lexicon /\ automata' = automata /\ phase' = phase
  BY <1>1 DEF generatorVars
<1>5. phase = "saved" /\ FirstSources(lexicon) # {}
  BY DEF LexisInv, AnalyzerTypes
<1>6. AnalyzerTypes'
  BY <1>1, <1>2, <1>4, <1>5 DEF LexisInv, AnalyzerTypes, OnlyCharacters
<1>7. TableRead'
  <2>1. PICK label : Labelled(table, label)
    BY DEF LexisInv, TableRead
  <2>2. Labelled(table, label)'
    BY <1>1, <1>4, <2>1, TableStays
  <2>. QED  BY <1>1, <2>2 DEF TableRead
<1>. QED  BY <1>3, <1>6, <1>7 DEF LexisInv

LEMMA JumpStep ==
  ASSUME LexisInv, Jump
  PROVE  LexisInv'
<1>0. LexisInv /\ AnalyzerTypes /\ pc = "scan"
  BY DEF LexisInv, Jump
<1>1. PICK label : Labelled(table, label) /\ Scanning(label)
  BY <1>0 DEF LexisInv, TableRead
<1>2. PICK c \in BytesAt(scanned) \cap Symbols :
        JumpOn(c).kind = "next" /\ scanState' = JumpOn(c).state
  BY DEF Jump
<1>3. scanned' = scanned + 1 /\ UNCHANGED <<generatorVars, table, source, location, current, pc>>
  BY DEF Jump
<1>4. GeneratorInv' /\ lexicon' = lexicon /\ automata' = automata /\ phase' = phase
  BY <1>0, <1>3, GeneratorRests DEF LexisInv, generatorVars
<1>5. AnalyzerTypes'
  BY <1>0, <1>3, <1>4 DEF AnalyzerTypes, OnlyCharacters
<1> DEFINE from == label[scanState + 1]
           to == Target(from, c)
           state == JumpOn(c).state
<1>6. /\ Closed /\ JumpIs(label, JumpOn(c), from, to) /\ to \in Mappings
      /\ location < Len(source) =>
           \/ scanned < Len(source) /\ c = source[scanned + 1]
           \/ scanned = Len(source) /\ NoTarget(to)
  BY <1>0, <1>1, <1>2, TurnIs
<1>7. ~NoTarget(to) /\ state + 1 \in DOMAIN label /\ label[state + 1] = to
  <2>1. \A m : EndOf(m).kind # "next"
    BY DEF EndOf, Finish, Reject
  <2>2. \A m : Finish(0, Max(FinalTokens(m))).kind # "next"
    BY DEF Finish
  <2> HIDE DEF to, from
  <2>. QED  BY <1>2, <1>6, <2>1, <2>2 DEF JumpIs
<1>8. state + 1 \in 1..Len(table)
  <2> DEFINE X == Mappings
  <2>1. label \in Seq(X) /\ Len(label) = Len(table)
    BY <1>1 DEF Labelled
  <2> HIDE DEF X
  <2>2. DOMAIN label = 1..Len(label)
    BY <2>1
  <2>. QED  BY <1>7, <2>1, <2>2
<1>9. ASSUME location < Len(source)
      PROVE  /\ scanned + 1 <= Len(source)
             /\ SubSeq(source, location + 1, scanned + 1) = Append(Scan, c)
             /\ Append(Scan, c) \in Seq(Symbols)
             /\ to = Reached(Append(Scan, c))
  <2>1. scanned < Len(source) /\ c = source[scanned + 1] /\ c \in Symbols
    BY <1>6, <1>7, <1>9
  <2>2. Scan \in Seq(Symbols) /\ from = Reached(Scan) /\ location <= scanned
    BY <1>1, <1>9 DEF Scanning
  <2>3. source \in Seq(Bytes) /\ location \in Nat /\ scanned \in Nat
    BY <1>0 DEF AnalyzerTypes
  <2>4. SubSeq(source, location + 1, scanned + 1) = Append(Scan, c)
    BY <2>1, <2>2, <2>3, SubSeqLonger DEF Scan
  <2>5. Append(Scan, c) \in Seq(Symbols)
    <3> DEFINE S == Symbols
               w == Scan
    <3>1. w \in Seq(S) /\ c \in S
      BY <2>1, <2>2
    <3> HIDE DEF S, w
    <3>2. Append(w, c) \in Seq(S)
      BY <3>1
    <3>. QED  BY <3>2 DEF S, w
  <2>6. to = Reached(Append(Scan, c))
    BY <1>6, <2>1, <2>2, ReachedIs
  <2>7. scanned + 1 <= Len(source)
    BY <2>1, <2>3, <1>0, SourceType
  <2>. QED  BY <2>4, <2>5, <2>6, <2>7
<1>10. Labelled(table, label)'
  BY <1>1, <1>3, <1>4, TableStays
<1>11. Scanning(label)'
  <2>1. location # Len(source) /\ location <= scanned /\ location \in Nat /\ scanned \in Nat
    BY <1>0, <1>1 DEF Scanning, AnalyzerTypes
  <2>2. scanned' # location' /\ location' <= scanned' /\ location' # Len(source')
    BY <1>3, <2>1
  <2>3. scanState' + 1 \in 1..Len(table') /\ ~NoTarget(label[scanState' + 1])
    BY <1>2, <1>3, <1>7, <1>8
  <2>4. ASSUME location' < Len(source')
        PROVE  /\ scanned' <= Len(source') /\ (Scan \in Seq(Symbols))'
               /\ label[scanState' + 1] = Reached(Scan)'
    <3>1. location < Len(source)
      BY <1>3, <2>4
    <3>2. Scan' = Append(Scan, c)
      BY <1>3, <1>9, <3>1 DEF Scan
    <3>3. PICK w : w = Append(Scan, c)
      OBVIOUS
    <3>4. Reached(w)' = Reached(w)
      BY <1>4, SameAutomata DEF generatorVars
    <3>. QED  BY <1>2, <1>3, <1>7, <1>9, <3>1, <3>2, <3>3, <3>4
  <2>. QED  BY <2>2, <2>3, <2>4 DEF Scanning, NoTarget
<1>. QED  BY <1>4, <1>5, <1>10, <1>11 DEF LexisInv, TableRead

(* The steps before the loop. *)
LEMMA OpenStep ==
  ASSUME LexisInv, Construct \/ SetSourceView \/ Call
  PROVE  LexisInv'
<1>0. LexisInv /\ AnalyzerTypes
  BY DEF LexisInv
<1>1. GeneratorInv' /\ lexicon' = lexicon /\ automata' = automata /\ phase' = phase
      /\ scanned' = scanned /\ pc # "scan" /\ pc' # "scan" /\ pc' # "unread"
  <2>1. UNCHANGED generatorVars /\ pc # "scan" /\ scanned' = scanned
        /\ pc' # "scan" /\ pc' # "unread"
    BY DEF Construct, SetSourceView, Call
  <2>. QED  BY <1>0, <2>1, GeneratorRests DEF LexisInv, generatorVars
<1>2. CASE Construct
  <2>1. AnalyzerTypes'
    BY <1>0, <1>1, <1>2 DEF AnalyzerTypes, Construct, OnlyCharacters
  <2>2. PICK rows : file = Serialized(rows) /\ \E label : Labelled(rows, label)
    BY <1>0, <1>2 DEF LexisInv, GeneratorInv, TableMade, Construct
  <2>3. PICK label : Labelled(rows, label)
    BY <2>2
  <2>4. rows \in Seq([Symbols -> Jumps])
    BY <2>3 DEF Labelled
  <2>5. table' = rows
    BY <1>2, <2>2, <2>4, RoundTrip, CharactersAssumption DEF Construct
  <2>6. Labelled(rows, label)'
    BY <1>1, <2>3, SameLabelled
  <2>7. Labelled(table, label)'
    BY <2>5, <2>6
  <2>. QED  BY <1>1, <2>1, <2>7 DEF LexisInv, TableRead
<1>3. CASE SetSourceView \/ Call
  <2>1. table' = table /\ pc # "unread"
    BY <1>3 DEF SetSourceView, Call
  <2>2. TableRead'
    <3>1. PICK label : Labelled(table, label)
      BY <1>0, <2>1 DEF LexisInv, TableRead
    <3>2. Labelled(table, label)'
      BY <1>1, <2>1, <3>1, TableStays
    <3>. QED  BY <1>1, <3>2 DEF TableRead
  <2>3. CASE SetSourceView
    <3>1. /\ source' \in FirstSources(lexicon) \/ (source' \in NextSources /\ pc = "returned")
          /\ location' = 0 /\ pc' = "loaded" /\ current' = current
      BY <2>3 DEF SetSourceView
    <3>2. lexicon \in Lexicons
      BY <1>0 DEF LexisInv, GeneratorInv, GeneratorTypes
    <3>3. source' \in Seq(Bytes) /\ FirstSources(lexicon) # {}
      BY <1>0, <3>1, <3>2, SourcesAssumption DEF AnalyzerTypes
    <3>4. Len(source') \in Nat
      BY <3>3
    <3>5. location' \in Nat /\ location' <= Len(source')
      BY <3>1, <3>4
    <3>6. AnalyzerTypes'
      BY <1>0, <1>1, <2>1, <3>1, <3>3, <3>5 DEF AnalyzerTypes
    <3>. QED  BY <1>1, <2>2, <3>6 DEF LexisInv
  <2>4. CASE Call
    <3>1. AnalyzerTypes'
      BY <1>0, <1>1, <2>4 DEF AnalyzerTypes, Call, OnlyCharacters
    <3>. QED  BY <1>1, <2>2, <3>1 DEF LexisInv
  <2>. QED  BY <1>3, <2>3, <2>4
<1>. QED  BY <1>2, <1>3

LEMMA StartStep ==
  ASSUME LexisInv, Start
  PROVE  LexisInv'
<1>0. LexisInv /\ AnalyzerTypes /\ pc = "get" /\ location # Len(source)
  BY DEF LexisInv, Start
<1>1. pc' = "scan" /\ scanState' = 0 /\ scanned' = location
      /\ UNCHANGED <<generatorVars, table, source, location, current>>
  BY DEF Start
<1>2. GeneratorInv' /\ lexicon' = lexicon /\ automata' = automata /\ phase' = phase
  BY <1>0, <1>1, GeneratorRests DEF LexisInv, generatorVars
<1>3. AnalyzerTypes'
  BY <1>0, <1>1, <1>2 DEF AnalyzerTypes, OnlyCharacters
<1>4. Closed /\ AutomataReady
  BY <1>0 DEF LexisInv, AnalyzerTypes, GeneratorInv, AutomataKept, Merged
<1>5. PICK label : Labelled(table, label)
  BY <1>0 DEF LexisInv, TableRead
<1>6. Len(table) >= 1 /\ label[1] = FirstMapping /\ ~NoTarget(label[1]) /\ Len(table) \in Nat
  <2>1. Startable /\ ~NoTarget(FirstMapping)
    BY <1>4, ReadyIsStartable
  <2>2. Len(table) \in Nat
    BY <1>5 DEF Labelled
  <2>. QED  BY <1>5, <2>1, <2>2 DEF Labelled
<1>7. Labelled(table, label)'
  BY <1>1, <1>2, <1>5, TableStays
<1>8. Scan' = <<>>
  <2>1. location \in Nat
    BY <1>0 DEF AnalyzerTypes
  <2>2. SubSeq(source, location + 1, location) = <<>>
    BY <2>1
  <2>. QED  BY <1>1, <2>2 DEF Scan
<1>9. Scanning(label)'
  <2>1. scanState' + 1 = 1 /\ location \in Nat /\ location <= location
    BY <1>0, <1>1 DEF AnalyzerTypes
  <2>2. location' # Len(source') /\ location' <= scanned' /\ scanState' = 0
        /\ scanState' + 1 \in 1..Len(table') /\ ~NoTarget(label[scanState' + 1])
    BY <1>0, <1>1, <1>6, <2>1
  <2>3. location' < Len(source') => scanned' <= Len(source')
    BY <1>0, <1>1, SourceType, <2>1
  <2>4. <<>> \in Seq(Symbols)
    OBVIOUS
  <2>5. label[scanState' + 1] = Reached(Scan)'
    <3>1. PICK w : w = <<>>
      OBVIOUS
    <3>2. Reached(w)' = Reached(w) /\ Reached(w) = FirstMapping
      BY <1>2, <3>1, SameAutomata, ReachedEmpty DEF generatorVars
    <3>. QED  BY <1>6, <1>8, <2>1, <3>1, <3>2
  <2>. QED  BY <1>8, <2>2, <2>3, <2>4, <2>5 DEF Scanning, NoTarget
<1>. QED  BY <1>2, <1>3, <1>7, <1>9 DEF LexisInv, TableRead

LEMMA LexisStep ==
  ASSUME LexisInv, AutomataSound', [Next]_vars
  PROVE  LexisInv'
<1>0. LexisInv /\ GeneratorInv /\ AnalyzerTypes /\ TableRead
  BY DEF LexisInv
<1>a. source \in Seq(Bytes) /\ location \in Nat /\ scanned \in Nat /\ Len(source) \in Nat
  BY <1>0, SourceType DEF AnalyzerTypes
<1>1. CASE GeneratorNext /\ UNCHANGED analyzerVars
  <2>1. phase # "saved" /\ lexicon' = lexicon
    BY <1>1 DEF GeneratorNext, ParseRegexes, BuildDeterministic, Minimise, RemoveDeadEnds,
                MergeThrows, MergeNext, Compact, Save
  <2>2. pc = "unread" /\ pc' = "unread"
    BY <1>0, <1>1, <2>1 DEF AnalyzerTypes, analyzerVars
  <2>3. GeneratorInv'
    BY <1>0, <1>1, GeneratorStep
  <2>4. AnalyzerTypes'
    BY <1>0, <1>1, <2>1, <2>2 DEF AnalyzerTypes, analyzerVars, OnlyCharacters
  <2>. QED  BY <2>2, <2>3, <2>4 DEF LexisInv, TableRead
<1>2. CASE Construct \/ SetSourceView \/ Call
  BY <1>0, <1>2, OpenStep
<1>3. CASE AtEnd
  <2>1. pc = "get" /\ location = Len(source) /\ Take(Token(END, location, location))
    BY <1>3 DEF AtEnd
  <2>2. END # ERROR /\ location <= Len(source)
    BY <1>a, <2>1 DEF END, ERROR
  <2>. QED  BY <1>0, <1>a, <2>1, <2>2, TakeStep
<1>4. CASE Start
  BY <1>0, <1>4, StartStep
<1>5. CASE Jump
  BY <1>0, <1>5, JumpStep
<1>6. ASSUME pc = "scan", OnlyCharacters
      PROVE  location < Len(source) /\ scanned <= Len(source)
  <2>1. PICK label : Scanning(label)
    BY <1>0, <1>6 DEF TableRead
  <2>. QED  BY <1>0, <1>6, <1>a, <2>1 DEF Scanning, AnalyzerTypes
<1>7. CASE FinishToken
  <2>1. pc = "scan"
    BY <1>7 DEF FinishToken
  <2>2. PICK c \in BytesAt(scanned) \cap Symbols :
          /\ JumpOn(c).kind = "finish"
          /\ Take(Token(JumpOn(c).token, location, scanned + 1 - JumpOn(c).shift))
    BY <1>7 DEF FinishToken
  <2>3. PICK label : Labelled(table, label) /\ Scanning(label)
    BY <1>0, <2>1 DEF TableRead
  <2>4. /\ JumpOn(c).token \in DOMAIN lexicon
        /\ \/ JumpOn(c).shift = 1
           \/ JumpOn(c).shift = 0 /\ (location < Len(source) => scanned < Len(source))
    BY <1>0, <2>1, <2>2, <2>3, FinishIs
  <2> DEFINE end == scanned + 1 - JumpOn(c).shift
  <2>5. end \in Nat /\ (OnlyCharacters => end <= Len(source))
    BY <1>6, <1>a, <2>1, <2>4
  <2>6. JumpOn(c).token # ERROR
    <3>1. lexicon \in Seq(ToSet(lexicon))
      BY <1>0, LexiconsAssumption DEF GeneratorInv, GeneratorTypes
    <3>2. DOMAIN lexicon \subseteq Nat
      BY <3>1
    <3>. QED  BY <2>4, <3>2 DEF ERROR
  <2> DEFINE token == JumpOn(c).token
  <2>7. Take(Token(token, location, end)) /\ token \in DOMAIN lexicon /\ token # ERROR
    BY <2>2, <2>4, <2>6
  <2> HIDE DEF end, token
  <2>. QED  BY <1>0, <1>a, <2>1, <2>5, <2>7, TakeStep
<1>8. CASE RejectSymbol
  <2>1. pc = "scan" /\ Take(Token(ERROR, location, scanned + 1))
    BY <1>8 DEF RejectSymbol
  <2>2. OnlyCharacters => location + 1 <= Len(source)
    BY <1>6, <1>a, <2>1
  <2>. QED  BY <1>0, <1>a, <2>1, <2>2, TakeStep
<1>9. CASE WideSymbol
  <2>1. pc = "scan" /\ Take(Token(ERROR, scanned + 1, scanned + 1))
        /\ ~(BytesAt(scanned) \subseteq Symbols)
    BY <1>9 DEF WideSymbol
  <2>2. ASSUME OnlyCharacters PROVE FALSE
    <3>1. scanned <= Len(source)
      BY <1>6, <2>1, <2>2
    <3>2. CASE scanned = Len(source)
      <4>1. BytesAt(scanned) = {Eof}
        BY <1>a, <3>2 DEF BytesAt
      <4>. QED  BY <2>1, <4>1, CharactersAssumption, CharactersType
    <3>3. CASE scanned < Len(source)
      <4>1. BytesAt(scanned) = {source[scanned + 1]}
        BY <3>3 DEF BytesAt
      <4>2. source[scanned + 1] \in ToSet(source)
        <5> DEFINE i == scanned + 1
        <5>1. i \in 1..Len(source)
          BY <1>a, <3>3
        <5> HIDE DEF i
        <5>2. source[i] \in ToSet(source)
          BY <1>a, <5>1 DEF ToSet
        <5>. QED  BY <5>2 DEF i
      <4>. QED  BY <2>1, <2>2, <4>1, <4>2 DEF OnlyCharacters
    <3>. QED  BY <1>a, <3>1, <3>2, <3>3
  <2>3. scanned + 1 \in Nat
    BY <1>a
  <2>. QED  BY <1>0, <2>1, <2>2, <2>3, TakeStep
<1>10. CASE UNCHANGED vars
  <2>1. UNCHANGED generatorVars /\ UNCHANGED analyzerVars
    BY <1>10 DEF vars
  <2>2. GeneratorInv'
    BY <1>0, <2>1, GeneratorRests
  <2>3. lexicon' = lexicon /\ automata' = automata /\ phase' = phase
    BY <2>1 DEF generatorVars
  <2>4. AnalyzerTypes'
    BY <1>0, <2>1, <2>3 DEF AnalyzerTypes, analyzerVars, OnlyCharacters
  <2>5. TableRead'
    <3>1. ASSUME pc' # "unread"
          PROVE  (\E label : Labelled(table, label) /\ (pc = "scan" => Scanning(label)))'
      <4>1. PICK label : Labelled(table, label) /\ (pc = "scan" => Scanning(label))
        BY <1>0, <2>1, <3>1 DEF TableRead, analyzerVars
      <4>2. Labelled(table, label)'
        BY <2>1, <2>3, <4>1, TableStays DEF analyzerVars
      <4>3. (pc = "scan" => Scanning(label))'
        BY <2>1, <2>3, <4>1 DEF Scanning, NoTarget, Reached, Scan, analyzerVars
      <4>. QED  BY <4>2, <4>3
    <3>. QED  BY <3>1 DEF TableRead
  <2>. QED  BY <2>2, <2>4, <2>5 DEF LexisInv
<1>. QED  BY <1>1, <1>2, <1>3, <1>4, <1>5, <1>7, <1>8, <1>9, <1>10 DEF Next, Lexing

LEMMA InvariantHolds == Spec /\ []AutomataSound => []LexisInv
<1>1. LexisInv /\ AutomataSound' /\ [Next]_vars => LexisInv'
  BY LexisStep
<1>. QED  BY <1>1, LexisStart, PTL DEF Spec

(* The lexer stays inside of its text, and no state of the merged automaton  *)
(* is refused for having no end.                                             *)
THEOREM StaysInsideHolds == Spec /\ []AutomataSound => []StaysInside
<1>1. LexisInv => StaysInside
  <2> SUFFICES ASSUME LexisInv PROVE StaysInside
    OBVIOUS
  <2>1. phase # "unrecognizable"
    BY DEF LexisInv, GeneratorInv, GeneratorTypes
  <2>2. Len(source) \in Nat
    BY SourceType DEF LexisInv
  <2>3. ASSUME OnlyCharacters PROVE location <= Len(source) /\ scanned <= Len(source)
    <3>1. location <= Len(source) /\ location \in Nat
      BY <2>3 DEF LexisInv, AnalyzerTypes
    <3>2. CASE pc = "scan"
      <4>1. PICK label : Scanning(label)
        BY <3>2 DEF LexisInv, AnalyzerTypes, TableRead
      <4>. QED  BY <2>2, <3>1, <4>1 DEF Scanning
    <3>3. CASE pc # "scan"
      BY <2>2, <3>1, <3>3 DEF LexisInv, AnalyzerTypes
    <3>. QED  BY <3>2, <3>3
  <2>. QED  BY <2>1, <2>3 DEF StaysInside
<1>. QED  BY <1>1, InvariantHolds, PTL

LEMMA RangeOfMerging ==
  ASSUME NEW states, NEW rows, NEW todo, Merging(states, rows, todo)
  PROVE  /\ \A k \in DOMAIN rows : \A c \in Symbols :
              rows[k][c].kind = "next" => rows[k][c].state \in 0..(Len(rows) - 1)
         /\ \A i \in DOMAIN todo : todo[i] \in 0..(Len(rows) - 1)
         /\ Len(rows) = Len(states)
<1>1. /\ DOMAIN rows = 1..Len(rows) /\ Len(rows) \in Nat /\ Len(rows) >= 1
      /\ DOMAIN todo = 1..Len(todo) /\ \A i \in DOMAIN todo : todo[i] \in Nat
      /\ Len(rows) = Len(states)
  <2>1. rows \in Seq([Symbols -> Jumps]) /\ todo \in Seq(Nat)
    BY DEF Merging
  <2>2. DOMAIN todo = 1..Len(todo) /\ \A i \in DOMAIN todo : todo[i] \in Nat
    BY <2>1
  <2>3. DOMAIN rows = 1..Len(rows) /\ Len(rows) \in Nat
    BY <2>1
  <2>. QED  BY <2>2, <2>3 DEF Merging
<1>2. ASSUME NEW k \in 1..Len(rows), NEW c \in Symbols, rows[k][c].kind = "next"
      PROVE  rows[k][c].state \in 0..(Len(rows) - 1)
  <2>1. rows[k] = NoJumps \/ RowIs(rows[k], states[k], states)
    BY <1>1 DEF Merging
  <2>2. CASE rows[k] = NoJumps
    BY <1>1, <2>2 DEF NoJumps, NextState
  <2>3. CASE RowIs(rows[k], states[k], states)
    <3>1. EndOf(states[k]).kind # "next"
      BY DEF EndOf, Finish, Reject
    <3>2. PICK s \in 1..Len(states) : rows[k][c] = NextState(s - 1)
      BY <1>2, <2>3, <3>1 DEF RowIs
    <3>3. rows[k][c].state = s - 1
      BY <3>2 DEF NextState
    <3>. QED  BY <1>1, <3>3
  <2>. QED  BY <2>1, <2>2, <2>3
<1>3. ASSUME NEW i \in 1..Len(todo) PROVE todo[i] \in 0..(Len(rows) - 1)
  <2>1. todo[i] \in Nat /\ todo[i] < Len(rows)
    BY <1>1 DEF Merging
  <2>. QED  BY <1>1, <2>1
<1>. QED  BY <1>1, <1>2, <1>3

LEMMA RangeOfLabelled ==
  ASSUME NEW rows, NEW label, Labelled(rows, label)
  PROVE  /\ DOMAIN rows = 1..Len(rows) /\ Len(rows) \in Nat
         /\ \A k \in DOMAIN rows : \A c \in Symbols :
              rows[k][c].kind = "next" => rows[k][c].state \in 0..(Len(rows) - 1)
<1>1. rows \in Seq([Symbols -> Jumps]) /\ label \in Seq(Mappings) /\ Len(label) = Len(rows)
  BY DEF Labelled
<1>2. /\ DOMAIN rows = 1..Len(rows) /\ Len(rows) \in Nat
      /\ \A k \in DOMAIN rows : rows[k] \in [Symbols -> Jumps]
  BY <1>1
<1>3. DOMAIN label = 1..Len(rows)
  <2> DEFINE X == Mappings
  <2>1. label \in Seq(X) /\ Len(label) = Len(rows)
    BY <1>1
  <2> HIDE DEF X
  <2>. QED  BY <2>1
<1>4. ASSUME NEW k \in DOMAIN rows, NEW c \in Symbols, rows[k][c].kind = "next"
      PROVE  rows[k][c].state \in 0..(Len(rows) - 1)
  <2> DEFINE jump == rows[k][c]
             to == Target(label[k], c)
  <2>1. JumpIs(label, jump, label[k], to) /\ jump \in Jumps
    BY <1>2, <1>4 DEF Labelled
  <2>2. jump # EndOf(label[k]) /\ jump # Finish(0, Max(FinalTokens(to)))
    BY <1>4 DEF EndOf, Finish, Reject
  <2>3. jump.state + 1 \in DOMAIN label
    <3> HIDE DEF jump, to
    <3>. QED  BY <2>1, <2>2 DEF JumpIs
  <2>4. jump.state \in Nat
    BY <1>4, <2>1 DEF Jumps, Reject
  <2>. QED  BY <1>2, <1>3, <2>3, <2>4
<1>. QED  BY <1>2, <1>4

(* Every jump of a table leads to a row of it, and the scan is at one.       *)
THEOREM TypeCorrect == Spec /\ []AutomataSound => []TypeOK
<1>1. LexisInv /\ AutomataSound => TypeOK
  <2> SUFFICES ASSUME LexisInv, AutomataSound PROVE TypeOK
    OBVIOUS
  <2>1. GeneratorTypes /\ TableMade /\ AnalyzerTypes /\ TableRead
    BY DEF LexisInv, GeneratorInv
  <2>2. /\ \A k \in DOMAIN jumps : \A c \in Symbols :
             jumps[k][c].kind = "next" => jumps[k][c].state \in 0..(Len(jumps) - 1)
        /\ \A i \in DOMAIN waiting : waiting[i] \in 0..(Len(jumps) - 1)
        /\ phase = "merge" => Len(jumps) = Len(newStates)
    <3>0. DOMAIN <<>> = {}
      OBVIOUS
    <3>1. CASE phase \in {"merge", "overlap"}
      BY <2>1, <3>1, RangeOfMerging DEF TableMade
    <3>2. CASE phase = "compacted"
      BY <2>1, <3>0, <3>2, RangeOfLabelled DEF TableMade, GeneratorTypes
    <3>3. CASE phase \notin {"merge", "overlap", "compacted"}
      BY <2>1, <3>0, <3>3 DEF GeneratorTypes
    <3>. QED  BY <3>1, <3>2, <3>3
  <2>3. /\ \A k \in DOMAIN table : \A c \in Symbols :
             table[k][c].kind = "next" => table[k][c].state \in 0..(Len(table) - 1)
        /\ pc = "scan" => scanState + 1 \in DOMAIN table
    <3>1. CASE pc = "unread"
      <4>1. DOMAIN <<>> = {}
        OBVIOUS
      <4>. QED  BY <2>1, <3>1, <4>1 DEF AnalyzerTypes
    <3>2. CASE pc # "unread"
      <4>1. PICK label : Labelled(table, label) /\ (pc = "scan" => Scanning(label))
        BY <2>1, <3>2 DEF TableRead
      <4>. QED  BY <4>1, RangeOfLabelled DEF Scanning
    <3>. QED  BY <3>1, <3>2
  <2>. QED  BY <2>1, <2>2, <2>3 DEF TypeOK, GeneratorTypes, AnalyzerTypes
<1>. QED  BY <1>1, InvariantHolds, PTL

-----------------------------------------------------------------------------
(* What the automata mean stays true of them once they are merged.           *)

(* They accept no word that their expressions do not match, every node       *)
(* accepts a word,                                                           *)
Faithful ==
  \A t \in DOMAIN automata :
    /\ \A word \in Words : Accepts(automata[t], 0, word) => Matches(regexes[t], word)
    /\ \A n \in DOMAIN automata[t] : \E word \in Words : Accepts(automata[t], n, word)
(* and they accept every word that they match.                               *)
Lossless ==
  \A t \in DOMAIN automata : \A word \in Words :
    Matches(regexes[t], word) => Accepts(automata[t], 0, word)

StaysFaithful == phase \in Merged => Faithful
StaysLossless == phase \in Merged => Lossless
StaysExact == phase \in Merged /\ FirstSources(lexicon) # {} => Lossless

LEMMA AfterMerge ==
  ASSUME [Next]_vars, phase' \in Merged, phase' # "merge" \/ phase = "merge"
  PROVE  phase \in Merged /\ automata' = automata /\ regexes' = regexes /\ lexicon' = lexicon
<1>1. CASE GeneratorNext
  BY <1>1 DEF GeneratorNext, ParseRegexes, BuildDeterministic, Minimise, RemoveDeadEnds,
              MergeThrows, MergeNext, Compact, Save, Merged
<1>2. CASE UNCHANGED generatorVars
  BY <1>2 DEF generatorVars
<1>3. UNCHANGED generatorVars \/ GeneratorNext
  BY DEF Next, Lexing, Construct, SetSourceView, Call, AtEnd, Start, Jump, FinishToken,
         RejectSymbol, WideSymbol, Take, vars
<1>. QED  BY <1>1, <1>2, <1>3

LEMMA FaithfulHolds == Spec /\ []NothingInvented => []StaysFaithful
<1>1. Init => StaysFaithful
  BY DEF Init, GeneratorInit, StaysFaithful, Merged
<1>2. StaysFaithful /\ NothingInvented' /\ [Next]_vars => StaysFaithful'
  <2> SUFFICES ASSUME StaysFaithful, NothingInvented', [Next]_vars, phase' \in Merged
               PROVE  Faithful'
    BY DEF StaysFaithful
  <2>1. CASE phase' = "merge"
    BY <2>1 DEF NothingInvented, Faithful
  <2>2. CASE phase' # "merge"
    BY <2>2, AfterMerge DEF StaysFaithful, Faithful
  <2>. QED  BY <2>1, <2>2
<1>. QED  BY <1>1, <1>2, PTL DEF Spec

LEMMA LosslessHolds == Spec /\ []KeepsLanguage => []StaysLossless
<1>1. Init => StaysLossless
  BY DEF Init, GeneratorInit, StaysLossless, Merged
<1>2. StaysLossless /\ KeepsLanguage' /\ [Next]_vars => StaysLossless'
  <2> SUFFICES ASSUME StaysLossless, KeepsLanguage', [Next]_vars, phase' \in Merged
               PROVE  Lossless'
    BY DEF StaysLossless
  <2>1. CASE phase' = "merge"
    BY <2>1 DEF KeepsLanguage, Lossless
  <2>2. CASE phase' # "merge"
    BY <2>2, AfterMerge DEF StaysLossless, Lossless
  <2>. QED  BY <2>1, <2>2
<1>. QED  BY <1>1, <1>2, PTL DEF Spec

LEMMA ExactHolds == Spec /\ []AutomataExact => []StaysExact
<1>1. Init => StaysExact
  BY DEF Init, GeneratorInit, StaysExact, Merged
<1>2. StaysExact /\ AutomataExact' /\ [Next]_vars => StaysExact'
  <2> SUFFICES ASSUME StaysExact, AutomataExact', [Next]_vars, phase' \in Merged,
                      FirstSources(lexicon') # {}
               PROVE  Lossless'
    BY DEF StaysExact
  <2>1. CASE phase' = "merge"
    BY <2>1 DEF AutomataExact, Lossless
  <2>2. CASE phase' # "merge"
    BY <2>2, AfterMerge DEF StaysExact, Lossless
  <2>. QED  BY <2>1, <2>2
<1>. QED  BY <1>1, <1>2, PTL DEF Spec

-----------------------------------------------------------------------------
(* The tokens that end where a word leads to are those that match it.        *)
LEMMA FinalTokensMatch ==
  ASSUME Words = Seq(Symbols), Closed, Faithful, NEW w \in Seq(Symbols)
  PROVE  /\ FinalTokens(Reached(w)) \subseteq {t \in DOMAIN automata : Matches(regexes[t], w)}
         /\ Lossless =>
              FinalTokens(Reached(w)) = {t \in DOMAIN automata : Matches(regexes[t], w)}
<1>1. FinalTokens(Reached(w)) = {t \in DOMAIN automata : Accepts(automata[t], 0, w)}
  BY DEF FinalTokens, Reached, Accepts
<1>2. \A t \in DOMAIN automata : Accepts(automata[t], 0, w) => Matches(regexes[t], w)
  BY DEF Faithful
<1>3. Lossless => \A t \in DOMAIN automata : Matches(regexes[t], w) => Accepts(automata[t], 0, w)
  BY DEF Lossless
<1>. QED  BY <1>1, <1>2, <1>3

(* A lexicon is refused exactly when a token that is not weak would be       *)
(* overridden.                                                               *)
THEOREM OverlapsRejectedHolds ==
  ASSUME Words = Seq(Symbols)
  PROVE  Spec /\ []AutomataSound /\ []NothingInvented /\ []KeepsLanguage => []OverlapsRejected
<1>1. LexisInv /\ StaysFaithful /\ StaysLossless => OverlapsRejected
  <2> SUFFICES ASSUME LexisInv, StaysFaithful, StaysLossless, phase \in {"overlap", "saved"}
               PROVE  OverlapsRejected
    BY DEF OverlapsRejected
  <2>1. /\ Closed /\ Faithful /\ Lossless /\ StatesReached
        /\ DOMAIN automata = DOMAIN lexicon
    BY DEF LexisInv, GeneratorInv, GeneratorTypes, AutomataKept, StaysFaithful, StaysLossless, Merged
  <2>2. ASSUME NEW w \in Seq(Symbols)
        PROVE  Overlap(Reached(w)) <=>
                 \E t, u \in DOMAIN lexicon :
                   /\ t < u /\ ~lexicon[t].weak
                   /\ Matches(regexes[t], w) /\ Matches(regexes[u], w)
    <3>1. FinalTokens(Reached(w)) = {t \in DOMAIN lexicon : Matches(regexes[t], w)}
      BY <2>1, FinalTokensMatch
    <3>. QED  BY <3>1 DEF Overlap
  <2>3. (\E w \in Seq(Symbols) : Overlap(Reached(w))) <=>
          \E t, u \in DOMAIN lexicon : \E word \in Words :
            /\ t < u /\ ~lexicon[t].weak
            /\ Matches(regexes[t], word) /\ Matches(regexes[u], word)
    BY <2>2
  <2>4. phase = "overlap" => \E w \in Seq(Symbols) : Overlap(Reached(w))
    BY <2>1 DEF StatesReached
  <2>5. phase = "saved" => ~\E w \in Seq(Symbols) : Overlap(Reached(w))
    BY <2>1 DEF StatesReached
  <2>. QED  BY <2>3, <2>4, <2>5 DEF OverlapsRejected
<1>. QED  BY <1>1, InvariantHolds, FaithfulHolds, LosslessHolds, PTL

-----------------------------------------------------------------------------
(* The lexer cuts texts as MaximalMunch says. *)

(* What an expression may be said to mean: what it matches is written in the *)
(* character set, and it may start with what can be continued to a match.    *)
(* The automata are tried with every word.                                   *)
LanguageIsMeant ==
  /\ Words = Seq(Symbols)
  /\ \A node \in Parsed : \A w \in Seq(Bytes) :
       /\ Matches(node, w) => w \in Seq(Symbols)
       /\ CanStart(node, w) <=> \E v \in Seq(Bytes) : Matches(node, w \o v)

(* The automata of the tokens are those of their expressions. *)
AutomataMean ==
  /\ Closed /\ AutomataReady /\ Faithful /\ Lossless
  /\ DOMAIN regexes = DOMAIN automata
  /\ \A t \in DOMAIN regexes : regexes[t] \in Parsed

Possible(w) == \E t \in DOMAIN regexes : CanStart(regexes[t], w)

LEMMA PartsOfWord ==
  ASSUME NEW S, NEW B, NEW w \in Seq(B), NEW v \in Seq(B), w \o v \in Seq(S)
  PROVE  w \in Seq(S) /\ v \in Seq(S)
<1> DEFINE n == Len(w)
           m == Len(v)
           both == w \o v
<1>1. /\ n \in Nat /\ m \in Nat /\ Len(both) = n + m
      /\ w = [i \in 1..n |-> w[i]] /\ v = [i \in 1..m |-> v[i]]
  OBVIOUS
<1>2. \A i \in 1..n : both[i] = w[i]
  OBVIOUS
<1>3. \A i \in 1..m : both[n + i] = v[i]
  OBVIOUS
<1>4. both \in Seq(S)
  OBVIOUS
<1> HIDE DEF n, m, both
<1>5. \A i \in 1..(n + m) : both[i] \in S
  BY <1>1, <1>4
<1>6. \A i \in 1..n : w[i] \in S
  <2>1. \A i \in 1..n : i \in 1..(n + m)
    BY <1>1
  <2>. QED  BY <1>2, <1>5, <2>1
<1>7. \A i \in 1..m : v[i] \in S
  <2>1. \A i \in 1..m : n + i \in 1..(n + m)
    BY <1>1
  <2>. QED  BY <1>3, <1>5, <2>1
<1>8. w \in Seq(S)
  <2>1. [i \in 1..n |-> w[i]] \in [1..n -> S]
    BY <1>6
  <2>. QED  BY <1>1, <2>1
<1>9. v \in Seq(S)
  <2>1. [i \in 1..m |-> v[i]] \in [1..m -> S]
    BY <1>7
  <2>. QED  BY <1>1, <2>1
<1>. QED  BY <1>8, <1>9

LEMMA WordIsBytes ==
  ASSUME BytesAssumption, NEW w \in Seq(Symbols)
  PROVE  w \in Seq(Bytes)
<1> DEFINE S == Symbols
           n == Len(w)
<1>1. n \in Nat /\ w \in [1..n -> S] /\ S \subseteq Bytes
  BY BytesAssumption
<1> HIDE DEF S, n
<1>2. w \in [1..n -> Bytes]
  BY <1>1
<1>. QED  BY <1>1, <1>2

(* A word may be continued to one that a token matches exactly when the      *)
(* merged automaton has a state for it.                                      *)
LEMMA PossibleIs ==
  ASSUME LanguageIsMeant, AutomataMean, NEW w \in Seq(Bytes)
  PROVE  Possible(w) <=> w \in Seq(Symbols) /\ ~NoTarget(Reached(w))
<1>0. Closed /\ DOMAIN regexes = DOMAIN automata /\ Words = Seq(Symbols)
      /\ DOMAIN Reached(w) = DOMAIN automata
  BY DEF AutomataMean, LanguageIsMeant, Reached
<1>1. ASSUME Possible(w) PROVE w \in Seq(Symbols) /\ ~NoTarget(Reached(w))
  <2>1. PICK t \in DOMAIN regexes : CanStart(regexes[t], w)
    BY <1>1 DEF Possible
  <2>2. regexes[t] \in Parsed /\ t \in DOMAIN automata
    BY <1>0, <2>1 DEF AutomataMean
  <2>3. PICK v \in Seq(Bytes) : Matches(regexes[t], w \o v)
    BY <2>1, <2>2 DEF LanguageIsMeant
  <2>4. w \o v \in Seq(Bytes)
    BY <2>3
  <2>5. w \o v \in Seq(Symbols)
    BY <2>2, <2>3, <2>4 DEF LanguageIsMeant
  <2>6. w \in Seq(Symbols) /\ v \in Seq(Symbols)
    BY <2>3, <2>5, PartsOfWord
  <2>7. NodeAfter(automata[t], 0, w \o v) # NoNode
    BY <1>0, <2>2, <2>3, <2>5 DEF AutomataMean, Lossless, Accepts
  <2>8. NodeAfter(automata[t], 0, w) # NoNode
    BY <1>0, <2>2, <2>6, <2>7, ClosedNodes, NodeAfterBoth, NodeAfterNone
  <2>9. Reached(w)[t] # NoNode
    BY <1>0, <2>2, <2>6, <2>8, ReachedIs
  <2>. QED  BY <1>0, <2>2, <2>6, <2>9 DEF NoTarget
<1>2. ASSUME w \in Seq(Symbols), ~NoTarget(Reached(w)) PROVE Possible(w)
  <2>1. PICK t \in DOMAIN automata : Reached(w)[t] # NoNode
    BY <1>0, <1>2 DEF NoTarget
  <2> DEFINE d == automata[t]
             n == NodeAfter(d, 0, w)
  <2>2. n \in DOMAIN d /\ NodesClosed(d) /\ 0 \in NodesOf(d)
    <3>1. NodesClosed(d) /\ 0 \in NodesOf(d)
      BY <1>0, <2>1, ClosedNodes
    <3>2. n # NoNode
      BY <1>0, <1>2, <2>1, ReachedIs
    <3>3. n \in NodesOf(d)
      BY <1>2, <3>1, NodeAfterType
    <3>. QED  BY <3>1, <3>2, <3>3 DEF NodesOf
  <2>3. PICK v \in Seq(Symbols) : Accepts(d, n, v)
    BY <1>0, <2>1, <2>2 DEF AutomataMean, Faithful
  <2>4. NodeAfter(d, 0, w \o v) = NodeAfter(d, n, v)
    BY <1>2, <2>2, <2>3, NodeAfterBoth
  <2>5. Accepts(d, 0, w \o v)
    BY <2>3, <2>4 DEF Accepts
  <2>6. w \o v \in Seq(Symbols)
    <3> DEFINE S == Symbols
    <3>1. w \in Seq(S) /\ v \in Seq(S)
      BY <1>2, <2>3
    <3> HIDE DEF S
    <3>2. w \o v \in Seq(S)
      BY <3>1
    <3>. QED  BY <3>2 DEF S
  <2>7. Matches(regexes[t], w \o v)
    BY <1>0, <2>1, <2>5, <2>6 DEF AutomataMean, Faithful
  <2>8. regexes[t] \in Parsed /\ v \in Seq(Bytes)
    BY <1>0, <2>1, <2>3, WordIsBytes, BytesAssumption DEF AutomataMean
  <2>9. CanStart(regexes[t], w)
    BY <2>7, <2>8 DEF LanguageIsMeant
  <2>. QED  BY <1>0, <2>1, <2>9 DEF Possible
<1>. QED  BY <1>1, <1>2

LEMMA PossiblePrefix ==
  ASSUME LanguageIsMeant, AutomataMean, NEW w \in Seq(Bytes), NEW v \in Seq(Bytes),
         Possible(w \o v)
  PROVE  Possible(w)
<1>1. w \o v \in Seq(Bytes)
  OBVIOUS
<1>2. w \o v \in Seq(Symbols) /\ ~NoTarget(Reached(w \o v))
  BY <1>1, PossibleIs
<1>3. w \in Seq(Symbols) /\ v \in Seq(Symbols)
  BY <1>2, PartsOfWord
<1>4. Closed
  BY DEF AutomataMean
<1>5. ASSUME NoTarget(Reached(w)) PROVE FALSE
  <2>1. ASSUME NEW t \in DOMAIN automata PROVE Reached(w \o v)[t] = NoNode
    <3>1. NodeAfter(automata[t], 0, w) = NoNode
      BY <1>3, <1>4, <1>5, ReachedIs DEF NoTarget, Reached
    <3>2. NodeAfter(automata[t], 0, w \o v) = NoNode
      BY <1>3, <1>4, <3>1, ClosedNodes, NodeAfterBoth, NodeAfterNone
    <3>. QED  BY <3>2 DEF Reached
  <2>2. DOMAIN Reached(w \o v) = DOMAIN automata
    BY DEF Reached
  <2>. QED  BY <1>2, <2>1, <2>2 DEF NoTarget
<1>. QED  BY <1>3, <1>5, PossibleIs

LEMMA SubSeqSplit ==
  ASSUME NEW S, NEW s \in Seq(S), NEW a \in Nat, NEW b \in Nat, NEW c \in Nat,
         a <= b, b <= c, c <= Len(s)
  PROVE  /\ SubSeq(s, a + 1, b) \in Seq(S) /\ SubSeq(s, b + 1, c) \in Seq(S)
         /\ SubSeq(s, a + 1, c) = SubSeq(s, a + 1, b) \o SubSeq(s, b + 1, c)
<1> DEFINE u == SubSeq(s, a + 1, b)
           v == SubSeq(s, b + 1, c)
           w == SubSeq(s, a + 1, c)
           n == b - a
           m == c - b
<1>1. n \in Nat /\ m \in Nat /\ a + n = b /\ b + m = c /\ Len(s) \in Nat
  OBVIOUS
<1>2. u \in Seq(S) /\ Len(u) = n
  OBVIOUS
<1>3. v \in Seq(S) /\ Len(v) = m
  OBVIOUS
<1>4. w \in Seq(S) /\ Len(w) = n + m
  OBVIOUS
<1>5. \A i \in 1..n : u[i] = s[a + i]
  OBVIOUS
<1>6. \A i \in 1..m : v[i] = s[b + i]
  OBVIOUS
<1>7. \A i \in 1..(n + m) : w[i] = s[a + i]
  OBVIOUS
<1> HIDE DEF u, v, w, n, m
<1>8. u \o v \in Seq(S) /\ Len(u \o v) = n + m
  BY <1>1, <1>2, <1>3
<1>a. \A i \in 1..Len(u) : (u \o v)[i] = u[i]
  BY <1>2, <1>3
<1>b. \A i \in 1..Len(v) : (u \o v)[Len(u) + i] = v[i]
  BY <1>2, <1>3
<1> DEFINE both == u \o v
<1>c. /\ \A i \in 1..n : both[i] = u[i]
      /\ \A i \in 1..m : both[n + i] = v[i]
  BY <1>2, <1>3, <1>a, <1>b
<1> HIDE DEF both
<1>9. ASSUME NEW i \in 1..(n + m) PROVE both[i] = w[i]
  <2>1. CASE i <= n
    <3>1. i \in 1..n
      BY <1>1, <2>1
    <3>. QED  BY <1>5, <1>7, <1>c, <3>1
  <2>2. CASE i > n
    <3> DEFINE j == i - n
    <3>1. j \in 1..m /\ n + j = i /\ b + j = a + i
      BY <1>1, <2>2
    <3> HIDE DEF j
    <3>2. both[n + j] = v[j] /\ v[j] = s[b + j] /\ w[i] = s[a + i]
      BY <1>6, <1>7, <1>c, <3>1
    <3>. QED  BY <3>1, <3>2
  <2>. QED  BY <1>1, <2>1, <2>2
<1>10. w = both
  BY <1>1, <1>4, <1>8, <1>9 DEF both
<1>. QED  BY <1>2, <1>3, <1>10 DEF both, u, v, w

(* The longest word that a token may still begin with is where no longer one *)
(* may.                                                                      *)
LEMMA LongestIs ==
  ASSUME LanguageIsMeant, AutomataMean, AnalyzerTypes,
         NEW n \in Nat, location + n <= Len(source), Possible(Munching!Word(n)),
         location + n < Len(source) => ~Possible(Munching!Word(n + 1))
  PROVE  Munching!Longest = n
<1> DEFINE Holds(k) ==
             /\ Munching!Viable(k)
             /\ location + k < Len(source) => ~Munching!Viable(k + 1)
           last == Len(source) - location
<1>1. source \in Seq(Bytes) /\ location \in Nat /\ Len(source) \in Nat
  BY SourceType DEF AnalyzerTypes
<1>2. \A k : Munching!Viable(k) <=> Possible(Munching!Word(k))
  BY DEF Munching!Viable, Possible
<1>3. ASSUME NEW i \in 0..last, NEW j \in 0..last, i < j, Munching!Viable(j)
      PROVE  Munching!Viable(i + 1)
  <2>1. i + 1 \in Nat /\ j \in Nat /\ i + 1 <= j /\ location + j <= Len(source)
    BY <1>1, <1>3
  <2> DEFINE b == location + (i + 1)
             c == location + j
  <2>2. b \in Nat /\ c \in Nat /\ location <= b /\ b <= c /\ c <= Len(source)
    BY <1>1, <2>1
  <2> HIDE DEF b, c
  <2>3. /\ SubSeq(source, location + 1, b) \in Seq(Bytes)
        /\ SubSeq(source, b + 1, c) \in Seq(Bytes)
        /\ SubSeq(source, location + 1, c)
             = SubSeq(source, location + 1, b) \o SubSeq(source, b + 1, c)
    BY <1>1, <2>2, SubSeqSplit
  <2>4. Possible(SubSeq(source, location + 1, c))
    BY <1>2, <1>3 DEF Munching!Word, c
  <2>5. Possible(SubSeq(source, location + 1, b))
    BY <2>3, <2>4, PossiblePrefix
  <2>. QED  BY <1>2, <2>5 DEF Munching!Word, b
<1>4. n \in 0..last /\ Holds(n)
  BY <1>1, <1>2
<1>5. ASSUME NEW k \in 0..last, Holds(k) PROVE k = n
  <2>1. ~(k < n)
    <3>1. SUFFICES ASSUME k < n PROVE FALSE
      OBVIOUS
    <3>2. location + k < Len(source) /\ Munching!Viable(k + 1)
      BY <1>1, <1>3, <1>4, <1>5, <3>1
    <3>. QED  BY <1>5, <3>2
  <2>2. ~(n < k)
    <3>1. SUFFICES ASSUME n < k PROVE FALSE
      OBVIOUS
    <3>2. location + n < Len(source) /\ Munching!Viable(n + 1)
      BY <1>1, <1>3, <1>4, <1>5, <3>1
    <3>. QED  BY <1>4, <3>2
  <2>. QED  BY <1>1, <2>1, <2>2
<1>6. Munching!Longest = CHOOSE k \in 0..last : Holds(k)
  BY Zenon DEF Munching!Longest
<1> HIDE DEF Holds, last
<1>. QED  BY <1>4, <1>5, <1>6

(* The word at the location that the merged automaton has a state for, when  *)
(* the next byte leads it nowhere, is the longest that may begin a token.    *)
LEMMA MunchAt ==
  ASSUME LanguageIsMeant, AutomataMean, AnalyzerTypes,
         NEW n \in Nat, location + n <= Len(source),
         NEW w \in Seq(Symbols), w = SubSeq(source, location + 1, location + n),
         ~NoTarget(Reached(w)),
         location + n < Len(source) =>
           \/ source[location + n + 1] \notin Symbols
           \/ NoTarget(Reached(Append(w, source[location + n + 1])))
  PROVE  /\ Munching!Longest = n /\ Munching!Word(n) = w
         /\ Munching!Candidates = FinalTokens(Reached(w))
<1>1. source \in Seq(Bytes) /\ location \in Nat /\ Len(source) \in Nat
  BY SourceType DEF AnalyzerTypes
<1>2. Munching!Word(n) = w /\ w \in Seq(Bytes)
  BY WordIsBytes, BytesAssumption DEF Munching!Word
<1>3. Possible(w)
  BY <1>2, PossibleIs
<1>4. ASSUME location + n < Len(source) PROVE ~Possible(Munching!Word(n + 1))
  <2> DEFINE b == location + n
             c == source[b + 1]
  <2>1. b \in Nat /\ location <= b /\ b < Len(source) /\ location + (n + 1) = b + 1
    BY <1>1, <1>4
  <2>2. c \in Bytes
    BY <1>1, <2>1
  <2>3. c \notin Symbols \/ NoTarget(Reached(Append(w, c)))
    BY <1>4
  <2>4. w = SubSeq(source, location + 1, b)
    OBVIOUS
  <2> HIDE DEF b
  <2>5. Munching!Word(n + 1) = Append(w, c)
    <3>1. SubSeq(source, location + 1, b + 1) = Append(w, c)
      BY <1>1, <2>1, <2>4, SubSeqLonger
    <3>. QED  BY <2>1, <3>1 DEF Munching!Word
  <2> HIDE DEF c
  <2>6. Append(w, c) \in Seq(Bytes)
    BY <1>2, <2>2
  <2>7. c \notin Symbols => Append(w, c) \notin Seq(Symbols)
    <3> DEFINE S == Symbols
               m == Len(w)
               v == Append(w, c)
    <3> HIDE DEF S
    <3>1. m \in Nat /\ Len(v) = m + 1 /\ v[m + 1] = c
      BY <1>2, <2>2
    <3> HIDE DEF v, m
    <3>2. v \in Seq(S) => v[m + 1] \in S
      BY <3>1
    <3>. QED  BY <3>1, <3>2 DEF S, v
  <2>8. ~Possible(Append(w, c))
    BY <2>3, <2>6, <2>7, PossibleIs
  <2>. QED  BY <2>5, <2>8
<1>5. Munching!Longest = n
  BY <1>2, <1>3, <1>4, LongestIs
<1>6. Munching!Candidates = {t \in DOMAIN regexes : Matches(regexes[t], w)}
  BY <1>2, <1>5 DEF Munching!Candidates
<1>7. FinalTokens(Reached(w)) = {t \in DOMAIN regexes : Matches(regexes[t], w)}
  BY FinalTokensMatch DEF AutomataMean, LanguageIsMeant
<1>. QED  BY <1>2, <1>5, <1>6, <1>7

(* Of final tokens that do not overlap, the last is the one that wins. *)
LEMMA WinnerIs ==
  ASSUME Closed, NEW m \in Mappings, ~Overlap(m), FinalTokens(m) # {},
         Munching!Candidates = FinalTokens(m)
  PROVE  Munching!Winner = Max(FinalTokens(m))
<1> DEFINE F == FinalTokens(m)
           Wins(t) == \A u \in F \ {t} : u < t /\ lexicon[u].weak
           x == Max(F)
<1>1. F \subseteq Nat /\ x \in F /\ \A u \in F : u <= x
  BY FinalTokensType
<1>2. \A t, u \in F : t < u => lexicon[t].weak
  BY DEF Overlap
<1>3. Munching!Winner = CHOOSE t \in F : Wins(t)
  BY Zenon DEF Munching!Winner
<1> HIDE DEF F, x
<1>4. Wins(x)
  <2>1. ASSUME NEW u \in F \ {x} PROVE u < x /\ lexicon[u].weak
    <3>1. u < x
      BY <1>1
    <3>. QED  BY <1>1, <1>2, <3>1
  <2>. QED  BY <2>1
<1>5. ASSUME NEW t \in F, Wins(t) PROVE t = x
  BY <1>1, <1>5
<1> HIDE DEF Wins
<1>6. (CHOOSE t \in F : Wins(t)) = x
  BY <1>1, <1>4, <1>5
<1>. QED  BY <1>3, <1>6 DEF F, x

LEMMA TakeIs ==
  ASSUME NEW type, NEW begin, NEW end, Take(Token(type, begin, end))
  PROVE  /\ source' = source
         /\ type = ERROR => /\ current' = Token(ERROR, begin, begin + 1)
                            /\ location' = begin + 1
         /\ type # ERROR => current' = Token(type, begin, end) /\ location' = end
<1> DEFINE token == Token(type, begin, end)
           last == IF type = ERROR THEN begin + 1 ELSE end
<1>1. token = [type |-> type, begin |-> begin, end |-> end]
  BY DEF Token
<1>2. token.type = type /\ token.begin = begin /\ token.end = end
  BY <1>1
<1>3. current' = [token EXCEPT !.end = last] /\ location' = last /\ source' = source
  BY <1>2 DEF Take
<1>4. [token EXCEPT !.end = last] = [type |-> type, begin |-> begin, end |-> last]
  <2> HIDE DEF last, token
  <2>. QED  BY <1>1
<1>. QED  BY <1>3, <1>4 DEF Token

(* A token that is taken where the longest word that may begin one ends. *)
LEMMA MunchTakes ==
  ASSUME LanguageIsMeant, AutomataMean, AnalyzerTypes, location < Len(source),
         NEW n \in Nat, location + n <= Len(source),
         NEW w \in Seq(Symbols), w = SubSeq(source, location + 1, location + n),
         ~NoTarget(Reached(w)), ~Overlap(Reached(w)),
         location + n < Len(source) =>
           \/ source[location + n + 1] \notin Symbols
           \/ NoTarget(Reached(Append(w, source[location + n + 1]))),
         location + n < Len(source) =>
           \/ source[location + n + 1] \in Symbols
           \/ \A c \in Symbols : NoTarget(Reached(Append(w, c))),
         source' = source,
         LET F == FinalTokens(Reached(w))
             end == IF F = {} THEN location + 1 ELSE location + n
         IN  current' = Token(IF F = {} THEN ERROR ELSE Max(F), location, end) /\ location' = end
  PROVE  Munching!Munch
<1> DEFINE F == FinalTokens(Reached(w))
           last == IF F = {} THEN location + 1 ELSE location + n
<1>1. Munching!Longest = n /\ Munching!Word(n) = w /\ Munching!Candidates = F
  BY MunchAt
<1>2. ~Munching!StopsAtWideByte
  <2>1. SUFFICES ASSUME Munching!StopsAtWideByte PROVE FALSE
    OBVIOUS
  <2>2. /\ location + n < Len(source) /\ source[location + n + 1] \notin Symbols
        /\ \E t \in DOMAIN regexes : \E c \in Symbols : CanStart(regexes[t], Append(w, c))
    BY <1>1, <2>1 DEF Munching!StopsAtWideByte
  <2>3. PICK c \in Symbols : Possible(Append(w, c))
    BY <2>2 DEF Possible
  <2>4. Append(w, c) \in Seq(Bytes)
    <3>1. w \in Seq(Bytes) /\ c \in Bytes
      BY WordIsBytes, BytesAssumption
    <3>. QED  BY <3>1
  <2>5. ~NoTarget(Reached(Append(w, c)))
    BY <2>3, <2>4, PossibleIs
  <2>. QED  BY <2>2, <2>5
<1>3. F # {} => Munching!Winner = Max(F)
  BY <1>1, WinnerIs, ReachedIs DEF AutomataMean
<1>4. current' = Token(IF F = {} THEN ERROR ELSE Max(F), location, last) /\ location' = last
  OBVIOUS
<1> HIDE DEF F
<1>5. location' = current'.end
  <2>1. current'.end = last
    BY <1>4 DEF Token
  <2>. QED  BY <1>4, <2>1
<1>6. current' = IF F = {} THEN Munching!Token(ERROR, location, location + 1)
                 ELSE Munching!Token(Max(F), location, location + n)
  BY <1>4 DEF Token, Munching!Token
<1>. QED  BY <1>1, <1>2, <1>3, <1>5, <1>6 DEF Munching!Munch, Munching!ERROR, ERROR

(* What is known of the automata when tokens are cut. *)
LEMMA AutomataMeanThen ==
  ASSUME LexisInv, StaysFaithful, StaysExact, pc \notin {"unread", "idle"}
  PROVE  AutomataMean /\ DOMAIN automata = DOMAIN lexicon
<1>1. phase = "saved" /\ FirstSources(lexicon) # {}
  BY DEF LexisInv, AnalyzerTypes
<1>. QED  BY <1>1 DEF LexisInv, GeneratorInv, GeneratorTypes, AutomataKept, StaysFaithful,
                      StaysExact, Merged, AutomataMean

LEMMA ScanIs ==
  ASSUME LexisInv, pc = "scan", NEW label, Labelled(table, label), Scanning(label),
         location < Len(source)
  PROVE  /\ source \in Seq(Bytes) /\ Len(source) \in Nat /\ location \in Nat
         /\ scanned \in Nat /\ scanned - location \in Nat
         /\ location + (scanned - location) = scanned /\ scanned <= Len(source)
         /\ Scan \in Seq(Symbols) /\ Scan = SubSeq(source, location + 1, scanned)
         /\ label[scanState + 1] = Reached(Scan)
BY SourceType DEF LexisInv, AnalyzerTypes, Scanning, Scan

LEMMA FinishMunches ==
  ASSUME LexisInv, LanguageIsMeant, StaysFaithful, StaysExact, FinishToken
  PROVE  Munching!Munch \/ Munching!Astray
<1> USE CharactersAssumption
<1>0. pc = "scan" /\ AutomataMean /\ DOMAIN automata = DOMAIN lexicon /\ AnalyzerTypes
      /\ location \in Nat /\ scanned \in Nat /\ Len(source) \in Nat /\ Closed
  BY AutomataMeanThen, SourceType DEF FinishToken, LexisInv, AnalyzerTypes, AutomataMean
<1>1. PICK c \in BytesAt(scanned) \cap Symbols :
        /\ JumpOn(c).kind = "finish"
        /\ Take(Token(JumpOn(c).token, location, scanned + 1 - JumpOn(c).shift))
  BY DEF FinishToken
<1>2. PICK label : Labelled(table, label) /\ Scanning(label)
  BY <1>0 DEF LexisInv, TableRead
<1> DEFINE from == label[scanState + 1]
           to == Target(from, c)
           token == JumpOn(c).token
           shift == JumpOn(c).shift
           end == scanned + 1 - shift
<1>3. /\ token \in DOMAIN lexicon
      /\ \/ /\ NoTarget(to) /\ FinalTokens(from) # {} /\ token = Max(FinalTokens(from))
            /\ shift = 1 /\ location < scanned
         \/ /\ ~NoTarget(to) /\ FinalTokens(to) # {} /\ ~Overlap(to)
            /\ token = Max(FinalTokens(to))
            /\ \A e \in Symbols : NoTarget(Target(to, e))
            /\ shift = 0 /\ (location < Len(source) => scanned < Len(source))
  <2>1. \A s, t : Finish(s, t).token = t
    BY DEF Finish
  <2>. QED  BY <1>0, <1>1, <1>2, <2>1, FinishIs
<1>4. ~Overlap(from) /\ (location < Len(source) =>
                           \/ scanned < Len(source) /\ c = source[scanned + 1]
                           \/ scanned = Len(source) /\ NoTarget(to))
  BY <1>0, <1>1, <1>2, TurnIs
<1>5. token # ERROR
  <2>1. DOMAIN lexicon \subseteq Nat
    BY <1>0 DEF AutomataMean, Closed
  <2>. QED  BY <1>3, <2>1 DEF ERROR
<1>6. source' = source /\ current' = Token(token, location, end) /\ location' = end
  <2> HIDE DEF end, token
  <2>1. Take(Token(token, location, end))
    BY <1>1 DEF end, token
  <2>. QED  BY <1>5, <2>1, TakeIs
<1> HIDE DEF from, to, token, shift
<1>7. CASE location < Len(source)
  <2> DEFINE n == scanned - location
  <2>1. /\ n \in Nat /\ location + n = scanned /\ scanned <= Len(source)
        /\ source \in Seq(Bytes)
        /\ Scan \in Seq(Symbols) /\ Scan = SubSeq(source, location + 1, scanned)
        /\ from = Reached(Scan)
    BY <1>0, <1>2, <1>7, ScanIs DEF from
  <2>2. to = Reached(Append(Scan, c)) /\ c \in Symbols
    BY <1>0, <1>1, <2>1, ReachedIs DEF to
  <2> HIDE DEF n
  <2>3. ~NoTarget(from)
    BY <1>2 DEF Scanning, from
  <2>4. CASE shift = 1
    <3>1. NoTarget(to) /\ FinalTokens(from) # {} /\ token = Max(FinalTokens(from))
          /\ end = location + n
      BY <1>0, <1>3, <2>1, <2>4
    <3>2. location + n < Len(source) =>
            source[location + n + 1] \in Symbols
            /\ NoTarget(Reached(Append(Scan, source[location + n + 1])))
      BY <1>4, <1>7, <2>1, <2>2, <3>1
    <3>3. Munching!Munch
      BY <1>0, <1>4, <1>6, <1>7, <2>1, <2>3, <3>1, <3>2, MunchTakes
    <3>. QED  BY <3>3
  <2>5. CASE shift = 0
    <3> DEFINE w == Append(Scan, c)
               k == n + 1
    <3>1. /\ ~NoTarget(to) /\ FinalTokens(to) # {} /\ ~Overlap(to)
          /\ token = Max(FinalTokens(to)) /\ \A e \in Symbols : NoTarget(Target(to, e))
          /\ scanned < Len(source) /\ c = source[scanned + 1]
      BY <1>3, <1>4, <1>7, <2>5
    <3>2. k \in Nat /\ location + k = scanned + 1 /\ end = location + k /\ location + k <= Len(source)
      BY <1>0, <2>1, <2>5, <3>1
    <3>3. w \in Seq(Symbols)
      <4> DEFINE S == Symbols
                 v == Scan
      <4>1. v \in Seq(S) /\ c \in S
        BY <2>1, <2>2
      <4> HIDE DEF S, v
      <4>2. Append(v, c) \in Seq(S)
        BY <4>1
      <4>. QED  BY <4>2 DEF S, v
    <3>4. w = SubSeq(source, location + 1, scanned + 1)
      <4>1. location <= scanned
        BY <1>0, <2>1
      <4>2. SubSeq(source, location + 1, scanned + 1)
              = Append(SubSeq(source, location + 1, scanned), source[scanned + 1])
        BY <1>0, <2>1, <3>1, <4>1, SubSeqLonger
      <4>. QED  BY <2>1, <3>1, <4>2
    <3>5. to = Reached(w)
      BY <2>2
    <3> HIDE DEF w, k
    <3>6. w = SubSeq(source, location + 1, location + k)
      BY <3>2, <3>4
    <3>7. \A e \in Symbols : NoTarget(Reached(Append(w, e)))
      BY <1>0, <3>1, <3>3, <3>5, ReachedIs
    <3>8. Munching!Munch
      BY <1>0, <1>6, <1>7, <3>1, <3>2, <3>3, <3>5, <3>6, <3>7, MunchTakes
    <3>. QED  BY <3>8
  <2>. QED  BY <1>3, <2>4, <2>5
<1>8. CASE ~(location < Len(source))
  <2>1. location > Len(source) /\ location <= scanned
    BY <1>0, <1>2, <1>8 DEF Scanning
  <2>2. location' > location
    BY <1>0, <1>3, <1>6, <2>1
  <2>. QED  BY <1>6, <2>1, <2>2 DEF Munching!Astray
<1>. QED  BY <1>7, <1>8

LEMMA RejectMunches ==
  ASSUME LexisInv, LanguageIsMeant, StaysFaithful, StaysExact, RejectSymbol
  PROVE  Munching!Munch \/ Munching!Astray
<1> USE CharactersAssumption
<1>0. pc = "scan" /\ AutomataMean /\ AnalyzerTypes
      /\ location \in Nat /\ scanned \in Nat /\ Len(source) \in Nat /\ Closed
  BY AutomataMeanThen, SourceType DEF RejectSymbol, LexisInv, AnalyzerTypes, AutomataMean
<1>1. PICK c \in BytesAt(scanned) \cap Symbols :
        JumpOn(c).kind = "reject" /\ Take(Token(ERROR, location, scanned + 1))
  BY DEF RejectSymbol
<1>2. PICK label : Labelled(table, label) /\ Scanning(label)
  BY <1>0 DEF LexisInv, TableRead
<1> DEFINE from == label[scanState + 1]
           to == Target(from, c)
<1>3. /\ JumpIs(label, JumpOn(c), from, to) /\ ~Overlap(from)
      /\ location < Len(source) =>
           \/ scanned < Len(source) /\ c = source[scanned + 1]
           \/ scanned = Len(source) /\ NoTarget(to)
  BY <1>0, <1>1, <1>2, TurnIs
<1>4. source' = source /\ current' = Token(ERROR, location, location + 1)
      /\ location' = location + 1
  <2> DEFINE end == scanned + 1
  <2> HIDE DEF end
  <2>1. Take(Token(ERROR, location, end))
    BY <1>1 DEF end
  <2>. QED  BY <2>1, TakeIs
<1> HIDE DEF from, to
<1>5. NoTarget(to) /\ FinalTokens(from) = {}
  <2>1. \A s, t : Finish(s, t).kind # "reject"
    BY DEF Finish
  <2>2. JumpOn(c) = EndOf(from) /\ NoTarget(to)
    BY <1>1, <1>3, <2>1 DEF JumpIs
  <2>. QED  BY <1>1, <2>1, <2>2 DEF EndOf
<1>6. CASE location < Len(source)
  <2> DEFINE n == scanned - location
  <2>1. /\ n \in Nat /\ location + n = scanned /\ scanned <= Len(source)
        /\ Scan \in Seq(Symbols) /\ Scan = SubSeq(source, location + 1, scanned)
        /\ from = Reached(Scan)
    BY <1>0, <1>2, <1>6, ScanIs DEF from
  <2>2. to = Reached(Append(Scan, c)) /\ c \in Symbols
    BY <1>0, <1>1, <2>1, ReachedIs DEF to
  <2> HIDE DEF n
  <2>3. ~NoTarget(from)
    BY <1>2 DEF Scanning, from
  <2>4. location + n < Len(source) =>
          source[location + n + 1] \in Symbols
          /\ NoTarget(Reached(Append(Scan, source[location + n + 1])))
    BY <1>3, <1>5, <1>6, <2>1, <2>2
  <2>5. Munching!Munch
    BY <1>0, <1>3, <1>4, <1>5, <1>6, <2>1, <2>3, <2>4, MunchTakes
  <2>. QED  BY <2>5
<1>7. CASE ~(location < Len(source))
  <2>1. location > Len(source)
    BY <1>0, <1>2, <1>7 DEF Scanning
  <2>. QED  BY <1>0, <1>4, <2>1 DEF Munching!Astray
<1>. QED  BY <1>6, <1>7

LEMMA WideMunches ==
  ASSUME LexisInv, LanguageIsMeant, StaysFaithful, StaysExact, WideSymbol
  PROVE  Munching!Astray
<1> USE CharactersAssumption
<1>0. pc = "scan" /\ AutomataMean /\ AnalyzerTypes
      /\ location \in Nat /\ scanned \in Nat /\ Len(source) \in Nat /\ Closed
  BY AutomataMeanThen, SourceType DEF WideSymbol, LexisInv, AnalyzerTypes, AutomataMean
<1>1. PICK label : Labelled(table, label) /\ Scanning(label)
  BY <1>0 DEF LexisInv, TableRead
<1>2. /\ source' = source /\ current' = Token(ERROR, scanned + 1, scanned + 1 + 1)
      /\ location' = scanned + 1 + 1
  <2> DEFINE end == scanned + 1
  <2>1. Take(Token(ERROR, end, end))
    BY DEF WideSymbol
  <2> HIDE DEF end
  <2>2. source' = source /\ current' = Token(ERROR, end, end + 1) /\ location' = end + 1
    BY <2>1, TakeIs
  <2>. QED  BY <2>2 DEF end
<1>3. location' > location /\ current'.type = ERROR
  <2>1. location <= scanned
    BY <1>1 DEF Scanning
  <2>2. current'.type = ERROR
    BY <1>2 DEF Token
  <2>. QED  BY <1>0, <1>2, <2>1, <2>2
<1>4. CASE location < Len(source)
  <2> DEFINE n == scanned - location
             from == label[scanState + 1]
  <2>1. /\ n \in Nat /\ location + n = scanned /\ scanned <= Len(source)
        /\ Scan \in Seq(Symbols) /\ Scan = SubSeq(source, location + 1, scanned)
        /\ from = Reached(Scan)
    BY <1>0, <1>1, <1>4, ScanIs
  <2> HIDE DEF n
  <2>2. scanned < Len(source) /\ source[scanned + 1] \notin Symbols
    <3>1. ~(BytesAt(scanned) \subseteq Symbols)
      BY DEF WideSymbol
    <3>2. scanned # Len(source)
      <4>1. SUFFICES ASSUME scanned = Len(source) PROVE FALSE
        OBVIOUS
      <4>2. BytesAt(scanned) = {Eof}
        BY <1>0, <4>1 DEF BytesAt
      <4>. QED  BY <3>1, <4>2, CharactersType
    <3>3. scanned < Len(source)
      BY <1>0, <2>1, <3>2
    <3>4. BytesAt(scanned) = {source[scanned + 1]}
      BY <3>3 DEF BytesAt
    <3>. QED  BY <3>1, <3>3, <3>4
  <2>3. ~NoTarget(from) /\ from \in Mappings /\ scanState + 1 \in 1..Len(table)
    BY <1>0, <1>1, <2>1, ReachedIs DEF Scanning
  <2>4. \E c \in Symbols : ~NoTarget(Target(from, c))
    <3>1. PICK t \in DOMAIN automata : from[t] # NoNode /\ from[t] \in DOMAIN automata[t]
      <4>1. DOMAIN from = DOMAIN automata
            /\ \A t \in DOMAIN automata : from[t] \in (DOMAIN automata[t]) \cup {NoNode}
        BY <2>3 DEF Mappings
      <4>. QED  BY <2>3, <4>1 DEF NoTarget
    <3> DEFINE d == automata[t]
               node == from[t]
    <3>2. PICK v \in Seq(Symbols) : Accepts(d, node, v)
      BY <1>0, <3>1 DEF AutomataMean, Faithful, LanguageIsMeant
    <3>3. CASE v = <<>>
      <4>1. d[node].is_final
        BY <3>2, <3>3, NodeAfterEmpty DEF Accepts
      <4>2. t \in FinalTokens(from)
        <5>1. DOMAIN from = DOMAIN automata
          BY <2>3 DEF Mappings
        <5>. QED  BY <3>1, <4>1, <5>1 DEF FinalTokens
      <4>. QED  BY <1>1, <2>3, <4>2 DEF Labelled
    <3>4. CASE v # <<>>
      <4>1. PICK c \in Symbols, u \in Seq(Symbols) : v = <<c>> \o u
        <5> DEFINE S == Symbols
        <5>1. v \in Seq(S) /\ v # <<>>
          BY <3>4
        <5> HIDE DEF S
        <5>2. Head(v) \in S /\ Tail(v) \in Seq(S) /\ v = <<Head(v)>> \o Tail(v)
          BY <5>1
        <5>. QED  BY <5>2 DEF S
      <4>2. NodesClosed(d) /\ node \in NodesOf(d) /\ <<c>> \in Seq(Symbols)
        <5>1. NodesClosed(d)
          BY <1>0, <3>1, ClosedNodes
        <5>2. <<c>> \in Seq(Symbols)
          <6> DEFINE S == Symbols
          <6>1. c \in S
            OBVIOUS
          <6> HIDE DEF S
          <6>2. <<c>> \in Seq(S)
            BY <6>1
          <6>. QED  BY <6>2 DEF S
        <5>. QED  BY <3>1, <5>1, <5>2 DEF NodesOf
      <4> HIDE DEF d, node
      <4>3. NodeAfter(d, node, v) = NodeAfter(d, Step(d, node, c), u)
        <5>1. NodeAfter(d, node, <<c>>) = Step(d, node, c)
          BY <4>2, NodeAfterOne
        <5>2. NodeAfter(d, node, <<c>> \o u) = NodeAfter(d, NodeAfter(d, node, <<c>>), u)
          BY <4>2, NodeAfterBoth
        <5>. QED  BY <4>1, <5>1, <5>2
      <4>4. Step(d, node, c) # NoNode
        BY <3>2, <4>1, <4>3, NodeAfterNone DEF Accepts
      <4>5. Target(from, c)[t] # NoNode /\ t \in DOMAIN Target(from, c)
        <5>1. DOMAIN from = DOMAIN automata
          BY <2>3 DEF Mappings
        <5>. QED  BY <3>1, <4>4, <5>1 DEF Target, Step, d, node
      <4>. QED  BY <4>5 DEF NoTarget
    <3>. QED  BY <3>3, <3>4
  <2>5. PICK c \in Symbols : ~NoTarget(Target(from, c))
    BY <2>4
  <2> DEFINE w == Append(Scan, c)
  <2>6. w \in Seq(Symbols) /\ w \in Seq(Bytes)
    <3> DEFINE S == Symbols
               v == Scan
    <3>1. v \in Seq(S) /\ c \in S
      BY <2>1, <2>5
    <3> HIDE DEF S, v
    <3>2. Append(v, c) \in Seq(S)
      BY <3>1
    <3>3. w \in Seq(Symbols)
      BY <3>2 DEF S, v
    <3>. QED  BY <3>3, WordIsBytes, BytesAssumption
  <2>7. Possible(w)
    <3>1. Target(from, c) = Reached(w)
      BY <1>0, <2>1, ReachedIs
    <3>2. ~NoTarget(Reached(w))
      BY <2>5, <3>1
    <3> HIDE DEF w
    <3>. QED  BY <1>0, <2>6, <3>2, PossibleIs
  <2>8. Munching!Longest = n /\ Munching!Word(n) = Scan
    BY <1>0, <2>1, <2>2, <2>3, MunchAt
  <2>9. Munching!StopsAtWideByte
    BY <2>1, <2>2, <2>5, <2>7, <2>8 DEF Possible, Munching!StopsAtWideByte
  <2>. QED  BY <1>2, <1>3, <1>4, <2>9 DEF Munching!Astray, Munching!ERROR, ERROR
<1>5. CASE ~(location < Len(source))
  <2>1. location > Len(source)
    BY <1>0, <1>1, <1>5 DEF Scanning
  <2>. QED  BY <1>2, <1>3, <2>1 DEF Munching!Astray
<1>. QED  BY <1>4, <1>5

(* Every step of the lexer is one of MaximalMunch, or does not change the    *)
(* tokens.                                                                   *)
LEMMA StepMunches ==
  ASSUME LexisInv, LanguageIsMeant, StaysFaithful, StaysExact, [Next]_vars
  PROVE  [Munching!Next]_<<source, location, current>>
<1>1. CASE FinishToken \/ RejectSymbol \/ WideSymbol
  BY <1>1, FinishMunches, RejectMunches, WideMunches DEF Munching!Next
<1>2. CASE AtEnd
  <2>1. location = Len(source) /\ Take(Token(END, location, location)) /\ END # ERROR
    BY <1>2 DEF AtEnd, END, ERROR
  <2>2. source' = source /\ current' = Token(END, location, location) /\ location' = location
    BY <2>1, TakeIs
  <2>. QED  BY <2>1, <2>2 DEF Munching!Next, Munching!AtEnd, Munching!Token, Token, Munching!END, END
<1>3. CASE SetSourceView
  <2>1. location' = 0 /\ current' = current
        /\ (pc = "idle" \/ current.type = END)
    BY <1>3 DEF SetSourceView
  <2>2. pc = "idle" => current.type = NoToken.type
    BY DEF LexisInv, AnalyzerTypes
  <2>3. NoToken.type = -3 /\ Munching!NoToken.type = -3
    BY DEF NoToken, Munching!NoToken, Token, Munching!Token
  <2>. QED  BY <2>1, <2>2, <2>3 DEF Munching!Next, Munching!Open, Munching!END, END
<1>4. CASE GeneratorNext /\ UNCHANGED analyzerVars
  BY <1>4 DEF analyzerVars
<1>5. CASE Construct \/ Call \/ Start \/ Jump
  BY <1>5 DEF Construct, Call, Start, Jump
<1>6. CASE UNCHANGED vars
  BY <1>6 DEF vars, analyzerVars
<1>. QED  BY <1>1, <1>2, <1>3, <1>4, <1>5, <1>6 DEF Next, Lexing

(* The generator, its table and the loops over it implement MaximalMunch,    *)
(* whatever the characters, the lexicons and the texts are, for automata     *)
(* that are those of their expressions (AutomataSound, AutomataExact and     *)
(* NothingInvented).                                                         *)
THEOREM Munches ==
  ASSUME LanguageIsMeant
  PROVE  Spec /\ []AutomataSound /\ []AutomataExact /\ []NothingInvented => MunchSpec
<1>1. Init => Munching!Init
  BY DEF Init, AnalyzerInit, Munching!Init, NoToken, Munching!NoToken, Token, Munching!Token
<1>2. LexisInv /\ StaysFaithful /\ StaysExact /\ [Next]_vars
        => [Munching!Next]_<<source, location, current>>
  BY StepMunches
<1>. QED  BY <1>1, <1>2, InvariantHolds, FaithfulHolds, ExactHolds, PTL
          DEF Spec, MunchSpec, Munching!Spec
=============================================================================
