------------------------ MODULE LRParserPoints_proofs ------------------------
(* Proofs about the places that recovery returns to: the recovery tree and   *)
(* the stack of states agree on the blocks that are open.                    *)
EXTENDS LRParser_proofs

Up(x) == IF x = OpenBrace THEN 1 ELSE 0
Down(x) == IF x = CloseBrace THEN 1 ELSE 0

(* Each place of the stack lies in some number of blocks, the root counted:  *)
(* its height, which only the braces on the stack change.                    *)
Heights(h, n) ==
  /\ h \in [1..Len(states) -> Nat]
  /\ h[1] = 1 /\ h[Len(states)] = n
  /\ \A i \in 1..(Len(states) - 1) :
       \E x \in Symbols(grammar) :
         Leads(grammar, states[i], x, states[i + 1]) /\ h[i + 1] + Down(x) = h[i] + Up(x)

(* A node of the tree marks the place where its block was entered: nothing   *)
(* above it lies outside of the block.                                       *)
Marks(h, n) ==
  /\ tree[1] = 1
  /\ \A j \in 1..n : /\ tree[j] \in 1..Len(states) /\ h[tree[j]] = j
                     /\ \A i \in tree[j]..Len(states) : h[i] >= j
  /\ \A j \in 2..n : /\ tree[j] > 1 /\ h[tree[j] - 1] = j - 1
                     /\ states[tree[j]] \in AfterOpenBrace

PointsOK(n) == n \in 1..Len(tree) /\ \E h : Heights(h, n) /\ Marks(h, n)

(* While tokens are skipped the nodes that count are those up to the point   *)
(* of pruning.                                                               *)
PointsInv ==
  Recoverable =>
    /\ phase = "parse" => PointsOK(Len(tree))
    /\ phase = "prune" => PointsOK(prunePoint)

-----------------------------------------------------------------------------

LEMMA PointsInit == Init => PointsInv
<1> SUFFICES ASSUME Init PROVE PointsInv
  OBVIOUS
<1>1. states = <<0>> /\ Len(states) = 1 /\ tree = <<1>> /\ Len(tree) = 1 /\ tree[1] = 1
      /\ phase = "parse"
  BY DEF Init
<1>. DEFINE h == [i \in 1..1 |-> 1]
<1>2. h \in [1..1 -> Nat] /\ h[1] = 1
  OBVIOUS
<1>. HIDE DEF h
<1>3. Heights(h, 1)
  BY <1>1, <1>2 DEF Heights
<1>4. Marks(h, 1)
  BY <1>1, <1>2 DEF Marks
<1>. QED  BY <1>1, <1>3, <1>4 DEF PointsInv, PointsOK

(* What is on the stack stays when the heights and the tree do. *)
LEMMA PointsStay ==
  ASSUME NEW n, PointsOK(n), UNCHANGED <<grammar, states>>, n \in 1..Len(tree'),
         \A j \in 1..n : tree'[j] = tree[j]
  PROVE  PointsOK(n)'
<1>1. PICK h : Heights(h, n) /\ Marks(h, n)
  BY DEF PointsOK
<1>2. Heights(h, n)'
  BY <1>1 DEF Heights
<1>3. AfterOpenBrace' = AfterOpenBrace
  BY DEF AfterOpenBrace, StateNumbers, Actions
<1>4. 1 \in 1..n
  OBVIOUS
<1>5. states' = states /\ tree'[1] = tree[1] /\ \A j \in 2..n : j \in 1..n
  BY <1>4
<1>6. \A j \in 1..n : tree'[j] = tree[j]
  OBVIOUS
<1>7. Marks(h, n)'
  BY <1>1, <1>3, <1>5, <1>6 DEF Marks
<1>. QED  BY <1>2, <1>7 DEF PointsOK

(* Of a body that ends at the top of the stack, the place behind its first k *)
(* symbols, counted from either end.                                         *)
Passed(rest, len, size, k, i, j) ==
  /\ i \in 1..(size - 1) /\ i \in 1..size /\ i + 1 \in 1..size
  /\ j \in 0..len /\ size - j = i + 1 /\ len + 1 - j = k + 2
  /\ rest + (k + 1) = i + 1

LEMMA PassedPlaces ==
  ASSUME NEW rest \in Nat, NEW len \in Nat, NEW size \in Nat, NEW k \in Nat,
         rest >= 1, rest + len = size, k < len
  PROVE  Passed(rest, len, size, k, rest + k, len - (k + 1))
  BY DEF Passed

(* The braces of a part of a body that lies on the stack show in the heights. *)
LEMMA PassedHeights ==
  ASSUME TypeOK, Based, NEW h, NEW n, Heights(h, n),
         NEW p \in Positions(grammar, states[Len(states)]), NEW rest,
         rest = Len(states) - (p.dot - 1)
  PROVE  /\ rest \in 1..Len(states)
         /\ \A k \in 0..(p.dot - 1) :
              /\ Opened(p.to, k) \in Nat /\ Closed(p.to, k) \in Nat
              /\ h[rest + k] + Closed(p.to, k) = h[rest] + Opened(p.to, k)
<1>. DEFINE len == p.dot - 1
            size == Len(states)
            Open(k) == Opened(p.to, k)
            Close(k) == Closed(p.to, k)
            T == {k \in Nat : k <= len =>
                    Open(k) \in Nat /\ Close(k) \in Nat
                      /\ h[rest + k] + Close(k) = h[rest] + Open(k)}
<1>1. /\ p.to \in Seq(Symbols(grammar)) /\ p.dot \in 1..(Len(p.to) + 1)
      /\ len \in 0..Len(p.to) /\ p.dot = len + 1
  <2>1. states[Len(states)] \in StateNumbers
    BY BasedStack
  <2>2. p.to \in Seq(Symbols(grammar)) /\ p.dot \in 1..(Len(p.to) + 1)
    BY <2>1, PositionsOK DEF PositionOK
  <2>. QED  BY <2>2
<1>2. /\ len \in Nat /\ size \in Nat /\ rest \in 1..size /\ rest + len = size
      /\ h \in [1..size -> Nat] /\ h[size] = n
  <2>1. len < size
    BY BodyBelow
  <2>2. h \in [1..size -> Nat] /\ h[size] = n
    BY DEF Heights
  <2>3. size \in Nat /\ len \in Nat /\ rest = size - len
    BY <1>1, BasedStack
  <2>. HIDE DEF size, len
  <2>4. rest \in 1..size /\ rest + len = size
    BY <2>1, <2>3
  <2>. QED  BY <2>2, <2>3, <2>4
<1>3. Open(0) = 0 /\ Close(0) = 0
  <2>1. {i \in 1..0 : p.to[i] = OpenBrace} = {} /\ {i \in 1..0 : p.to[i] = CloseBrace} = {}
    OBVIOUS
  <2>. QED  BY <2>1, FS_EmptySet DEF Opened, Closed
<1>4. 0 \in T
  <2>. HIDE DEF len, Open, Close
  <2>1. rest + 0 = rest /\ h[rest] \in Nat
    BY <1>2
  <2>. QED  BY <1>3, <2>1
<1>5. ASSUME NEW k \in Nat, k \in T PROVE k + 1 \in T
  <2>1. SUFFICES ASSUME k + 1 <= len
                 PROVE  /\ Open(k + 1) \in Nat /\ Close(k + 1) \in Nat
                        /\ h[rest + (k + 1)] + Close(k + 1) = h[rest] + Open(k + 1)
    OBVIOUS
  <2>2. k < len
    BY <1>2, <2>1
  <2>3. h[rest + k] + Close(k) = h[rest] + Open(k)
    BY <1>2, <1>5, <2>2
  <2>4. /\ Open(k) \in Nat /\ Close(k) \in Nat
        /\ Open(k + 1) = Open(k) + (IF p.to[k + 1] = OpenBrace THEN 1 ELSE 0)
        /\ Close(k + 1) = Close(k) + (IF p.to[k + 1] = CloseBrace THEN 1 ELSE 0)
    <3>1. k < Len(p.to)
      BY <1>1, <2>2
    <3>. QED  BY <1>1, <3>1, BracesNext
  <2>. HIDE DEF Open, Close, len
  <2>. DEFINE i == rest + k
              j == len - (k + 1)
  <2>5. i \in 1..(size - 1) /\ j \in 0..len /\ size - j = i + 1 /\ len + 1 - j = k + 2
        /\ i \in 1..size /\ i + 1 \in 1..size /\ rest + (k + 1) = i + 1
    <3>1. /\ len \in Nat /\ size \in Nat /\ rest \in Nat /\ rest >= 1 /\ rest + len = size
          /\ k < len
      BY <1>2, <2>2
    <3>. HIDE DEF size, len
    <3>2. Passed(rest, len, size, k, i, j)
      BY <3>1, PassedPlaces
    <3>. HIDE DEF i, j
    <3>. QED  BY <3>2 DEF Passed
  <2>. HIDE DEF i, j
  <2>6. PICK x \in Symbols(grammar) :
          Leads(grammar, states[i], x, states[i + 1]) /\ h[i + 1] + Down(x) = h[i] + Up(x)
    BY <2>5 DEF Heights, size
  <2>7. p.dot = len + 1
    BY <1>1
  <2>8. PICK q \in Positions(grammar, states[size - j]) :
          RuleOf(q) = RuleOf(p) /\ q.dot = p.dot - j
    <3>1. j \in 0..(p.dot - 1)
      BY <1>2, <2>5, <2>7
    <3>. QED  BY <1>1, <3>1, BodyBelow DEF size
  <2>9. q \in Positions(grammar, states[i + 1]) /\ q.dot = k + 2 /\ q.to = p.to
    <3>1. q \in Positions(grammar, states[size - j]) /\ size - j = i + 1
      BY <2>5, <2>8
    <3>2. q.dot = len + 1 - j /\ len + 1 - j = k + 2
      <4>1. q.dot = p.dot - j
        BY <2>8
      <4>2. len \in Nat /\ j \in Nat
        BY <1>2, <2>5
      <4>. DEFINE dot == p.dot
      <4>3. dot = len + 1 /\ q.dot = dot - j
        BY <2>7, <4>1
      <4>. HIDE DEF dot, size
      <4>. QED  BY <2>5, <4>2, <4>3
    <3>3. q.to = p.to
      BY <2>8 DEF RuleOf
    <3>. QED  BY <3>1, <3>2, <3>3
  <2>10. x = p.to[k + 1]
    <3>1. q.dot > 1 /\ q.dot - 1 = k + 1
      BY <2>9
    <3>. QED  BY <2>6, <2>9, <3>1 DEF Leads
  <2>11. h[i] \in Nat /\ h[i + 1] \in Nat /\ h[rest] \in Nat
    BY <1>2, <2>5
  <2>12. h[i] + Close(k) = h[rest] + Open(k)
    BY <2>3 DEF i
  <2>13. h[i + 1] + Down(x) = h[i] + Up(x) /\ Down(x) \in Nat /\ Up(x) \in Nat
         /\ Open(k + 1) = Open(k) + Up(x) /\ Close(k + 1) = Close(k) + Down(x)
    BY <2>4, <2>6, <2>10 DEF Up, Down
  <2>14. h[i + 1] + Close(k + 1) = h[rest] + Open(k + 1)
         /\ Open(k + 1) \in Nat /\ Close(k + 1) \in Nat
    <3>1. Open(k) \in Nat /\ Close(k) \in Nat
      BY <2>4
    <3>2. Down(x) \in Nat /\ Up(x) \in Nat /\ h[i + 1] + Down(x) = h[i] + Up(x)
          /\ Open(k + 1) = Open(k) + Up(x) /\ Close(k + 1) = Close(k) + Down(x)
      BY <2>13
    <3>. DEFINE a == h[i + 1]
                b == h[i]
                d == h[rest]
                o == Open(k)
                c == Close(k)
                o1 == Open(k + 1)
                c1 == Close(k + 1)
                up == Up(x)
                down == Down(x)
    <3>3. /\ a \in Nat /\ b \in Nat /\ d \in Nat /\ o \in Nat /\ c \in Nat
          /\ up \in Nat /\ down \in Nat
      BY <2>11, <3>1, <3>2
    <3>4. a + down = b + up /\ b + c = d + o /\ o1 = o + up /\ c1 = c + down
      BY <2>12, <3>2
    <3>. HIDE DEF a, b, d, o, c, o1, c1, up, down
    <3>5. a + c1 = d + o1 /\ o1 \in Nat /\ c1 \in Nat
      BY <3>3, <3>4
    <3>. QED  BY <3>5 DEF a, d, o1, c1
  <2>. QED  BY <2>5, <2>14
<1>. HIDE DEF T
<1>6. \A k \in 0..len : k \in T
  BY <1>4, <1>5, SetInduction
<1>7. \A k \in 0..len : /\ Open(k) \in Nat /\ Close(k) \in Nat
                        /\ h[rest + k] + Close(k) = h[rest] + Open(k)
  BY <1>2, <1>6 DEF T
<1>. QED  BY <1>2, <1>7

(* Those of a whole body pair, so a reduction leaves no block.               *)
LEMMA BodyHeights ==
  ASSUME TypeOK, Based, NEW h, NEW n, Heights(h, n), NEW p, NEW rest, Reduced(p, rest)
  PROVE  /\ n = h[rest]
         /\ \A i \in rest..Len(states) : h[i] >= n
<1>. DEFINE len == Len(p.to)
            size == Len(states)
            Open(k) == Opened(p.to, k)
            Close(k) == Closed(p.to, k)
<1>1. /\ p \in Positions(grammar, states[size])
      /\ RuleOf(p) \in Rules[grammar]
      /\ p.to \in Seq(Symbols(grammar)) /\ p.dot = len + 1
      /\ rest \in 1..size /\ rest = size - len
  BY DEF Reduced
<1>2. /\ len \in Nat /\ size \in Nat /\ rest \in 1..size /\ rest + len = size
      /\ h \in [1..size -> Nat] /\ h[size] = n /\ p.dot - 1 = len
  <2>1. size \in Nat /\ len \in Nat /\ rest \in 1..size /\ rest = size - len
    BY <1>1, BasedStack
  <2>2. h \in [1..size -> Nat] /\ h[size] = n
    BY DEF Heights
  <2>. DEFINE dot == p.dot
  <2>3. dot = len + 1
    BY <1>1
  <2>. HIDE DEF size, len, dot
  <2>4. rest + len = size /\ dot - 1 = len
    BY <2>1, <2>3
  <2>. QED  BY <2>1, <2>2, <2>4 DEF dot
<1>3. \A k \in 0..len : /\ Open(k) \in Nat /\ Close(k) \in Nat
                        /\ h[rest + k] + Close(k) = h[rest] + Open(k)
  <2>1. rest = Len(states) - (p.dot - 1) /\ p \in Positions(grammar, states[Len(states)])
    BY <1>1, <1>2
  <2>2. \A k \in 0..(p.dot - 1) :
          /\ Opened(p.to, k) \in Nat /\ Closed(p.to, k) \in Nat
          /\ h[rest + k] + Closed(p.to, k) = h[rest] + Opened(p.to, k)
    BY <2>1, PassedHeights
  <2>. HIDE DEF len
  <2>. QED  BY <1>2, <2>2
<1>4. Open(len) = Close(len) /\ \A k \in 1..len : Close(k) <= Open(k)
  <2>1. RuleOf(p).to = p.to
    BY DEF RuleOf
  <2>2. BracesPair(p.to)
    BY <1>1, <2>1, BracesAssumption DEF TypeOK
  <2>. QED  BY <2>2 DEF BracesPair
<1>. HIDE DEF Open, Close, len, size
<1>5. n = h[rest]
  <2>1. len \in 0..len /\ h[size] \in Nat /\ h[rest] \in Nat
    BY <1>2
  <2>2. h[size] + Close(len) = h[rest] + Open(len) /\ Open(len) \in Nat
    BY <1>2, <1>3, <2>1
  <2>. QED  BY <1>2, <1>4, <2>1, <2>2
<1>6. ASSUME NEW i \in rest..size PROVE h[i] >= n
  <2>. DEFINE k == i - rest
  <2>1. k \in 0..len /\ rest + k = i /\ i \in 1..size
    BY <1>2
  <2>2. h[i] \in Nat /\ h[rest] \in Nat
    BY <1>2, <2>1
  <2>. HIDE DEF k
  <2>3. h[i] + Close(k) = h[rest] + Open(k) /\ Open(k) \in Nat /\ Close(k) \in Nat
    BY <1>3, <2>1
  <2>4. Close(k) <= Open(k)
    <3>1. CASE k = 0
      <4>1. h[i] = h[rest]
        BY <1>2, <2>1, <3>1
      <4>. QED  BY <2>2, <2>3, <4>1
    <3>2. CASE k # 0
      <4>1. k \in 1..len
        BY <1>2, <2>1, <3>2
      <4>. QED  BY <1>4, <4>1
    <3>. QED  BY <3>1, <3>2
  <2>. QED  BY <1>5, <2>2, <2>3, <2>4
<1>. QED  BY <1>5, <1>6 DEF size

(* A closing brace is shifted only inside of a block: the rule it belongs to *)
(* has opened it.                                                            *)
LEMMA NoStrayBrace ==
  ASSUME TypeOK, Based, NEW h, NEW n, Heights(h, n), \A i \in 1..Len(states) : h[i] >= 1,
         ShiftToken, CurrentToken = CloseBrace
  PROVE  n >= 2
<1>. DEFINE size == Len(states)
            next == states'[size + 1]
<1>1. /\ size \in Nat /\ size >= 1 /\ states[size] \in StateNumbers
      /\ h \in [1..size -> Nat] /\ h[size] = n
  BY BasedStack DEF Heights
<1>2. Leads(grammar, states[size], CloseBrace, next)
  BY ShiftPath
<1>3. PICK p \in Positions(grammar, next) : p.dot > 1
  BY <1>2 DEF Leads
<1>4. p.to[p.dot - 1] = CloseBrace /\ At(p, p.dot - 1) \in Positions(grammar, states[size])
  BY <1>2, <1>3 DEF Leads
<1>5. next \in StateNumbers
  BY <1>2 DEF Leads, StateNumbers, Actions
<1>. HIDE DEF next, size
<1>6. /\ p.to \in Seq(Symbols(grammar)) /\ p.dot \in 1..(Len(p.to) + 1)
      /\ RuleOf(p) \in Rules[grammar] \/ p.to = <<StartSymbol[grammar]>>
  BY <1>3, <1>5, PositionsOK DEF PositionOK
<1>. DEFINE k == p.dot - 2
            q == At(p, p.dot - 1)
            rest == size - k
<1>7. k \in Nat /\ k < Len(p.to) /\ k + 1 = p.dot - 1 /\ k + 1 \in 1..Len(p.to)
  BY <1>3, <1>6
<1>8. RuleOf(p) \in Rules[grammar]
  <2>1. SUFFICES ASSUME p.to = <<StartSymbol[grammar]>> PROVE FALSE
    BY <1>6
  <2>2. k + 1 = 1
    BY <1>7, <2>1
  <2>3. StartSymbol[grammar] = CloseBrace
    BY <1>4, <1>7, <2>1, <2>2
  <2>. QED  BY <2>3, RulesAssumption, InputsAssumption DEF TypeOK
<1>9. Closed(p.to, k + 1) <= Opened(p.to, k + 1)
  <2>1. BracesPair(p.to)
    BY <1>8, BracesAssumption DEF TypeOK, RuleOf
  <2>. QED  BY <1>7, <2>1 DEF BracesPair
<1>10. /\ Opened(p.to, k) \in Nat /\ Closed(p.to, k) \in Nat
       /\ Opened(p.to, k + 1) = Opened(p.to, k)
       /\ Closed(p.to, k + 1) = Closed(p.to, k) + 1
  <2>1. p.to[k + 1] = CloseBrace /\ p.to[k + 1] # OpenBrace
    BY <1>4, <1>7, InputsAssumption
  <2>2. /\ Opened(p.to, k) \in Nat /\ Closed(p.to, k) \in Nat
        /\ Opened(p.to, k + 1) = Opened(p.to, k) + (IF p.to[k + 1] = OpenBrace THEN 1 ELSE 0)
        /\ Closed(p.to, k + 1) = Closed(p.to, k) + (IF p.to[k + 1] = CloseBrace THEN 1 ELSE 0)
    BY <1>6, <1>7, BracesNext
  <2>. QED  BY <2>1, <2>2
<1>11. rest \in 1..size /\ h[rest + k] + Closed(p.to, k) = h[rest] + Opened(p.to, k)
  <2>1. q \in Positions(grammar, states[Len(states)]) /\ q.to = p.to /\ q.dot - 1 = k
    BY <1>4, <1>7 DEF At, size
  <2>2. rest = Len(states) - (q.dot - 1) /\ k \in 0..(q.dot - 1)
    BY <1>7, <2>1 DEF size
  <2>. HIDE DEF k, q, rest
  <2>. QED  BY <2>1, <2>2, PassedHeights DEF size
<1>12. rest + k = size
  BY <1>1, <1>7
<1>13. h[rest] \in Nat /\ h[rest] >= 1 /\ h[size] \in Nat
  BY <1>1, <1>11 DEF size
<1>. DEFINE o == Opened(p.to, k)
            c == Closed(p.to, k)
            below == h[rest]
<1>14. /\ n + c = below + o /\ c + 1 <= o /\ below >= 1
       /\ n \in Nat /\ c \in Nat /\ o \in Nat /\ below \in Nat
  BY <1>1, <1>9, <1>10, <1>11, <1>12, <1>13
<1>. HIDE DEF o, c, below
<1>. QED  BY <1>14

(* A reduction happens inside the innermost block: the body lies above its   *)
(* mark.                                                                     *)
LEMMA ReducePoints ==
  ASSUME TypeOK, Based, NEW n, PointsOK(n), NEW p, NEW rest, Reduced(p, rest),
         UNCHANGED <<grammar, tree>>
  PROVE  PointsOK(n)'
<1>1. PICK h : Heights(h, n) /\ Marks(h, n)
  BY DEF PointsOK
<1>. DEFINE size == Len(states)
            g == [i \in 1..(rest + 1) |-> IF i <= rest THEN h[i] ELSE n]
<1>2. /\ size \in Nat /\ rest \in 1..size
      /\ p.from \in Symbols(grammar) /\ RuleOf(p) \in Rules[grammar]
      /\ Len(states') = rest + 1
      /\ \A i \in 1..rest : states'[i] = states[i]
      /\ Leads(grammar, states[rest], p.from, states'[rest + 1])
  BY BasedStack DEF Reduced
<1>3. n = h[rest] /\ \A i \in rest..size : h[i] >= n
  BY <1>1, BodyHeights
<1>4. n \in Nat /\ n >= 1 /\ h \in [1..size -> Nat] /\ h[1] = 1 /\ n \in 1..Len(tree)
  <2>1. Len(tree) \in Nat /\ n \in 1..Len(tree)
    BY DEF TypeOK, PointsOK
  <2>. QED  BY <1>1, <2>1 DEF Heights
<1>. HIDE DEF size
<1>5. /\ g \in [1..(rest + 1) -> Nat] /\ g[rest + 1] = n
      /\ \A i \in 1..rest : g[i] = h[i]
  BY <1>2, <1>4
<1>. HIDE DEF g
<1>6. Up(p.from) = 0 /\ Down(p.from) = 0
  <2>1. RuleOf(p).from = p.from
    BY DEF RuleOf
  <2>2. p.from \notin Tokens
    BY <1>2, <2>1, RulesAssumption DEF TypeOK
  <2>. QED  BY <2>2, InputsAssumption DEF Up, Down
<1>7. Heights(g, n)'
  <2>1. g[1] = 1
    BY <1>2, <1>4, <1>5
  <2>2. ASSUME NEW i \in 1..rest
        PROVE  \E x \in Symbols(grammar) :
                 /\ Leads(grammar, states'[i], x, states'[i + 1])
                 /\ g[i + 1] + Down(x) = g[i] + Up(x)
    <3>1. CASE i = rest
      <4>1. g[i] = n /\ g[i + 1] = n /\ states'[i] = states[i]
        BY <1>2, <1>3, <1>5, <3>1
      <4>. QED  BY <1>2, <1>6, <3>1, <4>1
    <3>2. CASE i # rest
      <4>1. i \in 1..(size - 1) /\ i + 1 \in 1..rest
        BY <1>2, <3>2
      <4>2. \E x \in Symbols(grammar) :
              Leads(grammar, states[i], x, states[i + 1]) /\ h[i + 1] + Down(x) = h[i] + Up(x)
        BY <1>1, <4>1 DEF Heights, size
      <4>3. states'[i] = states[i] /\ states'[i + 1] = states[i + 1]
        BY <1>2, <4>1
      <4>4. g[i] = h[i] /\ g[i + 1] = h[i + 1]
        BY <1>5, <4>1
      <4>. QED  BY <4>2, <4>3, <4>4
    <3>. QED  BY <3>1, <3>2
  <2>3. Len(states') - 1 = rest
    BY <1>2
  <2>. QED  BY <1>2, <1>5, <2>1, <2>2, <2>3 DEF Heights
<1>8. ASSUME NEW j \in 1..n
      PROVE  /\ tree[j] \in 1..rest /\ h[tree[j]] = j
             /\ \A i \in tree[j]..size : h[i] >= j
             /\ j # 1 => /\ tree[j] > 1 /\ h[tree[j] - 1] = j - 1
                         /\ states[tree[j]] \in AfterOpenBrace
  <2>1. /\ tree[j] \in 1..size /\ h[tree[j]] = j /\ \A i \in tree[j]..size : h[i] >= j
    BY <1>1 DEF Marks, size
  <2>2. j # 1 => /\ tree[j] > 1 /\ h[tree[j] - 1] = j - 1
                 /\ states[tree[j]] \in AfterOpenBrace
    <3>1. j # 1 => j \in 2..n
      BY <1>4
    <3>. QED  BY <1>1, <3>1 DEF Marks
  <2>3. tree[j] <= rest
    <3>1. CASE j = 1
      BY <1>1, <1>2, <3>1 DEF Marks
    <3>2. CASE j # 1
      <4>1. SUFFICES ASSUME tree[j] > rest PROVE FALSE
        BY <1>2, <2>1
      <4>. DEFINE i == tree[j] - 1
      <4>2. i \in rest..size
        BY <1>2, <2>1, <4>1
      <4>3. h[i] = j - 1
        BY <2>2, <3>2
      <4>4. h[i] >= n
        BY <1>3, <4>2
      <4>. QED  BY <1>4, <4>3, <4>4
    <3>. QED  BY <3>1, <3>2
  <2>. QED  BY <1>2, <2>1, <2>2, <2>3
<1>9. Marks(g, n)'
  <2>1. tree' = tree /\ AfterOpenBrace' = AfterOpenBrace
    BY DEF AfterOpenBrace, StateNumbers, Actions
  <2>2. ASSUME NEW j \in 1..n
        PROVE  /\ tree[j] \in 1..(rest + 1) /\ g[tree[j]] = j
               /\ \A i \in tree[j]..(rest + 1) : g[i] >= j
    <3>. DEFINE t == tree[j]
    <3>1. t \in 1..rest /\ h[t] = j /\ \A i \in t..size : h[i] >= j
      BY <1>8
    <3>. HIDE DEF t
    <3>2. t \in 1..(rest + 1) /\ g[t] = j
      BY <1>2, <1>5, <3>1
    <3>3. ASSUME NEW i \in t..(rest + 1) PROVE g[i] >= j
      <4>1. CASE i = rest + 1
        BY <1>4, <1>5, <4>1
      <4>2. CASE i # rest + 1
        <5>1. i \in 1..rest /\ i \in t..size
          BY <1>2, <3>1, <4>2
        <5>. QED  BY <1>5, <3>1, <5>1
      <4>. QED  BY <4>1, <4>2
    <3>. QED  BY <3>2, <3>3 DEF t
  <2>3. ASSUME NEW j \in 2..n
        PROVE  /\ tree[j] > 1 /\ g[tree[j] - 1] = j - 1
               /\ states'[tree[j]] \in AfterOpenBrace
    <3>. DEFINE t == tree[j]
    <3>1. j \in 1..n /\ j # 1
      OBVIOUS
    <3>2. t \in 1..rest /\ t > 1 /\ h[t - 1] = j - 1 /\ states[t] \in AfterOpenBrace
      BY <1>8, <3>1
    <3>. HIDE DEF t
    <3>3. t - 1 \in 1..rest
      BY <1>2, <3>2
    <3>4. g[t - 1] = j - 1 /\ states'[t] \in AfterOpenBrace
      BY <1>2, <1>5, <3>2, <3>3
    <3>. QED  BY <3>2, <3>4 DEF t
  <2>4. tree[1] = 1
    BY <1>1 DEF Marks
  <2>. QED  BY <1>2, <2>1, <2>2, <2>3, <2>4 DEF Marks
<1>. QED  BY <1>4, <1>7, <1>9 DEF PointsOK

(* A shift of a brace enters a block, whose node marks the new state, or     *)
(* leaves the innermost one.                                                 *)
LEMMA ShiftPoints ==
  ASSUME TypeOK, ~isBroken, Based, PointsOK(Len(tree)), ShiftToken, tree' # <<>>
  PROVE  PointsOK(Len(tree))'
<1>. DEFINE n == Len(tree)
            size == Len(states)
            x == CurrentToken
            m == Len(tree')
<1>1. PICK h : Heights(h, n) /\ Marks(h, n)
  BY DEF PointsOK
<1>2. /\ Len(states') = size + 1 /\ \A i \in 1..size : states'[i] = states[i]
      /\ Leads(grammar, states[size], x, states'[size + 1])
  BY ShiftPath
<1>3. size \in Nat /\ size >= 1 /\ states \in Seq(StateNumbers)
  BY BasedStack
<1>4. grammar' = grammar /\ x \in Symbols(grammar)
  BY CurrentTokenType DEF ShiftToken, Symbols
<1>5. tree' = CASE x = OpenBrace -> Append(tree, Len(states'))
                [] x = CloseBrace -> SubSeq(tree, 1, n - 1)
                [] OTHER -> tree
  BY DEF ShiftToken, Swallow
<1>6. tree \in Seq(Nat) /\ n \in Nat /\ n >= 1
  BY DEF TypeOK, PointsOK
<1>7. h \in [1..size -> Nat] /\ h[1] = 1 /\ h[size] = n
  BY <1>1 DEF Heights
<1>8. x = OpenBrace => states'[size + 1] \in AfterOpenBrace
  <2>1. SUFFICES ASSUME x = OpenBrace PROVE states'[size + 1] \in AfterOpenBrace
    OBVIOUS
  <2>2. PICK a \in Choice("shift") : states' = Append(states, a.next)
    BY DEF ShiftToken
  <2>3. PICK s \in Back(states) : a = Actions[s][x] /\ a.kind = "shift"
    BY <2>2 DEF Choice
  <2>4. s \in StateNumbers
    BY <2>3 DEF Back, TypeOK
  <2>5. a.next \in StateNumbers
    BY <2>2, ChoiceOK DEF ActionOK, Leads, StateNumbers, Actions
  <2>6. states'[size + 1] = a.next
    BY <1>3, <2>2, <2>5
  <2>. HIDE DEF x
  <2>. QED  BY <2>1, <2>3, <2>4, <2>5, <2>6 DEF AfterOpenBrace
<1>. HIDE DEF x, size
<1>9. /\ m \in Nat /\ m >= 1 /\ m + Down(x) = n + Up(x)
      /\ \A j \in 1..m : j # n + 1 => j \in 1..n /\ tree'[j] = tree[j]
      /\ n + 1 \in 1..m => x = OpenBrace /\ tree'[n + 1] = size + 1
  <2>1. CASE x = OpenBrace
    <3>1. tree' = Append(tree, size + 1) /\ size + 1 \in Nat
      <4>1. tree' = Append(tree, Len(states'))
        BY <1>5, <2>1, InputsAssumption
      <4>. QED  BY <1>2, <1>3, <4>1
    <3>2. m = n + 1 /\ tree'[n + 1] = size + 1 /\ \A j \in 1..n : tree'[j] = tree[j]
      BY <1>6, <3>1
    <3>3. Up(x) = 1 /\ Down(x) = 0
      BY <2>1, InputsAssumption DEF Up, Down
    <3>. HIDE DEF n, m
    <3>. QED  BY <1>6, <2>1, <3>2, <3>3
  <2>2. CASE x = CloseBrace
    <3>1. tree' = SubSeq(tree, 1, n - 1)
      BY <1>5, <2>2, InputsAssumption
    <3>2. n # 1
      <4>1. SUFFICES ASSUME n = 1 PROVE FALSE
        OBVIOUS
      <4>. QED  BY <1>6, <3>1, <4>1
    <3>3. n - 1 \in Nat /\ n - 1 <= n
      BY <1>6, <3>2
    <3>4. m = n - 1 /\ \A j \in 1..(n - 1) : tree'[j] = tree[j]
      BY <1>6, <3>1, <3>3
    <3>5. Up(x) = 0 /\ Down(x) = 1
      BY <2>2, InputsAssumption DEF Up, Down
    <3>. HIDE DEF n, m
    <3>. QED  BY <1>6, <3>2, <3>4, <3>5
  <2>3. CASE x \notin {OpenBrace, CloseBrace}
    <3>1. tree' = tree
      BY <1>5, <2>3
    <3>2. Up(x) = 0 /\ Down(x) = 0
      BY <2>3 DEF Up, Down
    <3>. QED  BY <1>6, <3>1, <3>2
  <2>. QED  BY <2>1, <2>2, <2>3
<1>. HIDE DEF n, m
<1>10. PICK g : /\ g \in [1..(size + 1) -> Nat] /\ g[size + 1] = m
                /\ \A i \in 1..size : g[i] = h[i]
  <2>. DEFINE f == [i \in 1..(size + 1) |-> IF i <= size THEN h[i] ELSE m]
  <2>1. /\ f \in [1..(size + 1) -> Nat] /\ f[size + 1] = m
        /\ \A i \in 1..size : f[i] = h[i]
    BY <1>3, <1>7, <1>9
  <2>. QED  BY <2>1
<1>11. (g \in [1..(size + 1) -> Nat] /\ g[1] = 1)
       /\ \A i \in 1..size : \E y \in Symbols(grammar) :
            Leads(grammar, states'[i], y, states'[i + 1]) /\ g[i + 1] + Down(y) = g[i] + Up(y)
  <2>1. g[1] = 1
    BY <1>3, <1>7, <1>10
  <2>2. ASSUME NEW i \in 1..size
        PROVE  \E y \in Symbols(grammar) :
                 Leads(grammar, states'[i], y, states'[i + 1]) /\ g[i + 1] + Down(y) = g[i] + Up(y)
    <3>1. CASE i = size
      <4>1. states'[i] = states[i] /\ g[i] = n /\ g[i + 1] = m
        BY <1>2, <1>7, <1>10, <3>1
      <4>. QED  BY <1>2, <1>4, <1>9, <3>1, <4>1
    <3>2. CASE i # size
      <4>1. i \in 1..(size - 1) /\ i + 1 \in 1..size
        BY <1>3, <3>2
      <4>2. \E y \in Symbols(grammar) :
              Leads(grammar, states[i], y, states[i + 1]) /\ h[i + 1] + Down(y) = h[i] + Up(y)
        BY <1>1, <4>1 DEF Heights, size
      <4>3. states'[i] = states[i] /\ states'[i + 1] = states[i + 1]
        BY <1>2, <4>1
      <4>4. g[i] = h[i] /\ g[i + 1] = h[i + 1]
        BY <1>10, <4>1
      <4>. QED  BY <4>2, <4>3, <4>4
    <3>. QED  BY <3>1, <3>2
  <2>. QED  BY <1>10, <2>1, <2>2
<1>12. Heights(g, Len(tree))'
  <2>1. Len(states') - 1 = size
    BY <1>2, <1>3
  <2>. QED  BY <1>2, <1>4, <1>10, <1>11, <2>1 DEF Heights, m
<1>13. ASSUME NEW j \in 1..m
       PROVE  /\ tree'[j] \in 1..(size + 1) /\ g[tree'[j]] = j
              /\ \A i \in tree'[j]..(size + 1) : g[i] >= j
              /\ j # 1 => /\ tree'[j] > 1 /\ g[tree'[j] - 1] = j - 1
                          /\ states'[tree'[j]] \in AfterOpenBrace
  <2>1. CASE j = n + 1
    <3>1. x = OpenBrace /\ tree'[j] = size + 1
      BY <1>9, <2>1
    <3>2. m = n + 1
      <4>1. Up(x) = 1 /\ Down(x) = 0
        BY <3>1, InputsAssumption DEF Up, Down
      <4>. QED  BY <1>6, <1>9, <4>1
    <3>3. g[size + 1] = j /\ g[size] = j - 1 /\ size + 1 > 1 /\ (size + 1) - 1 = size
          /\ size + 1 \in 1..(size + 1) /\ \A i \in (size + 1)..(size + 1) : i = size + 1
      BY <1>3, <1>6, <1>7, <1>10, <2>1, <3>2
    <3>4. j >= j
      BY <1>6, <2>1
    <3>. QED  BY <1>8, <3>1, <3>3, <3>4
  <2>2. CASE j # n + 1
    <3>. DEFINE t == tree[j]
    <3>1. j \in 1..n /\ tree'[j] = t
      BY <1>9, <2>2
    <3>2. t \in 1..size /\ h[t] = j /\ \A i \in t..size : h[i] >= j
      BY <1>1, <3>1 DEF Marks, size
    <3>3. j # 1 => t > 1 /\ h[t - 1] = j - 1 /\ states[t] \in AfterOpenBrace
      <4>1. j # 1 => j \in 2..n
        BY <3>1
      <4>. QED  BY <1>1, <4>1 DEF Marks
    <3>. HIDE DEF t
    <3>4. t \in 1..(size + 1) /\ g[t] = j
      BY <1>3, <1>10, <3>2
    <3>5. ASSUME NEW i \in t..(size + 1) PROVE g[i] >= j
      <4>1. CASE i = size + 1
        BY <1>9, <1>10, <4>1
      <4>2. CASE i # size + 1
        <5>1. i \in 1..size /\ i \in t..size
          BY <1>3, <3>2, <4>2
        <5>. QED  BY <1>10, <3>2, <5>1
      <4>. QED  BY <4>1, <4>2
    <3>6. j # 1 => t > 1 /\ g[t - 1] = j - 1 /\ states'[t] \in AfterOpenBrace
      <4>1. j # 1 => t - 1 \in 1..size
        BY <1>3, <3>2, <3>3
      <4>. QED  BY <1>2, <1>10, <3>2, <3>3, <4>1
    <3>. QED  BY <3>1, <3>4, <3>5, <3>6
  <2>. QED  BY <2>1, <2>2
<1>14. Marks(g, Len(tree))'
  <2>1. AfterOpenBrace' = AfterOpenBrace
    BY <1>4 DEF AfterOpenBrace, StateNumbers, Actions
  <2>2. tree'[1] = 1
    <3>1. 1 \in 1..m /\ 1 # n + 1
      BY <1>6, <1>9
    <3>2. tree'[1] = tree[1]
      BY <1>9, <3>1
    <3>. QED  BY <1>1, <3>2 DEF Marks
  <2>3. \A j \in 2..m : j \in 1..m /\ j # 1
    OBVIOUS
  <2>. QED  BY <1>2, <1>13, <2>1, <2>2, <2>3 DEF Marks, m
<1>15. Len(tree') \in 1..Len(tree')
  BY <1>9 DEF m
<1>. QED  BY <1>12, <1>14, <1>15 DEF PointsOK

(* Recovery goes back to the mark of the innermost block.                    *)
LEMMA RejectPoints ==
  ASSUME TypeOK, ~isBroken, Based, PointsOK(Len(tree)), RejectToken
  PROVE  PointsOK(Len(tree))' /\ prunePoint' = Len(tree')
<1>. DEFINE n == Len(tree)
            size == Len(states)
            last == tree[n]
<1>1. PICK h : Heights(h, n) /\ Marks(h, n)
  BY DEF PointsOK
<1>2. states' = Resize(states, last) /\ tree' = tree /\ grammar' = grammar /\ prunePoint' = n
  BY DEF RejectToken
<1>3. states \in Seq(StateNumbers) /\ size \in Nat /\ 0 \in StateNumbers
  BY BasedStack, TablesAssumption DEF TablesFit, TypeOK, StateNumbers, Actions
<1>4. n \in Nat /\ n >= 1 /\ n \in 1..n
  BY DEF TypeOK, PointsOK
<1>5. last \in 1..size /\ h[last] = n /\ \A i \in last..size : h[i] >= n
  BY <1>1, <1>4 DEF Marks
<1>6. h \in [1..size -> Nat] /\ h[1] = 1
  BY <1>1 DEF Heights
<1>. HIDE DEF n, last
<1>7. Len(states') = last /\ \A i \in 1..last : states'[i] = states[i]
  <2>1. last \in Nat /\ last <= size
    BY <1>3, <1>5
  <2>2. /\ Len(Resize(states, last)) = last
        /\ \A i \in 1..last : Resize(states, last)[i] = IF i <= size THEN states[i] ELSE 0
    BY <1>3, <2>1, ResizeType
  <2>3. \A i \in 1..last : i <= size
    BY <1>3, <2>1
  <2>. QED  BY <1>2, <2>2, <2>3
<1>. HIDE DEF size
<1>8. PICK g : g \in [1..last -> Nat] /\ \A i \in 1..last : g[i] = h[i]
  <2>. DEFINE f == [i \in 1..last |-> h[i]]
  <2>1. f \in [1..last -> Nat] /\ \A i \in 1..last : f[i] = h[i]
    BY <1>3, <1>5, <1>6
  <2>. QED  BY <2>1
<1>9. Heights(g, n)'
  <2>1. g[1] = 1 /\ g[last] = n
    BY <1>3, <1>5, <1>6, <1>8
  <2>2. ASSUME NEW i \in 1..(last - 1)
        PROVE  \E y \in Symbols(grammar) :
                 Leads(grammar, states'[i], y, states'[i + 1]) /\ g[i + 1] + Down(y) = g[i] + Up(y)
    <3>1. i \in 1..(size - 1) /\ i \in 1..last /\ i + 1 \in 1..last
      BY <1>3, <1>5
    <3>2. \E y \in Symbols(grammar) :
            Leads(grammar, states[i], y, states[i + 1]) /\ h[i + 1] + Down(y) = h[i] + Up(y)
      BY <1>1, <3>1 DEF Heights, size
    <3>3. states'[i] = states[i] /\ states'[i + 1] = states[i + 1]
      BY <1>7, <3>1
    <3>4. g[i] = h[i] /\ g[i + 1] = h[i + 1]
      BY <1>8, <3>1
    <3>. QED  BY <3>2, <3>3, <3>4
  <2>3. n' = n
    BY <1>2 DEF n
  <2>. QED  BY <1>2, <1>7, <1>8, <2>1, <2>2, <2>3 DEF Heights
<1>10. ASSUME NEW j \in 1..n
       PROVE  /\ tree[j] \in 1..last /\ g[tree[j]] = j
              /\ \A i \in tree[j]..last : g[i] >= j
              /\ j # 1 => /\ tree[j] > 1 /\ g[tree[j] - 1] = j - 1
                          /\ states'[tree[j]] \in AfterOpenBrace
  <2>. DEFINE t == tree[j]
  <2>1. t \in 1..size /\ h[t] = j /\ \A i \in t..size : h[i] >= j
    BY <1>1 DEF Marks, size
  <2>2. j # 1 => t > 1 /\ h[t - 1] = j - 1 /\ states[t] \in AfterOpenBrace
    <3>1. j # 1 => j \in 2..n
      BY <1>4
    <3>. QED  BY <1>1, <3>1 DEF Marks
  <2>3. t <= last
    <3>1. SUFFICES ASSUME t > last PROVE FALSE
      BY <1>3, <1>5, <2>1
    <3>2. t \in last..size
      BY <1>3, <1>5, <2>1, <3>1
    <3>3. j = n
      BY <1>4, <1>5, <2>1, <3>2
    <3>4. t = last
      BY <3>3 DEF last
    <3>. QED  BY <1>3, <1>5, <3>1, <3>4
  <2>. HIDE DEF t
  <2>4. t \in 1..last /\ g[t] = j
    BY <1>3, <1>5, <1>8, <2>1, <2>3
  <2>5. ASSUME NEW i \in t..last PROVE g[i] >= j
    <3>1. i \in 1..last /\ i \in t..size
      BY <1>3, <1>5, <2>1
    <3>. QED  BY <1>8, <2>1, <3>1
  <2>6. j # 1 => t > 1 /\ g[t - 1] = j - 1 /\ states'[t] \in AfterOpenBrace
    <3>1. j # 1 => t - 1 \in 1..last
      BY <1>3, <1>5, <2>2, <2>4
    <3>. QED  BY <1>7, <1>8, <2>2, <2>4, <3>1
  <2>. QED  BY <2>4, <2>5, <2>6 DEF t
<1>11. Marks(g, n)'
  <2>1. AfterOpenBrace' = AfterOpenBrace
    BY <1>2 DEF AfterOpenBrace, StateNumbers, Actions
  <2>2. tree[1] = 1
    BY <1>1 DEF Marks
  <2>3. \A j \in 2..n : j \in 1..n /\ j # 1
    OBVIOUS
  <2>4. n' = n
    BY <1>2 DEF n
  <2>. QED  BY <1>2, <1>7, <1>10, <2>1, <2>2, <2>3, <2>4 DEF Marks
<1>12. n' \in 1..Len(tree') /\ prunePoint' = Len(tree')
  BY <1>2, <1>4 DEF n
<1>. QED  BY <1>9, <1>11, <1>12 DEF PointsOK, n

(* So the tree is never empty.  Behind the end of the file nothing is        *)
(* shifted or skipped any more.                                              *)
LEMMA BrokenStep ==
  /\ TypeOK /\ BrokenInv /\ NeverBroken /\ RecoveryInv /\ PointsInv
  /\ [Next]_vars
  => NeverBroken'
<1> SUFFICES ASSUME TypeOK, BrokenInv, NeverBroken, RecoveryInv, PointsInv, [Next]_vars
             PROVE  ~isBroken'
  BY DEF NeverBroken
<1>1. ~isBroken /\ tree \in Seq(Nat) /\ Len(tree) \in Nat /\ Len(tree) # 0
  BY DEF NeverBroken, BrokenInv, TypeOK
<1>2. ASSUME NEW count \in Nat, Swallow(CurrentToken, count),
             CurrentToken = CloseBrace => Len(tree) > 1
      PROVE  ~isBroken'
  <2>1. /\ isBroken' = (tree' = <<>>)
        /\ tree' = CASE CurrentToken = OpenBrace -> Append(tree, count)
                     [] CurrentToken = CloseBrace -> SubSeq(tree, 1, Len(tree) - 1)
                     [] OTHER -> tree
    BY <1>1, <1>2 DEF Swallow
  <2>2. Len(tree') # 0
    <3>1. CASE CurrentToken = OpenBrace
      <4>1. tree' = Append(tree, count)
        BY <2>1, <3>1, InputsAssumption
      <4>. QED  BY <1>1, <4>1
    <3>2. CASE CurrentToken = CloseBrace
      <4>1. tree' = SubSeq(tree, 1, Len(tree) - 1)
        BY <2>1, <3>2, InputsAssumption
      <4>. DEFINE n == Len(tree)
      <4>2. n \in Nat /\ n > 1
        BY <1>1, <1>2, <3>2
      <4>3. tree' = SubSeq(tree, 1, n - 1)
        BY <4>1
      <4>4. \A i \in 1..(n - 1) : tree[i] \in Nat
        BY <1>1
      <4>5. Len(SubSeq(tree, 1, n - 1)) = IF 1 <= n - 1 THEN n - 1 - 1 + 1 ELSE 0
        <5>1. n - 1 \in Int /\ 1 \in Int
          BY <4>2
        <5>. HIDE DEF n
        <5>. QED  BY <4>4, <5>1, SubSeqProperties
      <4>. HIDE DEF n
      <4>. QED  BY <4>2, <4>3, <4>5
    <3>3. CASE CurrentToken \notin {OpenBrace, CloseBrace}
      BY <1>1, <2>1, <3>3
    <3>. QED  BY <3>1, <3>2, <3>3
  <2>3. tree' # <<>>
    BY <2>2
  <2>. QED  BY <2>1, <2>3
<1>3. ASSUME NEW n, PointsOK(n)
      PROVE  \E h : Heights(h, n) /\ \A i \in 1..Len(states) : h[i] >= 1
  <2>1. PICK h : Heights(h, n) /\ Marks(h, n) /\ n \in 1..Len(tree)
    BY <1>3 DEF PointsOK
  <2>2. 1 \in 1..n
    BY <1>1, <2>1
  <2>3. tree[1] = 1 /\ \A i \in tree[1]..Len(states) : h[i] >= 1
    BY <2>1, <2>2 DEF Marks
  <2>. QED  BY <2>1, <2>3
<1>4. CASE ShiftToken
  <2>1. CurrentToken # End
    <3>1. PICK a \in Choice("shift") : TRUE
      BY <1>4 DEF ShiftToken
    <3>. QED  BY <3>1, ChoiceOK DEF ActionOK
  <2>2. Based /\ PointsOK(Len(tree))
    BY <1>4, <2>1 DEF ShiftToken, Recoverable, RecoveryInv, PointsInv
  <2>3. CurrentToken = CloseBrace => Len(tree) > 1
    <3>. DEFINE n == Len(tree)
    <3>1. PICK h : Heights(h, n) /\ \A i \in 1..Len(states) : h[i] >= 1
      BY <1>3, <2>2
    <3>2. SUFFICES ASSUME CurrentToken = CloseBrace PROVE n > 1
      OBVIOUS
    <3>. HIDE DEF n
    <3>3. n >= 2
      BY <1>4, <2>2, <3>1, <3>2, NoStrayBrace
    <3>. QED  BY <1>1, <3>3 DEF n
  <2>4. Len(states') \in Nat
    BY TypeStep DEF TypeOK
  <2>. QED  BY <1>2, <1>4, <2>3, <2>4 DEF ShiftToken
<1>5. CASE Skip
  <2>1. /\ phase = "prune" /\ CurrentToken # End /\ Swallow(CurrentToken, 0)
        /\ Len(tree) = prunePoint => CurrentToken # CloseBrace
    BY <1>5 DEF Skip
  <2>2. prunePoint \in 1..Len(tree)
    BY <2>1 DEF Recoverable, RecoveryInv
  <2>3. CurrentToken = CloseBrace => Len(tree) > 1
    BY <1>1, <2>1, <2>2
  <2>. QED  BY <1>2, <2>1, <2>3
<1>6. CASE \/ AcceptInput \/ RejectToken \/ ReduceRule \/ Crash \/ StopBefore \/ StopAfter
           \/ UNCHANGED vars
  BY <1>1, <1>6 DEF AcceptInput, RejectToken, ReduceRule, Crash, StopBefore, StopAfter, vars
<1>. QED  BY <1>4, <1>5, <1>6 DEF Next, Terminated

LEMMA PointsStep ==
  /\ TypeOK /\ BrokenInv /\ TreeInv /\ NeverBroken /\ RecoveryInv /\ PointsInv
  /\ [Next]_vars
  => PointsInv'
<1> SUFFICES ASSUME TypeOK, BrokenInv, TreeInv, NeverBroken, RecoveryInv, PointsInv,
                    [Next]_vars, Recoverable'
             PROVE  PointsInv'
  BY DEF PointsInv
<1>1. grammar' = grammar /\ input' = input
  BY DEF Next, vars, AcceptInput, RejectToken, ShiftToken, ReduceRule, Crash, StopBefore,
         StopAfter, Skip, Terminated
<1>2. Recoverable /\ ~isBroken
  BY RecoverableBefore DEF NeverBroken
<1>3. /\ Based
      /\ phase = "prune" => prunePoint \in 1..Len(tree)
  BY <1>2 DEF RecoveryInv
<1>4. /\ phase = "parse" => PointsOK(Len(tree))
      /\ phase = "prune" => PointsOK(prunePoint)
  BY <1>2 DEF PointsInv
<1>5. tree \in Seq(Nat) /\ Len(tree) \in Nat /\ Len(tree) # 0
  BY <1>2 DEF TypeOK, BrokenInv
<1>6. ~isBroken' /\ tree' # <<>>
  <2>1. NeverBroken' /\ BrokenInv'
    BY TypeStep, BrokenStep
  <2>. QED  BY <2>1 DEF NeverBroken, BrokenInv
<1>7. CASE AcceptInput \/ Crash
  BY <1>7 DEF AcceptInput, Crash, PointsInv
<1>8. CASE RejectToken
  <2>1. PointsOK(Len(tree))' /\ prunePoint' = Len(tree') /\ phase' = "prune"
    BY <1>2, <1>3, <1>4, <1>8, RejectPoints DEF RejectToken
  <2>2. PointsOK(prunePoint)'
    BY <2>1 DEF PointsOK, Heights, Marks
  <2>. QED  BY <2>1, <2>2 DEF PointsInv
<1>9. CASE ShiftToken
  <2>1. PointsOK(Len(tree))' /\ phase' = "parse"
    <3>1. phase = "parse" /\ phase' = phase
      BY <1>9 DEF ShiftToken
    <3>. QED  BY <1>2, <1>3, <1>4, <1>6, <1>9, <3>1, ShiftPoints
  <2>. QED  BY <2>1 DEF PointsInv
<1>10. CASE ReduceRule
  <2>1. phase = "parse" /\ phase' = "parse" /\ UNCHANGED <<grammar, tree>>
    BY <1>10 DEF ReduceRule
  <2>2. PICK p, rest : Reduced(p, rest)
    BY <1>3, <1>10, ReducePath
  <2>. DEFINE n == Len(tree)
  <2>3. PointsOK(n) /\ n' = n
    BY <1>4, <2>1
  <2>4. PICK k : k = n
    OBVIOUS
  <2>. HIDE DEF n
  <2>5. PointsOK(k)'
    BY <1>3, <2>1, <2>2, <2>3, <2>4, ReducePoints
  <2>6. PointsOK(n)'
    BY <2>3, <2>4, <2>5 DEF PointsOK, Heights, Marks
  <2>. QED  BY <2>1, <2>6 DEF PointsInv, n
<1>11. CASE StopBefore \/ StopAfter
  <2>1. /\ UNCHANGED <<states, tree, grammar>> /\ phase' = "parse" /\ phase = "prune"
    BY <1>2, <1>11 DEF StopBefore, StopAfter, Resume
  <2>2. Len(tree) = prunePoint
    <3>1. CASE StopBefore /\ CurrentToken = End
      <4>0. Balanced
        <5>1. UNCHANGED <<input, pos>>
          BY <3>1 DEF StopBefore
        <5>2. CurrentToken' = End
          BY <3>1, <5>1 DEF CurrentToken
        <5>3. Balanced' => Balanced
          BY <5>1 DEF Balanced, BracesPair, Opened, Closed
        <5>. QED  BY <5>2, <5>3 DEF Recoverable
      <4>1. Len(tree) = 1
        BY <1>2, <3>1, <4>0, RootAtEnd
      <4>. QED  BY <1>3, <2>1, <4>1
    <3>2. CASE ~(StopBefore /\ CurrentToken = End)
      BY <1>11, <3>2 DEF StopBefore, StopAfter
    <3>. QED  BY <3>1, <3>2
  <2>3. PointsOK(Len(tree))
    BY <1>4, <2>1, <2>2
  <2>4. PointsOK(Len(tree))'
    <3>1. AfterOpenBrace' = AfterOpenBrace
      BY <2>1 DEF AfterOpenBrace, StateNumbers, Actions
    <3>. QED  BY <2>1, <2>3, <3>1 DEF PointsOK, Heights, Marks
  <2>. QED  BY <2>1, <2>4 DEF PointsInv
<1>12. CASE Skip
  <2>1. /\ UNCHANGED <<states, prunePoint, grammar, phase>> /\ phase = "prune"
        /\ Len(tree) = prunePoint => CurrentToken # CloseBrace
    BY <1>12 DEF Skip
  <2>2. tree' = CASE CurrentToken = OpenBrace -> Append(tree, 0)
                  [] CurrentToken = CloseBrace -> SubSeq(tree, 1, Len(tree) - 1)
                  [] OTHER -> tree
    BY <1>2, <1>12 DEF Skip, Swallow
  <2>3. prunePoint \in 1..Len(tree)
    BY <1>3, <2>1
  <2>4. prunePoint \in 1..Len(tree') /\ \A j \in 1..prunePoint : tree'[j] = tree[j]
    <3>1. CASE CurrentToken = OpenBrace
      <4>1. tree' = Append(tree, 0)
        BY <2>2, <3>1, InputsAssumption
      <4>. QED  BY <1>5, <2>3, <4>1
    <3>2. CASE CurrentToken = CloseBrace
      <4>1. tree' = SubSeq(tree, 1, Len(tree) - 1)
        BY <2>2, <3>2, InputsAssumption
      <4>2. prunePoint \in 1..(Len(tree) - 1)
        BY <1>5, <2>1, <2>3, <3>2
      <4>. QED  BY <1>5, <4>1, <4>2
    <3>3. CASE CurrentToken \notin {OpenBrace, CloseBrace}
      <4>1. tree' = tree
        BY <2>2, <3>3
      <4>. QED  BY <2>3, <4>1
    <3>. QED  BY <3>1, <3>2, <3>3
  <2>5. PICK k : k = prunePoint
    OBVIOUS
  <2>6. PointsOK(k) /\ k \in 1..Len(tree') /\ \A j \in 1..k : tree'[j] = tree[j]
    BY <1>4, <2>1, <2>4, <2>5
  <2>7. PointsOK(k)'
    BY <2>1, <2>6, PointsStay
  <2>8. PointsOK(prunePoint)'
    BY <2>1, <2>5, <2>7 DEF PointsOK, Heights, Marks
  <2>. QED  BY <2>1, <2>8 DEF PointsInv
<1>13. CASE UNCHANGED vars
  <2>1. UNCHANGED <<states, tree, grammar, phase, prunePoint>>
    BY <1>13 DEF vars
  <2>2. AfterOpenBrace' = AfterOpenBrace
    BY <2>1 DEF AfterOpenBrace, StateNumbers, Actions
  <2>3. /\ PointsOK(Len(tree)) => PointsOK(Len(tree))'
        /\ PointsOK(prunePoint) => PointsOK(prunePoint)'
    BY <2>1, <2>2 DEF PointsOK, Heights, Marks
  <2>. QED  BY <1>4, <2>1, <2>3 DEF PointsInv
<1>. QED  BY <1>7, <1>8, <1>9, <1>10, <1>11, <1>12, <1>13 DEF Next, Terminated

LEMMA PointsOnStack == TypeOK /\ PointsInv => RecoveryPointsOnStack
<1> SUFFICES ASSUME TypeOK, PointsInv, Recoverable, phase = "parse"
             PROVE  /\ tree[1] = 1 /\ tree[Len(tree)] <= Len(states)
                    /\ \A i \in 2..Len(tree) :
                         tree[i - 1] < tree[i] /\ states[tree[i]] \in AfterOpenBrace
  BY DEF RecoveryPointsOnStack
<1>. DEFINE n == Len(tree)
            size == Len(states)
<1>1. PointsOK(n) /\ n \in Nat /\ size \in Nat
  BY DEF PointsInv, TypeOK
<1>2. PICK h : Heights(h, n) /\ Marks(h, n)
  BY <1>1 DEF PointsOK
<1>3. n >= 1 /\ n \in 1..n
  BY <1>1 DEF PointsOK
<1>4. tree[1] = 1 /\ tree[n] \in 1..size
  BY <1>2, <1>3 DEF Marks
<1>5. ASSUME NEW i \in 2..n
      PROVE  tree[i - 1] < tree[i] /\ states[tree[i]] \in AfterOpenBrace
  <2>. DEFINE t == tree[i]
              s == tree[i - 1]
  <2>1. i \in 1..n /\ i - 1 \in 1..n
    BY <1>1
  <2>2. t \in 1..size /\ \A k \in t..size : h[k] >= i
    BY <1>2, <2>1 DEF Marks
  <2>3. s \in 1..size /\ h[s] = i - 1
    BY <1>2, <2>1 DEF Marks
  <2>4. states[t] \in AfterOpenBrace
    BY <1>2 DEF Marks
  <2>. HIDE DEF s, t, n, size
  <2>5. s < t
    <3>1. SUFFICES ASSUME s >= t PROVE FALSE
      BY <1>1, <2>2, <2>3
    <3>2. s \in t..size
      BY <1>1, <2>2, <2>3, <3>1
    <3>3. i - 1 >= i
      BY <2>2, <2>3, <3>2
    <3>. QED  BY <2>1, <3>3
  <2>. QED  BY <2>4, <2>5 DEF s, t
<1>. QED  BY <1>1, <1>4, <1>5

LEMMA PointsKept ==
  Spec => [](TypeOK /\ BrokenInv /\ TreeInv /\ NeverBroken /\ RecoveryInv /\ PointsInv)
<1>. DEFINE Inv == TypeOK /\ BrokenInv /\ TreeInv /\ NeverBroken /\ RecoveryInv /\ PointsInv
<1>1. Init => NeverBroken
  BY DEF Init, NeverBroken
<1>2. Init => Inv
  BY <1>1, TypeInit, TreeInit, RecoveryInit, PointsInit
<1>3. Inv /\ [Next]_vars => Inv'
  BY TypeStep, TreeStep, BrokenStep, RecoveryStep, PointsStep
<1>. HIDE DEF Inv
<1>4. Spec => []Inv
  BY <1>2, <1>3, PTL DEF Spec
<1>. QED  BY <1>4 DEF Inv

(* The recovery tree is never given up, whatever the braces of the file: the *)
(* exits of parse() for a broken tree are never taken.                       *)
THEOREM TreeNeverBroken == Spec => []NeverBroken
BY PointsKept, PTL

(* So it has one node for every open block in every state.                   *)
THEOREM TreeFollows == Spec => []TreeFollowsBlocks
<1>1. TreeInv /\ NeverBroken => TreeFollowsBlocks
  BY DEF TreeInv, NeverBroken
<1>. QED  BY <1>1, PointsKept, PTL

(* While a file is parsed, errors or not, up to its end if its braces do not *)
(* pair, the node of each open block marks a place of the stack right after  *)
(* the opening brace, inside that of the enclosing block: recovery goes back *)
(* to no other place, whatever was skipped before (RecoveryTree,             *)
(* LRParser::parse).                                                         *)
THEOREM RecoveryPoints == Spec => []RecoveryPointsOnStack
<1>1. TypeOK /\ PointsInv => RecoveryPointsOnStack
  BY PointsOnStack
<1>. QED  BY <1>1, PointsKept, PTL

(* Recovery empties the stack, or a read leaves it, only at the end of a     *)
(* file whose braces do not pair.                                            *)
THEOREM NeverCrashesBefore ==
  Spec => [](Recoverable => DummyCountsUnused /\ phase # "crashed")
<1>1. RecoveryInv => (Recoverable => DummyCountsUnused /\ phase # "crashed")
  BY DEF RecoveryInv, Based, DummyCountsUnused
<1>. QED  BY <1>1, PointsKept, PTL
=============================================================================
