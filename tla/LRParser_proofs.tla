-------------------------- MODULE LRParser_proofs --------------------------
(* Proofs about the parser and its recovery, for all tables that fulfil      *)
(* TablesAssumption and all files; and about the syntax trees: what lies on  *)
(* the two stacks, symbol by symbol.                                         *)
EXTENDS LRParser, FiniteSetTheorems, SequenceTheorems, WellFoundedInduction, TLAPS

-----------------------------------------------------------------------------
(* Types. *)

LEMMA ResizeType ==
  ASSUME NEW T, NEW stack \in Seq(T), NEW size \in Nat, 0 \in T
  PROVE  /\ Resize(stack, size) \in Seq(T) /\ Len(Resize(stack, size)) = size
         /\ \A i \in 1..size : Resize(stack, size)[i] = IF i <= Len(stack) THEN stack[i] ELSE 0
<1>1. Resize(stack, size) \in [1..size -> T]
  BY DEF Resize
<1>2. Resize(stack, size) \in Seq(T) /\ Len(Resize(stack, size)) = size
  BY <1>1
<1>. QED  BY <1>2 DEF Resize

LEMMA CurrentTokenType == TypeOK => CurrentToken \in Tokens
<1>. SUFFICES ASSUME TypeOK PROVE CurrentToken \in Tokens
  OBVIOUS
<1>1. input \in Seq(Tokens \ {End})
  BY InputsAssumption DEF TypeOK
<1>2. End \in Tokens
  BY InputsAssumption
<1>. QED  BY <1>1, <1>2 DEF CurrentToken, TypeOK

(* The actions of the table keep inside the states. *)
LEMMA ChoiceOK ==
  ASSUME TypeOK, NEW kind, NEW a \in Choice(kind)
  PROVE  /\ a.kind = kind
         /\ \E s \in Back(states) : s \in StateNumbers /\ ActionOK(grammar, s, CurrentToken, a)
<1>1. PICK s \in Back(states) : a = Actions[s][CurrentToken]
  BY DEF Choice
<1>2. Back(states) \subseteq StateNumbers
  BY DEF Back, TypeOK
<1>3. ActionOK(grammar, s, CurrentToken, a)
  BY <1>1, <1>2, CurrentTokenType, TablesAssumption DEF TablesFit, TypeOK, StateNumbers, Actions
<1>. QED  BY <1>1, <1>2, <1>3 DEF Choice

(* What is reduced is a rule that the state is at the end of, and its        *)
(* nonterminal leads from every state to some state.                         *)
LEMMA ReduceChoice ==
  ASSUME TypeOK, NEW a \in Choice("reduce")
  PROVE  /\ a.count \in Nat
         /\ \A s \in StateNumbers : Tables[grammar].goto[s][a.next] \in StateNumbers
<1>1. PICK s \in StateNumbers : ActionOK(grammar, s, CurrentToken, a) /\ a.kind = "reduce"
  BY ChoiceOK
<1>2. PICK p \in Positions(grammar, s) :
        RuleOf(p) \in Rules[grammar] /\ p.from = a.next /\ Len(p.to) = a.count
  BY <1>1 DEF ActionOK
<1>3. p.to \in Seq(Symbols(grammar))
  BY <1>1, <1>2, TablesAssumption DEF TablesFit, TypeOK, StateNumbers, Actions, PositionOK
<1>4. RuleOf(p).from = a.next
  BY <1>2 DEF RuleOf
<1>5. \A q \in StateNumbers : Tables[grammar].goto[q][a.next] \in StateNumbers
  BY <1>2, <1>4, TablesAssumption DEF TablesFit, TypeOK, StateNumbers, Actions
<1>. QED  BY <1>2, <1>3, <1>5

LEMMA SwallowType ==
  ASSUME TypeOK, NEW token, NEW count \in Nat, Swallow(token, count),
         ~isBroken => tree # <<>>
  PROVE  tree' \in Seq(Nat) /\ isBroken' \in BOOLEAN
<1>1. CASE isBroken
  BY <1>1 DEF Swallow, TypeOK
<1>2. CASE ~isBroken
  <2>1. Len(tree) \in Nat /\ Len(tree) # 0 /\ tree \in Seq(Nat)
    BY <1>2 DEF TypeOK
  <2>2. SubSeq(tree, 1, Len(tree) - 1) \in Seq(Nat)
    BY <2>1
  <2>3. Append(tree, count) \in Seq(Nat)
    BY <2>1
  <2>4. tree' \in Seq(Nat)
    BY <1>2, <2>1, <2>2, <2>3 DEF Swallow
  <2>5. isBroken' = (tree' = <<>>)
    BY <1>2 DEF Swallow
  <2>. QED  BY <2>4, <2>5
<1>. QED  BY <1>1, <1>2

(* A broken tree is an empty one. *)
BrokenInv == isBroken <=> tree = <<>>

LEMMA SwallowBroken ==
  ASSUME TypeOK, BrokenInv, NEW token, NEW count \in Nat, Swallow(token, count)
  PROVE  BrokenInv'
<1>1. CASE isBroken
  BY <1>1 DEF Swallow, BrokenInv
<1>2. CASE ~isBroken
  <2>1. isBroken' = (tree' = <<>>)
    BY <1>2 DEF Swallow
  <2>. QED  BY <2>1 DEF BrokenInv
<1>. QED  BY <1>1, <1>2

LEMMA TypeStep == TypeOK /\ BrokenInv /\ [Next]_vars => TypeOK' /\ BrokenInv'
<1> SUFFICES ASSUME TypeOK, BrokenInv, [Next]_vars PROVE TypeOK' /\ BrokenInv'
  OBVIOUS
<1>0. /\ input \in Seq(Tokens \ {End}) /\ Len(input) \in Nat
      /\ 0 \in StateNumbers
  BY InputsAssumption, TablesAssumption DEF TablesFit, TypeOK, StateNumbers, Actions
<1>00. NextPos \in 1..(Len(input) + 1)
  BY <1>0 DEF NextPos, TypeOK
<1>1. CASE AcceptInput
  BY <1>1 DEF AcceptInput, TypeOK, BrokenInv, StateNumbers, Actions
<1>2. CASE RejectToken
  <2>1. UNCHANGED <<grammar, input, pos, tree, isBroken, ast>>
    BY <1>2 DEF RejectToken
  <2>2. errors' \subseteq 1..(Len(input) + 1)
    BY <1>2 DEF RejectToken, TypeOK
  <2>3. CASE isBroken
    BY <1>2, <2>1, <2>2, <2>3 DEF RejectToken, TypeOK, BrokenInv, StateNumbers, Actions
  <2>4. CASE ~isBroken
    <3>1. tree \in Seq(Nat) /\ tree # <<>>
      BY <2>4 DEF TypeOK, BrokenInv
    <3>2. tree[Len(tree)] \in Nat /\ Len(tree) \in Nat
      BY <3>1
    <3> DEFINE size == tree[Len(tree)]
    <3>3. states \in Seq(StateNumbers) /\ size \in Nat
      BY <3>2 DEF TypeOK
    <3> HIDE DEF size
    <3>4. Resize(states, size) \in Seq(StateNumbers)
      BY <3>3, <1>0, ResizeType
    <3>5. states' = Resize(states, size)
      BY <1>2, <2>4 DEF RejectToken, size
    <3>. QED  BY <1>2, <2>1, <2>2, <2>4, <3>2, <3>4, <3>5
              DEF RejectToken, TypeOK, BrokenInv, StateNumbers, Actions
  <2>. QED  BY <2>3, <2>4
<1>3. CASE ShiftToken
  <2>1. PICK a \in Choice("shift") : states' = Append(states, a.next)
    BY <1>3 DEF ShiftToken
  <2>2. a.next \in StateNumbers
    BY <2>1, ChoiceOK DEF ActionOK, Leads, StateNumbers, Actions
  <2>3. states' \in Seq(StateNumbers) /\ Len(states') \in Nat
    BY <2>1, <2>2 DEF TypeOK
  <2>4. Swallow(CurrentToken, Len(states')) /\ pos' = NextPos
        /\ UNCHANGED <<grammar, input, prunePoint, errors, phase, ast>>
    BY <1>3 DEF ShiftToken
  <2>5. tree' \in Seq(Nat) /\ isBroken' \in BOOLEAN /\ BrokenInv'
    BY <2>3, <2>4, SwallowType, SwallowBroken DEF BrokenInv
  <2>. QED  BY <1>00, <2>3, <2>4, <2>5 DEF TypeOK, StateNumbers, Actions
<1>4. CASE ReduceRule
  <2>1. PICK a \in Choice("reduce") :
          /\ a.count <= Len(states)
          /\ LET below == SubSeq(states, 1, Len(states) - a.count) IN
             \E s \in Back(below) : states' = Append(below, Tables[grammar].goto[s][a.next])
    BY <1>4 DEF ReduceRule
  <2>2. /\ a.count \in Nat
        /\ \A s \in StateNumbers : Tables[grammar].goto[s][a.next] \in StateNumbers
    BY <2>1, ReduceChoice
  <2> DEFINE below == SubSeq(states, 1, Len(states) - a.count)
  <2>3. below \in Seq(StateNumbers)
    BY <2>1, <2>2 DEF TypeOK
  <2>4. PICK s \in Back(below) : states' = Append(below, Tables[grammar].goto[s][a.next])
    BY <2>1
  <2>5. s \in StateNumbers
    BY <2>3 DEF Back
  <2>6. states' \in Seq(StateNumbers)
    BY <2>2, <2>3, <2>4, <2>5
  <2>. QED  BY <1>4, <2>6 DEF ReduceRule, TypeOK, BrokenInv, StateNumbers, Actions
<1>5. CASE Crash
  BY <1>5 DEF Crash, TypeOK, BrokenInv, StateNumbers, Actions
<1>6. CASE StopBefore
  BY <1>6 DEF StopBefore, Resume, TypeOK, BrokenInv, StateNumbers, Actions
<1>7. CASE StopAfter
  BY <1>7, <1>00 DEF StopAfter, Resume, TypeOK, BrokenInv, StateNumbers, Actions
<1>8. CASE Skip
  <2>1. Swallow(CurrentToken, 0) /\ pos' = NextPos
        /\ UNCHANGED <<grammar, input, states, nodes, prunePoint, errors, phase, ast>>
    BY <1>8 DEF Skip
  <2>2. tree' \in Seq(Nat) /\ isBroken' \in BOOLEAN /\ BrokenInv'
    BY <2>1, SwallowType, SwallowBroken DEF BrokenInv
  <2>. QED  BY <1>00, <2>1, <2>2 DEF TypeOK, StateNumbers, Actions
<1>9. CASE UNCHANGED vars
  BY <1>9 DEF vars, TypeOK, BrokenInv, StateNumbers, Actions
<1>. QED  BY <1>1, <1>2, <1>3, <1>4, <1>5, <1>6, <1>7, <1>8, <1>9 DEF Next, Terminated

LEMMA TypeInit == Init => TypeOK /\ BrokenInv
<1> SUFFICES ASSUME Init PROVE TypeOK /\ BrokenInv
  OBVIOUS
<1>1. input \in Seq(Tokens \ {End}) /\ 0 \in StateNumbers
  BY InputsAssumption, TablesAssumption DEF TablesFit, Init, StateNumbers, Actions
<1>2. states \in Seq(StateNumbers) /\ tree \in Seq(Nat) /\ tree # <<>>
  BY <1>1 DEF Init
<1>3. pos \in 1..(Len(input) + 1)
  BY <1>1 DEF Init
<1>. QED  BY <1>2, <1>3 DEF Init, TypeOK, BrokenInv

LEMMA TypesKept == Spec => [](TypeOK /\ BrokenInv)
BY TypeInit, TypeStep, PTL DEF Spec

(* The parser's variables keep their types: no step leaves the states of the *)
(* tables or the file, whatever recovery does to the stack.                  *)
THEOREM TypeCorrect == Spec => []TypeOK
BY TypesKept, PTL

-----------------------------------------------------------------------------
(* The recovery tree and the braces. *)

(* One token more is one more of its kind. *)
Count(tokens, b, n) == Cardinality({i \in 1..n : tokens[i] = b})

LEMMA CountNext ==
  ASSUME NEW T, NEW tokens \in Seq(T), NEW b, NEW k \in Nat, k < Len(tokens)
  PROVE  /\ Count(tokens, b, k) \in Nat
         /\ Count(tokens, b, k + 1) = Count(tokens, b, k) + (IF tokens[k + 1] = b THEN 1 ELSE 0)
<1> DEFINE S(n) == {i \in 1..n : tokens[i] = b}
<1>1. IsFiniteSet(S(k))
  <2>1. IsFiniteSet(1..k)
    BY FS_Interval
  <2>. QED  BY <2>1, FS_Subset
<1>2. Cardinality(S(k)) \in Nat
  BY <1>1, FS_CardinalityType
<1>3. tokens[k + 1] = b => S(k + 1) = S(k) \cup {k + 1} /\ k + 1 \notin S(k)
  OBVIOUS
<1>4. tokens[k + 1] # b => S(k + 1) = S(k)
  OBVIOUS
<1>5. \A n : Count(tokens, b, n) = Cardinality(S(n))
  BY DEF Count
<1> HIDE DEF S
<1>6. CASE tokens[k + 1] = b
  BY <1>1, <1>2, <1>3, <1>5, <1>6, FS_AddElement
<1>7. CASE tokens[k + 1] # b
  BY <1>2, <1>4, <1>5, <1>7
<1>. QED  BY <1>6, <1>7

LEMMA BracesNext ==
  ASSUME NEW T, NEW tokens \in Seq(T), NEW k \in Nat, k < Len(tokens)
  PROVE  /\ Opened(tokens, k) \in Nat /\ Closed(tokens, k) \in Nat
         /\ Opened(tokens, k + 1)
              = Opened(tokens, k) + (IF tokens[k + 1] = OpenBrace THEN 1 ELSE 0)
         /\ Closed(tokens, k + 1)
              = Closed(tokens, k) + (IF tokens[k + 1] = CloseBrace THEN 1 ELSE 0)
<1>1. \A n : /\ Opened(tokens, n) = Count(tokens, OpenBrace, n)
             /\ Closed(tokens, n) = Count(tokens, CloseBrace, n)
  BY DEF Opened, Closed, Count
<1>2. /\ Count(tokens, OpenBrace, k) \in Nat
      /\ Count(tokens, OpenBrace, k + 1)
           = Count(tokens, OpenBrace, k) + (IF tokens[k + 1] = OpenBrace THEN 1 ELSE 0)
  BY CountNext
<1>3. /\ Count(tokens, CloseBrace, k) \in Nat
      /\ Count(tokens, CloseBrace, k + 1)
           = Count(tokens, CloseBrace, k) + (IF tokens[k + 1] = CloseBrace THEN 1 ELSE 0)
  BY CountNext
<1>. QED  BY <1>1, <1>2, <1>3

(* As long as the tree is not broken it follows the braces. *)
TreeInv == ~isBroken => TreeFollowsBlocks

LEMMA SwallowFollows ==
  ASSUME TypeOK, BrokenInv, TreeInv, NEW count \in Nat, Swallow(CurrentToken, count),
         pos' = NextPos, UNCHANGED <<grammar, input>>
  PROVE  TreeInv'
<1>0. input \in Seq(Tokens \ {End}) /\ Len(input) \in Nat /\ input' = input
  BY InputsAssumption DEF TypeOK
<1>1. CASE isBroken
  BY <1>1 DEF Swallow, TreeInv
<1>2. CASE ~isBroken /\ pos = Len(input) + 1
  <2>1. CurrentToken = End /\ NextPos = pos
    BY <1>0, <1>2 DEF CurrentToken, NextPos
  <2>2. tree' = tree
    BY <1>2, <2>1, InputsAssumption DEF Swallow
  <2>3. TreeFollowsBlocks'
    BY <1>0, <1>2, <2>1, <2>2 DEF TreeInv, TreeFollowsBlocks, Opened, Closed
  <2>4. isBroken' = (tree' = <<>>)
    BY <1>2 DEF Swallow
  <2>. QED  BY <1>2, <2>2, <2>3, <2>4 DEF TreeInv, BrokenInv
<1>3. CASE ~isBroken /\ pos <= Len(input)
  <2> DEFINE k == pos - 1
             token == input[pos]
  <2>1. k \in Nat /\ k < Len(input) /\ k + 1 = pos /\ pos' = pos + 1 /\ pos' - 1 = k + 1
    BY <1>0, <1>3 DEF TypeOK, NextPos
  <2>2. CurrentToken = token
    BY <1>3 DEF CurrentToken
  <2>3. tree \in Seq(Nat) /\ Len(tree) \in Nat /\ Len(tree) # 0
    BY <1>3 DEF TypeOK, BrokenInv
  <2>4. Len(tree) + Closed(input, k) = 1 + Opened(input, k)
    BY <1>3 DEF TreeInv, TreeFollowsBlocks
  <2>5. /\ Opened(input, k) \in Nat /\ Closed(input, k) \in Nat
        /\ Opened(input, k + 1) = Opened(input, k) + (IF token = OpenBrace THEN 1 ELSE 0)
        /\ Closed(input, k + 1) = Closed(input, k) + (IF token = CloseBrace THEN 1 ELSE 0)
    BY <1>0, <2>1, BracesNext
  <2>6. tree' = CASE token = OpenBrace -> Append(tree, count)
                  [] token = CloseBrace -> SubSeq(tree, 1, Len(tree) - 1)
                  [] OTHER -> tree
    BY <1>3, <2>2 DEF Swallow
  <2> HIDE DEF k, token
  <2>7. Len(tree') + Closed(input, k + 1) = 1 + Opened(input, k + 1) /\ Len(tree') \in Nat
    <3>1. CASE token = OpenBrace
      BY <2>3, <2>4, <2>5, <2>6, <3>1, InputsAssumption
    <3>2. CASE token = CloseBrace
      <4>1. tree' = SubSeq(tree, 1, Len(tree) - 1)
        BY <2>6, <3>2, InputsAssumption
      <4>2. Len(tree') = Len(tree) - 1
        <5>1. \A i \in 1..(Len(tree) - 1) : tree[i] \in Nat
          BY <2>3
        <5>2. Len(SubSeq(tree, 1, Len(tree) - 1))
                = IF 1 <= Len(tree) - 1 THEN Len(tree) - 1 - 1 + 1 ELSE 0
          BY <2>3, <5>1, SubSeqProperties
        <5> DEFINE n == Len(tree)
                   m == Len(SubSeq(tree, 1, n - 1))
        <5>3. n \in Nat /\ n # 0 /\ m = IF 1 <= n - 1 THEN n - 1 - 1 + 1 ELSE 0
          BY <2>3, <5>2
        <5> HIDE DEF n, m
        <5>4. m = n - 1
          BY <5>3
        <5>. QED  BY <4>1, <5>4 DEF m, n
      <4>. QED  BY <2>3, <2>4, <2>5, <3>2, <4>2, InputsAssumption
    <3>3. CASE token \notin {OpenBrace, CloseBrace}
      BY <2>3, <2>4, <2>5, <2>6, <3>3
    <3>. QED  BY <3>1, <3>2, <3>3
  <2>8. TreeFollowsBlocks'
    BY <1>0, <2>1, <2>7 DEF TreeFollowsBlocks, Opened, Closed
  <2>. QED  BY <2>8 DEF TreeInv
<1>. QED  BY <1>0, <1>1, <1>2, <1>3 DEF TypeOK

LEMMA TreeInit == Init => TreeInv
<1> SUFFICES ASSUME Init PROVE TreeInv
  OBVIOUS
<1>1. {i \in 1..(pos - 1) : input[i] = OpenBrace} = {} /\ {i \in 1..(pos - 1) : input[i] = CloseBrace} = {}
  BY DEF Init
<1>2. Opened(input, pos - 1) = 0 /\ Closed(input, pos - 1) = 0
  BY <1>1, FS_EmptySet DEF Opened, Closed
<1>. QED  BY <1>2 DEF Init, TreeInv, TreeFollowsBlocks

LEMMA TreeStep ==
  TypeOK /\ BrokenInv /\ TreeInv /\ [Next]_vars => TreeInv'
<1> SUFFICES ASSUME TypeOK, BrokenInv, TreeInv, [Next]_vars PROVE TreeInv'
  OBVIOUS
<1> DEFINE Still == UNCHANGED <<input, pos, tree, isBroken>>
<1>1. ASSUME Still PROVE TreeInv'
  BY <1>1 DEF TreeInv, TreeFollowsBlocks, Opened, Closed
<1>2. ASSUME NEW count \in Nat, Swallow(CurrentToken, count), pos' = NextPos,
             UNCHANGED <<grammar, input>>
      PROVE  TreeInv'
  BY <1>2, SwallowFollows
<1>3. CASE AcceptInput
  BY <1>1, <1>3 DEF AcceptInput
<1>4. CASE RejectToken
  BY <1>1, <1>4 DEF RejectToken
<1>5. CASE ShiftToken
  <2>1. TypeOK'
    BY TypeStep
  <2>2. Len(states') \in Nat
    BY <2>1 DEF TypeOK
  <2>. QED  BY <1>2, <1>5, <2>2 DEF ShiftToken
<1>6. CASE ReduceRule
  BY <1>1, <1>6 DEF ReduceRule
<1>7. CASE Crash
  BY <1>1, <1>7 DEF Crash
<1>8. CASE StopBefore
  BY <1>1, <1>8 DEF StopBefore
<1>9. CASE StopAfter
  <2>1. CurrentToken = Semicolon /\ pos' = NextPos
        /\ UNCHANGED <<grammar, input, tree, isBroken>>
    BY <1>9 DEF StopAfter
  <2>2. Swallow(CurrentToken, 0)
    BY <2>1, InputsAssumption DEF Swallow, BrokenInv
  <2>. QED  BY <1>2, <2>1, <2>2
<1>10. CASE Skip
  BY <1>2, <1>10 DEF Skip
<1>11. CASE UNCHANGED vars
  BY <1>1, <1>11 DEF vars
<1>. QED  BY <1>3, <1>4, <1>5, <1>6, <1>7, <1>8, <1>9, <1>10, <1>11 DEF Next, Terminated

-----------------------------------------------------------------------------
(* Induction.  The induction theorems of the library have an operator for a  *)
(* parameter; with a set in its place they can be used.                      *)

Less == {p \in Nat \X Nat : p[1] < p[2]}

LEMMA LessWellFounded == IsWellFoundedOn(Less, Nat)
BY NatLessThanWellFounded DEF Less, OpToRel

LEMMA LeastNumber ==
  ASSUME NEW T, T \subseteq Nat, T # {}
  PROVE  \E x \in T : \A y \in T : x <= y
<1>1. PICK x \in T : \A y \in T : ~(<<y, x>> \in Less)
  BY LessWellFounded, WFMin
<1>2. ASSUME NEW y \in T PROVE x <= y
  <2>1. x \in Nat /\ y \in Nat
    OBVIOUS
  <2>2. y < x => <<y, x>> \in Less
    <3>1. <<y, x>> \in Nat \X Nat /\ <<y, x>>[1] = y /\ <<y, x>>[2] = x
      BY <2>1
    <3>. QED  BY <3>1 DEF Less
  <2>3. ~(y < x)
    BY <1>1, <2>2
  <2>. QED  BY <2>1, <2>3
<1>. QED  BY <1>2

(* A set with zero that is closed under successors has every natural number. *)
LEMMA SetInduction ==
  ASSUME NEW T, 0 \in T, \A n \in Nat : n \in T => n + 1 \in T
  PROVE  Nat \subseteq T
<1>1. SUFFICES ASSUME Nat \ T # {} PROVE FALSE
  OBVIOUS
<1>2. PICK x \in Nat \ T : \A y \in Nat \ T : x <= y
  BY <1>1, LeastNumber
<1>3. x # 0 /\ x - 1 \in Nat
  BY <1>2
<1>4. x - 1 \in T
  BY <1>2, <1>3
<1>. QED  BY <1>2, <1>3, <1>4

-----------------------------------------------------------------------------
(* The stack of states. *)

(* Every state on the stack was reached from the one below it; only recovery *)
(* of a file whose braces do not pair puts the first state above others.     *)
Path ==
  \A i \in 1..(Len(states) - 1) :
    \/ states[i + 1] = 0
    \/ \E x \in Symbols(grammar) : Leads(grammar, states[i], x, states[i + 1])
Based == states # <<>> /\ states[1] = 0 /\ Path

LEMMA BasedStack ==
  ASSUME TypeOK, Based
  PROVE  /\ states \in Seq(StateNumbers) /\ Len(states) \in Nat /\ Len(states) >= 1
         /\ Back(states) = {states[Len(states)]} /\ states[Len(states)] \in StateNumbers
<1>1. states \in Seq(StateNumbers) /\ states # <<>>
  BY DEF TypeOK, Based
<1>. QED  BY <1>1 DEF Back

LEMMA PositionsOK ==
  ASSUME TypeOK, NEW s \in StateNumbers, NEW p \in Positions(grammar, s)
  PROVE  PositionOK(grammar, s, p)
BY TablesAssumption DEF TablesFit, TypeOK, StateNumbers, Actions

(* Going down the stack from a position, the dot goes back through the rule: *)
(* the whole part of the body that was passed lies on the stack.             *)
LEMMA BodyBelow ==
  ASSUME TypeOK, Based, NEW p \in Positions(grammar, states[Len(states)])
  PROVE  /\ p.dot - 1 < Len(states)
         /\ \A k \in 0..(p.dot - 1) :
              \E q \in Positions(grammar, states[Len(states) - k]) :
                RuleOf(q) = RuleOf(p) /\ q.dot = p.dot - k
<1>. DEFINE n == Len(states)
            Below(k) == \E q \in Positions(grammar, states[n - k]) :
                          RuleOf(q) = RuleOf(p) /\ q.dot = p.dot - k
            T == {k \in Nat : k <= p.dot - 1 => k < n /\ Below(k)}
<1>1. states \in Seq(StateNumbers) /\ n \in Nat /\ n >= 1 /\ states[n] \in StateNumbers
  BY BasedStack
<1>2. p.dot \in Nat /\ p.dot >= 1
  BY <1>1, PositionsOK DEF PositionOK
<1>3. 0 \in T
  <2>1. n - 0 = n /\ p.dot - 0 = p.dot
    BY <1>1, <1>2
  <2>2. Below(0)
    BY <2>1
  <2>. QED  BY <1>1, <2>2
<1>4. ASSUME NEW k \in Nat, k \in T PROVE k + 1 \in T
  <2>1. SUFFICES ASSUME k + 1 <= p.dot - 1 PROVE k + 1 < n /\ Below(k + 1)
    OBVIOUS
  <2>2. k < n /\ Below(k)
    BY <1>2, <1>4, <2>1
  <2>3. PICK q \in Positions(grammar, states[n - k]) : RuleOf(q) = RuleOf(p) /\ q.dot = p.dot - k
    BY <2>2
  <2>4. q.dot > 1 /\ q.dot - 1 = p.dot - (k + 1)
    BY <1>2, <2>1, <2>3
  <2>. DEFINE i == n - k
  <2>5. i \in 1..n /\ states[i] \in StateNumbers
    BY <1>1, <2>2
  <2>. HIDE DEF i
  <2>6. states[i] # 0
    <3>1. PositionOK(grammar, states[i], q)
      BY <2>3, <2>5, PositionsOK DEF i
    <3>. QED  BY <2>4, <3>1 DEF PositionOK
  <2>7. i # 1
    BY <2>6 DEF Based
  <2>. DEFINE j == n - (k + 1)
  <2>8. j \in 1..(n - 1) /\ i = j + 1 /\ k + 1 < n
    BY <1>1, <2>5, <2>7 DEF i
  <2>. HIDE DEF j
  <2>9. PICK x : Leads(grammar, states[j], x, states[i])
    BY <2>6, <2>8 DEF Based, Path
  <2>10. At(q, q.dot - 1) \in Positions(grammar, states[j])
    BY <2>3, <2>4, <2>9 DEF Leads, i
  <2>11. RuleOf(At(q, q.dot - 1)) = RuleOf(p) /\ At(q, q.dot - 1).dot = p.dot - (k + 1)
    BY <2>3, <2>4 DEF At, RuleOf
  <2>. QED  BY <2>8, <2>10, <2>11 DEF j
<1>. HIDE DEF T
<1>5. Nat \subseteq T
  BY <1>3, <1>4, SetInduction
<1>. QED  BY <1>2, <1>5 DEF T

(* A shift leads on from the last state ...                                  *)
LEMMA ShiftPath ==
  ASSUME TypeOK, Based, ShiftToken
  PROVE  /\ Based' /\ Len(states') = Len(states) + 1
         /\ \A i \in 1..Len(states) : states'[i] = states[i]
         /\ Leads(grammar, states[Len(states)], CurrentToken, states'[Len(states) + 1])
<1>1. PICK a \in Choice("shift") : states' = Append(states, a.next)
  BY DEF ShiftToken
<1>. DEFINE n == Len(states)
<1>2. /\ states \in Seq(StateNumbers) /\ n \in Nat /\ n >= 1
      /\ Back(states) = {states[n]} /\ states[n] \in StateNumbers
  BY BasedStack
<1>3. Leads(grammar, states[n], CurrentToken, a.next)
  BY <1>1, <1>2, ChoiceOK DEF ActionOK
<1>4. a.next \in StateNumbers /\ CurrentToken \in Symbols(grammar) /\ grammar' = grammar
  BY <1>3, CurrentTokenType DEF Leads, StateNumbers, Actions, Symbols, ShiftToken
<1>5. /\ Len(states') = n + 1 /\ states'[n + 1] = a.next
      /\ \A i \in 1..n : states'[i] = states[i]
  BY <1>1, <1>2, <1>4
<1>. HIDE DEF n
<1>6. Path'
  <2>1. SUFFICES ASSUME NEW i \in 1..n
                 PROVE  \/ states'[i + 1] = 0
                        \/ \E x \in Symbols(grammar) :
                             Leads(grammar, states'[i], x, states'[i + 1])
    BY <1>2, <1>4, <1>5 DEF Path
  <2>2. CASE i = n
    BY <1>2, <1>3, <1>4, <1>5, <2>2
  <2>3. CASE i # n
    <3>1. i \in 1..(n - 1) /\ i + 1 \in 1..n
      BY <1>2, <2>3
    <3>. QED  BY <1>5, <3>1 DEF Based, Path, n
  <2>. QED  BY <2>2, <2>3
<1>7. states' # <<>> /\ states'[1] = 0
  BY <1>2, <1>5 DEF Based
<1>. QED  BY <1>3, <1>5, <1>6, <1>7 DEF Based, n

(* ... a reduction takes the body of a rule off the stack and leads on from  *)
(* the state where the rule began, ...                                       *)
Reduced(p, rest) ==
  /\ p \in Positions(grammar, states[Len(states)])
  /\ AtEnd(p) /\ RuleOf(p) \in Rules[grammar] /\ p.from \in Symbols(grammar)
  /\ p.to \in Seq(Symbols(grammar)) /\ p.dot = Len(p.to) + 1
  /\ rest \in 1..Len(states) /\ rest = Len(states) - Len(p.to)
  /\ Len(states') = rest + 1
  /\ \A i \in 1..rest : states'[i] = states[i]
  /\ Leads(grammar, states[rest], p.from, states'[rest + 1])
  /\ nodes' = IF errors # {} THEN nodes
              ELSE Append(SubSeq(nodes, 1, Len(nodes) - Len(p.to)),
                          Merged(p.from, SubSeq(nodes, Len(nodes) - Len(p.to) + 1, Len(nodes))))

LEMMA ReducePath ==
  ASSUME TypeOK, Based, ReduceRule
  PROVE  Based' /\ \E p, rest : Reduced(p, rest)
<1>1. PICK a \in Choice("reduce") :
        /\ nodes' = IF errors # {} THEN nodes
                    ELSE LET rest == Len(nodes) - a.count IN
                         Append(SubSeq(nodes, 1, rest),
                                Merged(a.next, SubSeq(nodes, rest + 1, Len(nodes))))
        /\ LET below == SubSeq(states, 1, Len(states) - a.count) IN
           \E s \in Back(below) : states' = Append(below, Tables[grammar].goto[s][a.next])
  BY DEF ReduceRule
<1>. DEFINE n == Len(states)
<1>2. /\ states \in Seq(StateNumbers) /\ n \in Nat /\ n >= 1
      /\ Back(states) = {states[n]} /\ states[n] \in StateNumbers
  BY BasedStack
<1>3. ActionOK(grammar, states[n], CurrentToken, a) /\ a.kind = "reduce"
  BY <1>2, ChoiceOK
<1>4. PICK p \in Positions(grammar, states[n]) :
        /\ AtEnd(p) /\ RuleOf(p) \in Rules[grammar]
        /\ p.from = a.next /\ Len(p.to) = a.count
  BY <1>3 DEF ActionOK
<1>5. p.to \in Seq(Symbols(grammar)) /\ p.dot = Len(p.to) + 1 /\ Len(p.to) \in Nat
  BY <1>2, <1>4, PositionsOK DEF PositionOK, AtEnd
<1>6. p.from \in Symbols(grammar)
  BY <1>4 DEF Symbols, RuleOf
<1>. DEFINE rest == n - a.count
            below == SubSeq(states, 1, rest)
<1>7. rest \in 1..n
  <2>1. p.dot - 1 < n
    BY BodyBelow
  <2>. QED  BY <1>2, <1>4, <1>5, <2>1
<1>8. PICK q \in Positions(grammar, states[rest]) : RuleOf(q) = RuleOf(p) /\ q.dot = 1
  <2>1. a.count \in 0..(p.dot - 1) /\ p.dot - a.count = 1
    BY <1>4, <1>5
  <2>2. \E q \in Positions(grammar, states[n - a.count]) :
          RuleOf(q) = RuleOf(p) /\ q.dot = p.dot - a.count
    BY <2>1, BodyBelow
  <2>. QED  BY <2>1, <2>2
<1>9. below \in Seq(StateNumbers) /\ Len(below) = rest /\ \A i \in 1..rest : below[i] = states[i]
  BY <1>2, <1>7
<1>10. PICK s \in Back(below) : states' = Append(below, Tables[grammar].goto[s][a.next])
  BY <1>1
<1>. HIDE DEF below
<1>11. s = states[rest] /\ s \in StateNumbers
  <2>1. below # <<>>
    BY <1>7, <1>9
  <2>. QED  BY <1>2, <1>7, <1>9, <1>10, <2>1 DEF Back
<1>. DEFINE next == Tables[grammar].goto[s][a.next]
<1>12. Leads(grammar, states[rest], p.from, next)
  <2>1. PositionOK(grammar, states[rest], q)
    BY <1>8, <1>11, PositionsOK
  <2>2. q.from = p.from
    BY <1>8 DEF RuleOf
  <2>. QED  BY <1>4, <1>8, <1>11, <2>1, <2>2 DEF PositionOK
<1>13. next \in StateNumbers /\ grammar' = grammar
  BY <1>12 DEF Leads, StateNumbers, Actions, ReduceRule
<1>. HIDE DEF next, rest
<1>14. /\ Len(states') = rest + 1 /\ states'[rest + 1] = next
       /\ \A i \in 1..rest : states'[i] = states[i]
  BY <1>7, <1>9, <1>10, <1>13 DEF next
<1>. HIDE DEF n
<1>15. Path'
  <2>1. SUFFICES ASSUME NEW i \in 1..rest
                 PROVE  \/ states'[i + 1] = 0
                        \/ \E x \in Symbols(grammar) :
                             Leads(grammar, states'[i], x, states'[i + 1])
    BY <1>2, <1>7, <1>13, <1>14 DEF Path
  <2>2. CASE i = rest
    BY <1>6, <1>7, <1>12, <1>14, <2>2
  <2>3. CASE i # rest
    <3>1. i \in 1..(n - 1) /\ i + 1 \in 1..rest
      BY <1>2, <1>7, <2>3
    <3>. QED  BY <1>14, <3>1 DEF Based, Path, n
  <2>. QED  BY <2>2, <2>3
<1>16. states' # <<>> /\ states'[1] = 0
  BY <1>7, <1>14 DEF Based
<1>17. nodes' = IF errors # {} THEN nodes
                ELSE Append(SubSeq(nodes, 1, Len(nodes) - Len(p.to)),
                            Merged(p.from, SubSeq(nodes, Len(nodes) - Len(p.to) + 1, Len(nodes))))
  BY <1>1, <1>4
<1>18. Reduced(p, rest)
  BY <1>4, <1>5, <1>6, <1>7, <1>12, <1>14, <1>17 DEF Reduced, rest, n
<1>. QED  BY <1>15, <1>16, <1>18 DEF Based

(* ... nothing reads below it, ...                                           *)
LEMMA NoCrash ==
  ASSUME TypeOK, Based
  PROVE  ~Crash
<1> SUFFICES ASSUME Crash PROVE FALSE
  OBVIOUS
<1>1. PICK a \in Choice("reduce") : a.count > Len(states)
  BY DEF Crash, Based
<1>2. /\ states \in Seq(StateNumbers) /\ Len(states) \in Nat
      /\ Back(states) = {states[Len(states)]} /\ states[Len(states)] \in StateNumbers
  BY BasedStack
<1>3. ActionOK(grammar, states[Len(states)], CurrentToken, a) /\ a.kind = "reduce"
  BY <1>1, <1>2, ChoiceOK
<1>4. PICK p \in Positions(grammar, states[Len(states)]) : AtEnd(p) /\ Len(p.to) = a.count
  BY <1>3 DEF ActionOK
<1>5. p.to \in Seq(Symbols(grammar)) /\ p.dot = Len(p.to) + 1 /\ Len(p.to) \in Nat
  BY <1>2, <1>4, PositionsOK DEF PositionOK, AtEnd
<1>6. p.dot - 1 < Len(states)
  BY BodyBelow
<1>. QED  BY <1>1, <1>2, <1>4, <1>5, <1>6

(* ... and going back to an older length, or filling with the first state,   *)
(* leaves a path.                                                            *)
LEMMA ResizePath ==
  ASSUME TypeOK, Based, NEW size \in Nat, size > 0, states' = Resize(states, size),
         UNCHANGED grammar
  PROVE  Based'
<1>. DEFINE n == Len(states)
<1>1. states \in Seq(StateNumbers) /\ n \in Nat /\ n >= 1 /\ 0 \in StateNumbers
  BY BasedStack, TablesAssumption DEF TablesFit, TypeOK, StateNumbers, Actions
<1>2. /\ Len(states') = size
      /\ \A i \in 1..size : states'[i] = IF i <= n THEN states[i] ELSE 0
  BY <1>1, ResizeType
<1>3. ASSUME NEW i \in 1..(size - 1)
      PROVE  \/ states'[i + 1] = 0
             \/ \E x \in Symbols(grammar) : Leads(grammar, states'[i], x, states'[i + 1])
  <2>1. CASE i + 1 <= n
    <3>1. i \in 1..(n - 1) /\ i \in 1..size /\ i + 1 \in 1..size /\ i <= n
      BY <1>1, <2>1
    <3>2. states'[i] = states[i] /\ states'[i + 1] = states[i + 1]
      BY <1>2, <2>1, <3>1
    <3>. QED  BY <3>1, <3>2 DEF Based, Path
  <2>2. CASE i + 1 > n
    <3>1. i + 1 \in 1..size /\ ~(i + 1 <= n)
      BY <1>1, <2>2
    <3>. QED  BY <1>2, <3>1
  <2>. QED  BY <1>1, <2>1, <2>2
<1>4. states' # <<>> /\ states'[1] = 0
  BY <1>1, <1>2 DEF Based
<1>. QED  BY <1>2, <1>3, <1>4 DEF Based, Path

-----------------------------------------------------------------------------
(* Recovery, as long as the tree can be trusted. *)

LEMMA RecoverableBefore ==
  ASSUME TypeOK, [Next]_vars, Recoverable'
  PROVE  Recoverable
<1>1. input' = input /\ (pos' = pos \/ pos' = NextPos)
  BY DEF Next, vars, AcceptInput, RejectToken, ShiftToken, ReduceRule, Crash, StopBefore,
         StopAfter, Skip, Terminated
<1>2. Balanced' => Balanced
  BY <1>1 DEF Balanced, BracesPair, Opened, Closed
<1>3. CurrentToken = End => CurrentToken' = End
  <2>1. input \in Seq(Tokens \ {End})
    BY InputsAssumption DEF TypeOK
  <2>2. pos \in 1..(Len(input) + 1) /\ Len(input) \in Nat
    BY <2>1 DEF TypeOK
  <2>3. SUFFICES ASSUME CurrentToken = End PROVE CurrentToken' = End
    OBVIOUS
  <2>4. ~(pos <= Len(input))
    BY <2>1, <2>2, <2>3 DEF CurrentToken
  <2>5. pos' = pos
    BY <1>1, <2>4 DEF NextPos
  <2>. QED  BY <1>1, <2>4, <2>5 DEF CurrentToken
<1>. QED  BY <1>2, <1>3 DEF Recoverable

Positive(n) == \A i \in 1..n : tree[i] > 0

(* What recovery goes back to is never empty: while tokens are skipped the   *)
(* nodes up to the prune point stay, and those above, whose counts mean      *)
(* nothing, are gone when the parser takes over.                             *)
RecoveryInv ==
  Recoverable =>
    /\ Based
    /\ phase = "parse" => Positive(Len(tree))
    /\ phase = "prune" => prunePoint \in 1..Len(tree) /\ Positive(prunePoint)
    /\ phase # "crashed"

LEMMA RecoveryInit == Init => RecoveryInv
<1> SUFFICES ASSUME Init PROVE RecoveryInv
  OBVIOUS
<1>1. states = <<0>> /\ Len(states) = 1 /\ states[1] = 0 /\ tree = <<1>>
  BY DEF Init
<1>2. Based
  BY <1>1 DEF Based, Path
<1>3. Positive(Len(tree))
  BY <1>1 DEF Positive
<1>. QED  BY <1>2, <1>3 DEF Init, RecoveryInv

(* At the end of a file whose braces pair only the root is left. *)
LEMMA RootAtEnd ==
  ASSUME TypeOK, TreeInv, ~isBroken, Balanced, CurrentToken = End
  PROVE  Len(tree) = 1
<1>1. input \in Seq(Tokens \ {End}) /\ Len(input) \in Nat
  BY InputsAssumption DEF TypeOK
<1>2. pos = Len(input) + 1
  BY <1>1 DEF CurrentToken, TypeOK
<1>3. pos - 1 = Len(input)
  BY <1>1, <1>2
<1>4. Len(tree) + Closed(input, Len(input)) = 1 + Opened(input, Len(input))
  BY <1>3 DEF TreeInv, TreeFollowsBlocks
<1>5. Opened(input, Len(input)) = Closed(input, Len(input))
  BY DEF Balanced, BracesPair
<1>6. Closed(input, Len(input)) \in Nat
  <2>1. IsFiniteSet(1..Len(input))
    BY <1>1, FS_Interval
  <2>2. {i \in 1..Len(input) : input[i] = CloseBrace} \in SUBSET (1..Len(input))
    OBVIOUS
  <2>3. IsFiniteSet({i \in 1..Len(input) : input[i] = CloseBrace})
    BY <2>1, <2>2, FS_Subset
  <2>. QED  BY <2>3, FS_CardinalityType DEF Closed
<1>7. Len(tree) \in Nat
  BY DEF TypeOK
<1>. DEFINE n == Len(tree)
            closed == Closed(input, Len(input))
            opened == Opened(input, Len(input))
<1>8. n + closed = 1 + opened /\ opened = closed /\ closed \in Nat /\ n \in Nat
  BY <1>4, <1>5, <1>6, <1>7
<1>. HIDE DEF n, closed, opened
<1>9. n = 1
  BY <1>8
<1>. QED  BY <1>9 DEF n

LEMMA RecoveryStep ==
  TypeOK /\ BrokenInv /\ TreeInv /\ NeverBroken /\ RecoveryInv /\ [Next]_vars => RecoveryInv'
<1> SUFFICES ASSUME TypeOK, BrokenInv, TreeInv, NeverBroken, RecoveryInv, [Next]_vars,
                    Recoverable'
             PROVE  RecoveryInv'
  BY DEF RecoveryInv
<1>1. grammar' = grammar
  BY DEF Next, vars, AcceptInput, RejectToken, ShiftToken, ReduceRule, Crash, StopBefore,
         StopAfter, Skip, Terminated
<1>2. Recoverable /\ ~isBroken
  BY RecoverableBefore DEF NeverBroken
<1>3. /\ Based
      /\ phase = "parse" => Positive(Len(tree))
      /\ phase = "prune" => prunePoint \in 1..Len(tree) /\ Positive(prunePoint)
      /\ phase # "crashed"
  BY <1>2 DEF RecoveryInv
<1>4. tree \in Seq(Nat) /\ Len(tree) \in Nat /\ Len(tree) # 0
  BY <1>2 DEF TypeOK, BrokenInv
<1>5. CASE AcceptInput
  BY <1>3, <1>5 DEF AcceptInput, RecoveryInv, Based, Path, Positive
<1>6. CASE RejectToken
  <2>1. tree[Len(tree)] \in Nat /\ tree[Len(tree)] > 0
    BY <1>3, <1>4, <1>6 DEF RejectToken, Positive
  <2> DEFINE size == tree[Len(tree)]
  <2>2. states' = Resize(states, size) /\ phase' = "prune" /\ prunePoint' = Len(tree)
        /\ tree' = tree
    BY <1>2, <1>6 DEF RejectToken
  <2> HIDE DEF size
  <2>3. Based'
    BY <1>1, <1>3, <2>1, <2>2, ResizePath DEF size
  <2>4. Positive(Len(tree))
    BY <1>3, <1>6 DEF RejectToken
  <2>. QED  BY <1>4, <2>2, <2>3, <2>4 DEF RecoveryInv, Positive
<1>7. CASE ShiftToken
  <2>1. Based' /\ Len(states') = Len(states) + 1
    BY <1>3, <1>7, ShiftPath
  <2>2. Len(states') \in Nat /\ Len(states') > 0
    BY <2>1 DEF TypeOK
  <2>3. tree' = CASE CurrentToken = OpenBrace -> Append(tree, Len(states'))
                  [] CurrentToken = CloseBrace -> SubSeq(tree, 1, Len(tree) - 1)
                  [] OTHER -> tree
    BY <1>2, <1>7 DEF ShiftToken, Swallow
  <2>4. Positive(Len(tree)) /\ phase' = "parse"
    BY <1>3, <1>7 DEF ShiftToken
  <2>5. Positive(Len(tree))'
    <3>1. CASE CurrentToken = OpenBrace
      <4>1. tree' = Append(tree, Len(states'))
        BY <2>3, <3>1, InputsAssumption
      <4>. QED  BY <1>4, <2>2, <2>4, <4>1 DEF Positive
    <3>2. CASE CurrentToken = CloseBrace
      <4>1. tree' = SubSeq(tree, 1, Len(tree) - 1)
        BY <2>3, <3>2, InputsAssumption
      <4>. QED  BY <1>4, <2>4, <4>1 DEF Positive
    <3>3. CASE CurrentToken \notin {OpenBrace, CloseBrace}
      BY <2>3, <2>4, <3>3 DEF Positive
    <3>. QED  BY <3>1, <3>2, <3>3
  <2>. QED  BY <2>1, <2>4, <2>5 DEF RecoveryInv
<1>8. CASE ReduceRule
  <2>1. Based'
    BY <1>3, <1>8, ReducePath
  <2>. QED  BY <1>3, <1>8, <2>1 DEF ReduceRule, RecoveryInv, Positive
<1>9. CASE Crash
  BY <1>3, <1>9, NoCrash
<1>10. CASE StopBefore
  <2>1. /\ UNCHANGED <<states, tree, prunePoint, grammar>> /\ phase' = "parse"
        /\ phase = "prune"
    BY <1>2, <1>10 DEF StopBefore, Resume
  <2>2. Len(tree) = prunePoint
    <3>1. CASE CurrentToken = End
      <4>0. Balanced
        <5>1. UNCHANGED <<input, pos>>
          BY <1>10 DEF StopBefore
        <5>2. CurrentToken' = End
          BY <3>1, <5>1 DEF CurrentToken
        <5>3. Balanced' => Balanced
          BY <5>1 DEF Balanced, BracesPair, Opened, Closed
        <5>. QED  BY <5>2, <5>3 DEF Recoverable
      <4>1. Len(tree) = 1
        BY <1>2, <3>1, <4>0, RootAtEnd
      <4>2. prunePoint \in 1..Len(tree)
        BY <1>3, <2>1
      <4>. QED  BY <4>1, <4>2
    <3>2. CASE CurrentToken # End
      BY <1>10, <3>2 DEF StopBefore
    <3>. QED  BY <3>1, <3>2
  <2>. QED  BY <1>3, <2>1, <2>2 DEF RecoveryInv, Based, Path, Positive
<1>11. CASE StopAfter
  <2>1. /\ UNCHANGED <<states, tree, prunePoint, grammar>> /\ phase' = "parse"
        /\ phase = "prune" /\ Len(tree) = prunePoint
    BY <1>2, <1>11 DEF StopAfter, Resume
  <2>. QED  BY <1>3, <2>1 DEF RecoveryInv, Based, Path, Positive
<1>12. CASE Skip
  <2>1. /\ UNCHANGED <<states, prunePoint, grammar, phase>> /\ phase = "prune"
        /\ Len(tree) = prunePoint => CurrentToken # CloseBrace
    BY <1>12 DEF Skip
  <2>2. prunePoint \in 1..Len(tree) /\ Positive(prunePoint)
    BY <1>3, <2>1
  <2>3. tree' = CASE CurrentToken = OpenBrace -> Append(tree, 0)
                  [] CurrentToken = CloseBrace -> SubSeq(tree, 1, Len(tree) - 1)
                  [] OTHER -> tree
    BY <1>2, <1>12 DEF Skip, Swallow
  <2>4. prunePoint \in 1..Len(tree') /\ Positive(prunePoint)'
    <3>1. CASE CurrentToken = OpenBrace
      <4>1. tree' = Append(tree, 0)
        BY <2>3, <3>1, InputsAssumption
      <4>. QED  BY <1>4, <2>1, <2>2, <4>1 DEF Positive
    <3>2. CASE CurrentToken = CloseBrace
      <4>1. tree' = SubSeq(tree, 1, Len(tree) - 1)
        BY <2>3, <3>2, InputsAssumption
      <4>2. prunePoint \in 1..(Len(tree) - 1)
        BY <1>4, <2>1, <2>2, <3>2
      <4>. QED  BY <1>4, <2>1, <2>2, <4>1, <4>2 DEF Positive
    <3>3. CASE CurrentToken \notin {OpenBrace, CloseBrace}
      BY <2>1, <2>2, <2>3, <3>3 DEF Positive
    <3>. QED  BY <3>1, <3>2, <3>3
  <2>. QED  BY <1>3, <2>1, <2>4 DEF RecoveryInv, Based, Path
<1>13. CASE UNCHANGED vars
  BY <1>3, <1>13 DEF vars, RecoveryInv, Based, Path, Positive
<1>. QED  BY <1>5, <1>6, <1>7, <1>8, <1>9, <1>10, <1>11, <1>12, <1>13 DEF Next, Terminated

-----------------------------------------------------------------------------
(* The stack of nodes, before the first error. *)

Nodes(g) == [symbol : Symbols(g), begin : Nat, end : Nat]
Cut(i) == IF i = 0 THEN 0 ELSE nodes[i].end

(* Each node is what led from one state of the stack to the next. *)
NodesLead ==
  \A i \in 1..Len(nodes) : Leads(grammar, states[i], nodes[i].symbol, states[i + 1])

CoverInv ==
  /\ errors = {} =>
       /\ phase \in {"parse", "accepted", "rejected"}
       /\ Based
       /\ nodes \in Seq(Nodes(grammar))
       /\ NodesTile
       /\ NodesLead
  /\ phase = "accepted" =>
       errors = {} /\ ast = Node(StartSymbol[grammar], 0, Len(input))

LEMMA CoverInit == Init => CoverInv
<1> SUFFICES ASSUME Init PROVE CoverInv
  OBVIOUS
<1>1. states = <<0>> /\ Len(states) = 1 /\ states[1] = 0 /\ nodes = <<>>
  BY DEF Init
<1>2. Based
  BY <1>1 DEF Based, Path
<1>3. NodesTile /\ NodesLead /\ nodes \in Seq(Nodes(grammar))
  BY <1>1 DEF NodesTile, NodesLead, Init
<1>. QED  BY <1>2, <1>3 DEF Init, CoverInv

(* The cuts between the nodes. *)
LEMMA Cuts ==
  ASSUME TypeOK, nodes \in Seq(Nodes(grammar)), NodesTile
  PROVE  /\ Len(nodes) \in Nat /\ Len(states) = Len(nodes) + 1
         /\ \A i \in 0..Len(nodes) : Cut(i) \in Nat
         /\ \A i \in 1..Len(nodes) :
              nodes[i].begin = Cut(i - 1) /\ nodes[i].end = Cut(i)
         /\ Cut(Len(nodes)) = pos - 1
<1>1. Len(nodes) \in Nat /\ Len(states) = Len(nodes) + 1
  BY DEF NodesTile, TypeOK
<1>2. ASSUME NEW i \in 0..Len(nodes) PROVE Cut(i) \in Nat
  <2>1. CASE i # 0
    <3>1. i \in 1..Len(nodes)
      BY <1>1, <2>1
    <3>2. nodes[i] \in Nodes(grammar)
      BY <3>1
    <3>. QED  BY <2>1, <3>2 DEF Cut, Nodes
  <2>. QED  BY <2>1 DEF Cut
<1>3. ASSUME NEW i \in 1..Len(nodes) PROVE nodes[i].begin = Cut(i - 1) /\ nodes[i].end = Cut(i)
  BY DEF NodesTile, Cut
<1>4. Cut(Len(nodes)) = pos - 1
  BY <1>1 DEF NodesTile, Cut
<1>. QED  BY <1>1, <1>2, <1>3, <1>4

(* END is never shifted. *)
LEMMA ShiftInside ==
  ASSUME TypeOK, ShiftToken
  PROVE  pos <= Len(input) /\ CurrentToken = input[pos]
<1>1. PICK a \in Choice("shift") : TRUE
  BY DEF ShiftToken
<1>2. CurrentToken # End
  BY <1>1, ChoiceOK DEF ActionOK
<1>. QED  BY <1>2 DEF CurrentToken

(* What a reduction leaves on the stack of nodes. *)
LEMMA ReduceNodes ==
  ASSUME TypeOK, errors = {}, nodes \in Seq(Nodes(grammar)), NodesTile,
         NEW p, NEW rest, Reduced(p, rest)
  PROVE  /\ nodes' \in Seq(Nodes(grammar)) /\ Len(nodes') = rest
         /\ \A i \in 1..(rest - 1) : nodes'[i] = nodes[i]
         /\ nodes'[rest] = Node(p.from, Cut(rest - 1), pos - 1)
<1>. DEFINE n == Len(nodes)
            m == rest - 1
            kept == SubSeq(nodes, 1, m)
            parts == SubSeq(nodes, m + 1, n)
            new == Merged(p.from, parts)
<1>1. /\ n \in Nat /\ Len(states) = n + 1 /\ m \in 0..n /\ n - Len(p.to) = m
  BY Cuts DEF Reduced
<1>2. nodes' = Append(kept, new)
  <2>1. nodes' = Append(SubSeq(nodes, 1, n - Len(p.to)),
                        Merged(p.from, SubSeq(nodes, n - Len(p.to) + 1, n)))
    BY DEF Reduced
  <2>. QED  BY <1>1, <2>1
<1>. HIDE DEF m
<1>3. /\ kept \in Seq(Nodes(grammar)) /\ Len(kept) = m
      /\ \A i \in 1..m : kept[i] = nodes[i]
  BY <1>1
<1>4. /\ parts \in Seq(Nodes(grammar)) /\ Len(parts) = n - m
      /\ \A i \in 1..(n - m) : parts[i] = nodes[m + i]
  BY <1>1
<1>. HIDE DEF kept, parts, new
<1>5. new = Node(p.from, Cut(m), pos - 1)
  <2>1. CASE m = n
    <3>1. Cut(m) = pos - 1
      BY <2>1, Cuts
    <3>2. Len(parts) = 0
      BY <1>1, <1>4, <2>1
    <3>3. parts = <<>>
      BY <1>4, <3>2
    <3>. QED  BY <3>1, <3>3 DEF new, Merged
  <2>2. CASE m # n
    <3>1. /\ m + 1 \in 1..n /\ n \in 1..n /\ (m + 1) - 1 = m
          /\ Len(parts) \in 1..(n - m) /\ m + Len(parts) = n /\ 1 \in 1..(n - m)
      BY <1>1, <1>4, <2>2
    <3>2. parts[1] = nodes[m + 1] /\ parts[Len(parts)] = nodes[n]
      BY <1>4, <3>1
    <3>3. parts # <<>>
      BY <3>1
    <3>. DEFINE k == m + 1
    <3>4. nodes[k].begin = Cut(k - 1)
      BY <3>1, Cuts
    <3>5. parts[1].begin = Cut(m)
      BY <3>1, <3>2, <3>4
    <3>6. nodes[n].end = Cut(n) /\ Cut(n) = pos - 1
      BY <3>1, Cuts
    <3>. QED  BY <3>2, <3>3, <3>5, <3>6 DEF new, Merged
  <2>. QED  BY <2>1, <2>2
<1>6. new \in Nodes(grammar)
  <2>1. Cut(m) \in Nat /\ pos - 1 \in Nat
    BY <1>1, Cuts DEF TypeOK
  <2>2. p.from \in Symbols(grammar)
    BY DEF Reduced
  <2>. QED  BY <1>5, <2>1, <2>2 DEF Node, Nodes
<1>7. /\ nodes' \in Seq(Nodes(grammar)) /\ Len(nodes') = m + 1
      /\ \A i \in 1..m : nodes'[i] = nodes[i]
      /\ nodes'[m + 1] = new
  BY <1>1, <1>2, <1>3, <1>6
<1>8. rest = m + 1 /\ rest - 1 = m
  BY <1>1 DEF m, Reduced
<1>. QED  BY <1>5, <1>7, <1>8

(* After a step of the parser the nodes tile the tokens again, when all but  *)
(* the last are old ones and the last begins where they end.                 *)
LEMMA TileAgain ==
  ASSUME TypeOK, NodesTile, nodes \in Seq(Nodes(grammar)), NEW m \in 0..Len(nodes),
         NEW new, nodes' \in Seq(Nodes(grammar)), Len(nodes') = m + 1,
         \A i \in 1..m : nodes'[i] = nodes[i], nodes'[m + 1] = new,
         new.begin = Cut(m), new.end = pos' - 1, Len(states') = m + 2
  PROVE  NodesTile'
<1>1. m \in Nat
  BY Cuts
<1>2. ASSUME NEW i \in 1..(m + 1)
      PROVE  nodes'[i].begin = IF i = 1 THEN 0 ELSE nodes'[i - 1].end
  <2>1. CASE i = m + 1
    <3>1. (i = 1 <=> m = 0) /\ (i # 1 => m \in 1..m /\ i - 1 = m)
      BY <1>1, <2>1
    <3>2. nodes'[i].begin = Cut(m)
      BY <2>1
    <3>3. i # 1 => nodes'[i - 1] = nodes[m]
      BY <3>1
    <3>. QED  BY <3>1, <3>2, <3>3 DEF Cut
  <2>2. CASE i # m + 1
    <3>1. i \in 1..m /\ i \in 1..Len(nodes) /\ (i # 1 => i - 1 \in 1..m)
      BY <1>1, <2>2, Cuts
    <3>2. nodes'[i] = nodes[i] /\ (i # 1 => nodes'[i - 1] = nodes[i - 1])
      BY <3>1
    <3>. QED  BY <3>1, <3>2 DEF NodesTile
  <2>. QED  BY <2>1, <2>2
<1>3. nodes' # <<>> /\ nodes'[Len(nodes')].end = pos' - 1
  BY <1>1
<1>4. Len(nodes') + 1 = Len(states')
  BY <1>1
<1>. QED  BY <1>2, <1>3, <1>4 DEF NodesTile

LEMMA LeadAgain ==
  ASSUME TypeOK, NodesTile, NodesLead, nodes \in Seq(Nodes(grammar)), NEW m \in 0..Len(nodes),
         NEW new, Len(nodes') = m + 1, UNCHANGED grammar,
         \A i \in 1..m : nodes'[i] = nodes[i], nodes'[m + 1] = new,
         \A i \in 1..(m + 1) : states'[i] = states[i],
         Leads(grammar, states[m + 1], new.symbol, states'[m + 2])
  PROVE  NodesLead'
<1>1. m \in Nat /\ Len(nodes) \in Nat
  BY Cuts
<1>2. ASSUME NEW i \in 1..(m + 1)
      PROVE  Leads(grammar, states'[i], nodes'[i].symbol, states'[i + 1])
  <2>1. CASE i = m + 1
    <3>1. i + 1 = m + 2
      BY <1>1, <2>1
    <3>. QED  BY <2>1, <3>1
  <2>2. CASE i # m + 1
    <3>1. i \in 1..m /\ i \in 1..Len(nodes) /\ i + 1 \in 1..(m + 1)
      BY <1>1, <2>2
    <3>. QED  BY <3>1 DEF NodesLead
  <2>. QED  BY <2>1, <2>2
<1>. QED  BY <1>2 DEF NodesLead

(* Where the tables accept there is one node left, of the start symbol: the  *)
(* rule of the acceptance was begun in the first state of the stack.         *)
LEMMA AcceptNode ==
  ASSUME TypeOK, Based, nodes \in Seq(Nodes(grammar)), NodesTile, NodesLead,
         Choice("accept") # {}
  PROVE  nodes[1] = Node(StartSymbol[grammar], 0, Len(input))
<1>. DEFINE n == Len(states)
<1>1. /\ states \in Seq(StateNumbers) /\ n \in Nat /\ n >= 1
      /\ Back(states) = {states[n]} /\ states[n] \in StateNumbers
  BY BasedStack
<1>2. PICK a \in Choice("accept") : ActionOK(grammar, states[n], CurrentToken, a) /\ a.kind = "accept"
  BY <1>1, ChoiceOK
<1>3. PICK p \in Positions(grammar, states[n]) :
        /\ AtEnd(p) /\ p.to = <<StartSymbol[grammar]>>
        /\ \A s \in StateNumbers : At(p, 1) \in Positions(grammar, s) => s = 0
  BY <1>2 DEF ActionOK, StateNumbers, Actions
<1>4. p.dot = 2 /\ Len(p.to) = 1 /\ p.to[1] = StartSymbol[grammar]
  BY <1>3 DEF AtEnd
<1>5. n > 1
  <2>1. p.dot - 1 < n
    BY BodyBelow
  <2>. QED  BY <1>1, <1>4, <2>1
<1>6. n - 1 \in 1..Len(nodes) /\ Len(nodes) = n - 1 /\ (n - 1) + 1 = n /\ Len(nodes) \in Nat
  BY <1>1, <1>5, Cuts
<1>7. Leads(grammar, states[n - 1], nodes[n - 1].symbol, states[n])
  BY <1>6 DEF NodesLead
<1>8. p.to[1] = nodes[n - 1].symbol /\ At(p, 1) \in Positions(grammar, states[n - 1])
  <2>1. p.dot - 1 = 1 /\ p.dot > 1
    BY <1>4
  <2>. QED  BY <1>7, <2>1 DEF Leads
<1>9. states[n - 1] = 0
  <2>1. states[n - 1] \in StateNumbers
    BY <1>1, <1>5
  <2>. QED  BY <1>3, <1>8, <2>1
<1>10. n - 1 = 1
  <2>1. SUFFICES ASSUME n - 1 # 1 PROVE FALSE
    OBVIOUS
  <2>2. n - 2 \in 1..Len(nodes) /\ (n - 2) + 1 = n - 1
    BY <1>1, <1>5, <1>6, <2>1
  <2>3. Leads(grammar, states[n - 2], nodes[n - 2].symbol, states[n - 1])
    BY <2>2 DEF NodesLead
  <2>4. PICK q \in Positions(grammar, states[n - 1]) : q.dot > 1
    BY <2>3 DEF Leads
  <2>5. 0 \in StateNumbers
    BY TablesAssumption DEF TablesFit, TypeOK, StateNumbers, Actions
  <2>6. PositionOK(grammar, 0, q)
    BY <1>9, <2>4, <2>5, PositionsOK
  <2>. QED  BY <2>4, <2>6 DEF PositionOK
<1>11. CurrentToken = End
  BY <1>2 DEF ActionOK
<1>12. pos = Len(input) + 1
  <2>1. input \in Seq(Tokens \ {End}) /\ Len(input) \in Nat
    BY InputsAssumption DEF TypeOK
  <2>. QED  BY <1>11, <2>1 DEF CurrentToken, TypeOK
<1>13. Len(input) \in Nat /\ pos - 1 = Len(input)
  <2>1. input \in Seq(Tokens \ {End})
    BY InputsAssumption DEF TypeOK
  <2>. QED  BY <1>12, <2>1
<1>14. nodes[1].begin = 0 /\ nodes[1].end = Len(input)
  <2>1. Len(nodes) = 1 /\ 1 \in 1..Len(nodes)
    BY <1>6, <1>10
  <2>2. nodes[1].begin = Cut(1 - 1) /\ nodes[1].end = Cut(1) /\ Cut(1) = pos - 1
    BY <2>1, Cuts
  <2>. QED  BY <1>13, <2>2 DEF Cut
<1>15. nodes[1].symbol = StartSymbol[grammar]
  BY <1>4, <1>8, <1>10
<1>16. nodes[1] \in Nodes(grammar)
  BY <1>6, <1>10
<1>. QED  BY <1>14, <1>15, <1>16 DEF Node, Nodes

LEMMA CoverStep ==
  TypeOK /\ BrokenInv /\ CoverInv /\ [Next]_vars => CoverInv'
<1> SUFFICES ASSUME TypeOK, BrokenInv, CoverInv, [Next]_vars PROVE CoverInv'
  OBVIOUS
<1>1. CASE phase \in {"accepted", "rejected"}
  <2>1. UNCHANGED vars
    BY <1>1 DEF Next, AcceptInput, RejectToken, ShiftToken, ReduceRule, Crash, StopBefore,
                StopAfter, Skip, Terminated
  <2>. QED  BY <2>1 DEF vars, CoverInv, Based, Path, NodesTile, NodesLead
<1>2. CASE errors # {}
  <2>1. errors' # {}
    BY <1>2 DEF Next, vars, AcceptInput, RejectToken, ShiftToken, ReduceRule, Crash,
                StopBefore, StopAfter, Skip, Terminated
  <2>2. phase' # "accepted"
    <3>1. phase # "accepted"
      BY <1>2 DEF CoverInv
    <3>. QED  BY <1>2, <3>1 DEF Next, vars, AcceptInput, RejectToken, ShiftToken, ReduceRule,
                   Crash, StopBefore, StopAfter, Skip, Resume, Terminated
  <2>. QED  BY <2>1, <2>2 DEF CoverInv
<1>3. CASE errors = {} /\ phase = "parse"
  <2>1. /\ Based /\ nodes \in Seq(Nodes(grammar)) /\ NodesTile /\ NodesLead
        /\ Len(nodes) \in Nat /\ Len(states) = Len(nodes) + 1
    BY <1>3, Cuts DEF CoverInv
  <2>2. CASE AcceptInput
    <3>1. nodes[1] = Node(StartSymbol[grammar], 0, Len(input))
      BY <2>1, <2>2, AcceptNode DEF AcceptInput
    <3>2. /\ UNCHANGED <<grammar, input, pos, states, nodes, errors>>
          /\ phase' \in {"accepted", "rejected"} /\ ast' = nodes[1]
      BY <1>3, <2>2 DEF AcceptInput
    <3>. QED  BY <1>3, <2>1, <3>1, <3>2 DEF CoverInv, Based, Path, NodesTile, NodesLead
  <2>3. CASE RejectToken
    <3>1. errors' # {} /\ phase' # "accepted"
      BY <2>3 DEF RejectToken
    <3>. QED  BY <3>1 DEF CoverInv
  <2>4. CASE ShiftToken
    <3>1. /\ Based' /\ Len(states') = Len(states) + 1
          /\ \A i \in 1..Len(states) : states'[i] = states[i]
          /\ Leads(grammar, states[Len(states)], CurrentToken, states'[Len(states) + 1])
      BY <2>1, <2>4, ShiftPath
    <3>2. /\ nodes' = Append(nodes, Node(CurrentToken, pos - 1, pos)) /\ pos' = NextPos
          /\ grammar' = grammar /\ phase' = phase /\ errors' = errors
      BY <1>3, <2>4 DEF ShiftToken
    <3>3. pos \in Nat /\ pos > 0 /\ pos' = pos + 1
      BY <2>4, <3>2, ShiftInside DEF TypeOK, NextPos
    <3>. DEFINE new == Node(CurrentToken, pos - 1, pos)
    <3>4. /\ new \in Nodes(grammar) /\ new.begin = pos - 1 /\ new.end = pos
          /\ new.symbol = CurrentToken
      BY <3>3, CurrentTokenType DEF Node, Nodes, Symbols
    <3>. HIDE DEF new
    <3>5. /\ nodes' \in Seq(Nodes(grammar)) /\ Len(nodes') = Len(nodes) + 1
          /\ \A i \in 1..Len(nodes) : nodes'[i] = nodes[i]
          /\ nodes'[Len(nodes) + 1] = new
      BY <2>1, <3>2, <3>4 DEF new
    <3>6. new.begin = Cut(Len(nodes)) /\ new.end = pos' - 1 /\ Len(nodes) \in 0..Len(nodes)
      BY <2>1, <3>3, <3>4, Cuts
    <3>7. NodesTile'
      BY <2>1, <3>1, <3>5, <3>6, TileAgain
    <3>8. NodesLead'
      <4>1. Len(states) = Len(nodes) + 1 /\ Len(states) + 1 = Len(nodes) + 2
        BY <2>1
      <4>. QED  BY <2>1, <3>1, <3>2, <3>4, <3>5, <3>6, <4>1, LeadAgain
    <3>. QED  BY <1>3, <3>1, <3>2, <3>5, <3>7, <3>8 DEF CoverInv
  <2>5. CASE ReduceRule
    <3>1. Based'
      BY <2>1, <2>5, ReducePath
    <3>2. PICK p, rest : Reduced(p, rest)
      BY <2>1, <2>5, ReducePath
    <3>3. UNCHANGED <<grammar, input, pos, phase, errors>>
      BY <2>5 DEF ReduceRule
    <3>. DEFINE m == rest - 1
                new == Node(p.from, Cut(m), pos - 1)
    <3>4. /\ m \in 0..Len(nodes) /\ rest = m + 1 /\ m \in Nat
      <4>1. rest \in 1..Len(states)
        BY <3>2 DEF Reduced
      <4>. QED  BY <2>1, <4>1
    <3>5. /\ nodes' \in Seq(Nodes(grammar)) /\ Len(nodes') = rest
          /\ \A i \in 1..m : nodes'[i] = nodes[i]
          /\ nodes'[rest] = new
      BY <1>3, <2>1, <3>2, ReduceNodes
    <3>6. new.begin = Cut(m) /\ new.end = pos' - 1 /\ new.symbol = p.from
      BY <3>3 DEF Node
    <3>7. /\ Len(states') = m + 2 /\ \A i \in 1..(m + 1) : states'[i] = states[i]
          /\ Leads(grammar, states[m + 1], new.symbol, states'[m + 2])
      <4>1. /\ Len(states') = rest + 1 /\ \A i \in 1..rest : states'[i] = states[i]
            /\ Leads(grammar, states[rest], p.from, states'[rest + 1])
        BY <3>2 DEF Reduced
      <4>2. rest + 1 = m + 2
        BY <3>4
      <4>. HIDE DEF m
      <4>3. m + 1 = rest
        BY <3>4
      <4>. QED  BY <3>6, <4>1, <4>2, <4>3
    <3>. HIDE DEF new, m
    <3>8. NodesTile'
      BY <2>1, <3>4, <3>5, <3>6, <3>7, TileAgain
    <3>9. NodesLead'
      BY <2>1, <3>3, <3>4, <3>5, <3>6, <3>7, LeadAgain
    <3>. QED  BY <1>3, <3>1, <3>3, <3>5, <3>8, <3>9 DEF CoverInv
  <2>6. CASE Crash
    BY <2>1, <2>6, NoCrash
  <2>7. CASE StopBefore \/ StopAfter \/ Skip
    BY <1>3, <2>7 DEF StopBefore, StopAfter, Skip
  <2>8. CASE UNCHANGED vars
    BY <1>3, <2>1, <2>8 DEF vars, CoverInv, Based, Path, NodesTile, NodesLead
  <2>. QED  BY <2>2, <2>3, <2>4, <2>5, <2>6, <2>7, <2>8 DEF Next, Terminated
<1>4. errors = {} => phase \in {"parse", "accepted", "rejected"}
  BY DEF CoverInv
<1>. QED  BY <1>1, <1>2, <1>3, <1>4

LEMMA CoverKept == Spec => [](TypeOK /\ BrokenInv /\ CoverInv)
<1>1. Init => TypeOK /\ BrokenInv /\ CoverInv
  BY TypeInit, CoverInit
<1>2. TypeOK /\ BrokenInv /\ CoverInv /\ [Next]_vars => (TypeOK /\ BrokenInv /\ CoverInv)'
  BY TypeStep, CoverStep
<1>. QED  BY <1>1, <1>2, PTL DEF Spec

(* Until the first error the nodes cover what was read, without gap or       *)
(* overlap: every source range in a tree is the range of the tokens below    *)
(* it; and the tree that parse() leaves is the start symbol over the whole   *)
(* file, so the cast of the remaining node to ProgramNode succeeds           *)
(* (LRParser::parse).                                                        *)
THEOREM NodesCover == Spec => []NodesCoverInput
<1>1. CoverInv => NodesCoverInput
  BY DEF CoverInv, NodesCoverInput
<1>. QED  BY <1>1, CoverKept, PTL

(* A file without an error ends as accepted or rejected by a builder of the  *)
(* tree, never in a crash and never in recovery.                             *)
THEOREM FaultlessNeverCrashes ==
  Spec => [](errors = {} => phase \in {"parse", "accepted", "rejected"})
<1>1. CoverInv => (errors = {} => phase \in {"parse", "accepted", "rejected"})
  BY DEF CoverInv
<1>. QED  BY <1>1, CoverKept, PTL

-----------------------------------------------------------------------------
(* What is accepted is derived by the grammar.                               *)

(* A set of triples <<symbol, begin, end>> that has every token of the file  *)
(* and, with parts that follow each other as the body of a rule, what the    *)
(* rule derives.  A symbol derives a range when every such set says so.      *)
ClosedUnderRules(g, tokens, D) ==
  /\ \A i \in 1..Len(tokens) : <<tokens[i], i - 1, i>> \in D
  /\ \A r \in Rules[g] : \A cuts \in [0..Len(r.to) -> Nat] :
       (\A k \in 1..Len(r.to) : <<r.to[k], cuts[k - 1], cuts[k]>> \in D)
         => <<r.from, cuts[0], cuts[Len(r.to)]>> \in D
Derives(g, tokens, symbol, begin, end) ==
  \A D : ClosedUnderRules(g, tokens, D) => <<symbol, begin, end>> \in D

NodesDerived ==
  errors = {} =>
    \A i \in 1..Len(nodes) :
      Derives(grammar, input, nodes[i].symbol, nodes[i].begin, nodes[i].end)

(* The nodes of a reduction are, symbol by symbol, the body of the rule. *)
LEMMA BodyNodes ==
  ASSUME TypeOK, Based, nodes \in Seq(Nodes(grammar)), NodesTile, NodesLead,
         NEW p, NEW rest, Reduced(p, rest)
  PROVE  \A k \in 1..Len(p.to) :
           /\ (rest - 1) + k \in 1..Len(nodes)
           /\ nodes[(rest - 1) + k].symbol = p.to[k]
<1>1. /\ p \in Positions(grammar, states[Len(states)])
      /\ p.to \in Seq(Symbols(grammar)) /\ p.dot = Len(p.to) + 1
      /\ rest \in 1..Len(states) /\ rest = Len(states) - Len(p.to)
  BY DEF Reduced
<1>. SUFFICES ASSUME NEW k \in 1..Len(p.to)
              PROVE  /\ (rest - 1) + k \in 1..Len(nodes)
                     /\ nodes[(rest - 1) + k].symbol = p.to[k]
  OBVIOUS
<1>. DEFINE n == Len(states)
            j == Len(p.to) - k
            i == (rest - 1) + k
<1>2. Len(nodes) \in Nat /\ n = Len(nodes) + 1 /\ Len(p.to) \in Nat
  BY <1>1, Cuts
<1>3. /\ j \in 0..(p.dot - 1) /\ p.dot - j = k + 1 /\ n - j = i + 1
      /\ i \in 1..Len(nodes)
  <2>. DEFINE len == Len(p.to)
  <2>1. len \in Nat /\ p.dot = len + 1 /\ k \in 1..len /\ rest \in 1..n /\ rest = n - len
    BY <1>1, <1>2
  <2>2. j = len - k
    OBVIOUS
  <2>. HIDE DEF len, n, j
  <2>3. j \in 0..len /\ len + 1 - j = k + 1 /\ n - j = rest + k
    BY <1>2, <2>1, <2>2
  <2>4. i + 1 = rest + k /\ i \in 1..Len(nodes)
    BY <1>2, <2>1
  <2>5. p.dot - 1 = len
    BY <2>1
  <2>. QED  BY <2>1, <2>3, <2>4, <2>5
<1>4. PICK q \in Positions(grammar, states[n - j]) : RuleOf(q) = RuleOf(p) /\ q.dot = p.dot - j
  BY <1>1, <1>3, BodyBelow
<1>. HIDE DEF n, j, i
<1>5. Leads(grammar, states[i], nodes[i].symbol, states[i + 1])
  BY <1>3 DEF NodesLead
<1>6. q \in Positions(grammar, states[i + 1]) /\ q.dot > 1 /\ q.dot - 1 = k
  BY <1>3, <1>4
<1>7. q.to[k] = nodes[i].symbol
  BY <1>5, <1>6 DEF Leads
<1>8. q.to = p.to
  BY <1>4 DEF RuleOf
<1>. QED  BY <1>3, <1>7, <1>8 DEF i

LEMMA DerivedStep ==
  TypeOK /\ BrokenInv /\ CoverInv /\ NodesDerived /\ [Next]_vars => NodesDerived'
<1> SUFFICES ASSUME TypeOK, BrokenInv, CoverInv, NodesDerived, [Next]_vars, errors' = {}
             PROVE  NodesDerived'
  BY DEF NodesDerived
<1>1. errors = {} /\ ~RejectToken /\ grammar' = grammar /\ input' = input
  BY DEF Next, vars, AcceptInput, RejectToken, ShiftToken, ReduceRule, Crash, StopBefore,
         StopAfter, Skip, Terminated
<1>2. \A i \in 1..Len(nodes) :
        Derives(grammar, input, nodes[i].symbol, nodes[i].begin, nodes[i].end)
  BY <1>1 DEF NodesDerived
<1>3. /\ Based /\ nodes \in Seq(Nodes(grammar)) /\ NodesTile /\ NodesLead
      /\ Len(nodes) \in Nat
  BY <1>1, Cuts DEF CoverInv
<1>4. CASE ShiftToken
  <2>. DEFINE new == Node(CurrentToken, pos - 1, pos)
  <2>1. nodes' = Append(nodes, new)
    BY <1>1, <1>4 DEF ShiftToken
  <2>2. pos \in 1..Len(input) /\ CurrentToken = input[pos]
    BY <1>4, ShiftInside DEF TypeOK
  <2>3. Derives(grammar, input, new.symbol, new.begin, new.end)
    BY <2>2 DEF Node, Derives, ClosedUnderRules
  <2>4. new \in Nodes(grammar)
    BY <2>2, CurrentTokenType DEF Node, Nodes, Symbols
  <2>. HIDE DEF new
  <2>5. /\ Len(nodes') = Len(nodes) + 1 /\ nodes'[Len(nodes) + 1] = new
        /\ \A i \in 1..Len(nodes) : nodes'[i] = nodes[i]
    BY <1>3, <2>1, <2>4
  <2>6. ASSUME NEW i \in 1..(Len(nodes) + 1)
        PROVE  Derives(grammar, input, nodes'[i].symbol, nodes'[i].begin, nodes'[i].end)
    <3>1. CASE i = Len(nodes) + 1
      BY <2>3, <2>5, <3>1
    <3>2. CASE i # Len(nodes) + 1
      <4>1. i \in 1..Len(nodes)
        BY <1>3, <3>2
      <4>. QED  BY <1>2, <2>5, <4>1
    <3>. QED  BY <3>1, <3>2
  <2>. QED  BY <1>1, <2>5, <2>6 DEF NodesDerived
<1>5. CASE ReduceRule
  <2>1. PICK p, rest : Reduced(p, rest)
    BY <1>3, <1>5, ReducePath
  <2>. DEFINE m == rest - 1
              len == Len(p.to)
              new == Node(p.from, Cut(m), pos - 1)
              cuts == [k \in 0..len |-> Cut(m + k)]
  <2>2. /\ RuleOf(p) \in Rules[grammar] /\ p.to \in Seq(Symbols(grammar))
        /\ rest \in 1..Len(states) /\ rest = Len(states) - len
    BY <2>1 DEF Reduced
  <2>3. /\ len \in Nat /\ m \in 0..Len(nodes) /\ m + len = Len(nodes)
    BY <1>3, <2>2, Cuts
  <2>4. \A k \in 1..len : m + k \in 1..Len(nodes) /\ nodes[m + k].symbol = p.to[k]
    BY <1>3, <2>1, BodyNodes
  <2>5. /\ Len(nodes') = rest /\ nodes'[rest] = new
        /\ \A i \in 1..m : nodes'[i] = nodes[i]
    BY <1>1, <1>3, <2>1, ReduceNodes
  <2>. HIDE DEF m, len
  <2>6. cuts \in [0..len -> Nat] /\ cuts[0] = Cut(m) /\ cuts[len] = pos - 1
    <3>1. \A k \in 0..len : m + k \in 0..Len(nodes)
      BY <1>3, <2>3
    <3>2. \A k \in 0..len : Cut(m + k) \in Nat
      BY <1>3, <3>1, Cuts
    <3>3. 0 \in 0..len /\ len \in 0..len /\ m + 0 = m
      BY <2>3
    <3>4. Cut(m + len) = pos - 1
      BY <1>3, <2>3, Cuts
    <3>. QED  BY <3>2, <3>3, <3>4
  <2>7. ASSUME NEW D, ClosedUnderRules(grammar, input, D)
        PROVE  <<p.from, Cut(m), pos - 1>> \in D
    <3>1. ASSUME NEW k \in 1..len
          PROVE  <<p.to[k], cuts[k - 1], cuts[k]>> \in D
      <4>. DEFINE i == m + k
      <4>1. /\ i \in 1..Len(nodes) /\ nodes[i].symbol = p.to[k]
            /\ k - 1 \in 0..len /\ k \in 0..len /\ m + (k - 1) = i - 1
        BY <1>3, <2>3, <2>4
      <4>. HIDE DEF i
      <4>2. nodes[i].begin = Cut(i - 1) /\ nodes[i].end = Cut(i)
        BY <1>3, <4>1, Cuts
      <4>3. cuts[k - 1] = Cut(i - 1) /\ cuts[k] = Cut(i)
        BY <4>1 DEF i
      <4>4. <<nodes[i].symbol, nodes[i].begin, nodes[i].end>> \in D
        BY <1>2, <2>7, <4>1 DEF Derives
      <4>. QED  BY <4>1, <4>2, <4>3, <4>4
    <3>. DEFINE r == RuleOf(p)
    <3>2. r \in Rules[grammar] /\ r.to = p.to /\ r.from = p.from
      BY <2>2 DEF RuleOf
    <3>. HIDE DEF r, cuts
    <3>3. \A c \in [0..Len(r.to) -> Nat] :
            (\A k \in 1..Len(r.to) : <<r.to[k], c[k - 1], c[k]>> \in D)
              => <<r.from, c[0], c[Len(r.to)]>> \in D
      BY <2>7, <3>2 DEF ClosedUnderRules
    <3>4. Len(r.to) = len
      BY <3>2 DEF len
    <3>5. <<r.from, cuts[0], cuts[len]>> \in D
      BY <2>6, <3>1, <3>2, <3>3, <3>4
    <3>. QED  BY <2>6, <3>2, <3>5
  <2>8. Derives(grammar, input, new.symbol, new.begin, new.end)
    BY <2>7 DEF Derives, Node
  <2>. HIDE DEF new
  <2>9. ASSUME NEW i \in 1..rest
        PROVE  Derives(grammar, input, nodes'[i].symbol, nodes'[i].begin, nodes'[i].end)
    <3>1. CASE i = rest
      BY <2>5, <2>8, <3>1
    <3>2. CASE i # rest
      <4>1. i \in 1..m /\ i \in 1..Len(nodes)
        BY <1>3, <2>2, <2>3, <3>2 DEF m
      <4>. QED  BY <1>2, <2>5, <4>1
    <3>. QED  BY <3>1, <3>2
  <2>. QED  BY <1>1, <2>5, <2>9 DEF NodesDerived
<1>6. CASE AcceptInput \/ Crash \/ StopBefore \/ StopAfter \/ Skip \/ UNCHANGED vars
  <2>1. nodes' = nodes
    BY <1>6 DEF AcceptInput, Crash, StopBefore, StopAfter, Skip, vars
  <2>. QED  BY <1>1, <1>2, <2>1 DEF NodesDerived
<1>. QED  BY <1>1, <1>4, <1>5, <1>6 DEF Next, Terminated

(* What has been accepted is derived. *)
AcceptedInv ==
  phase = "accepted" => Derives(grammar, input, StartSymbol[grammar], 0, Len(input))

LEMMA AcceptedStep ==
  TypeOK /\ CoverInv /\ NodesDerived /\ AcceptedInv /\ [Next]_vars => AcceptedInv'
<1> SUFFICES ASSUME TypeOK, CoverInv, NodesDerived, AcceptedInv, [Next]_vars,
                    phase' = "accepted"
             PROVE  AcceptedInv'
  BY DEF AcceptedInv
<1>1. grammar' = grammar /\ input' = input
  BY DEF Next, vars, AcceptInput, RejectToken, ShiftToken, ReduceRule, Crash, StopBefore,
         StopAfter, Skip, Terminated
<1>2. CASE phase = "accepted"
  BY <1>1, <1>2 DEF AcceptedInv
<1>3. CASE phase # "accepted"
  <2>1. AcceptInput /\ errors = {}
    BY <1>3 DEF Next, vars, AcceptInput, RejectToken, ShiftToken, ReduceRule, Crash,
                StopBefore, StopAfter, Skip, Resume, Terminated
  <2>2. /\ Based /\ nodes \in Seq(Nodes(grammar)) /\ NodesTile /\ NodesLead
        /\ Choice("accept") # {}
    BY <2>1 DEF CoverInv, AcceptInput
  <2>3. nodes[1] = Node(StartSymbol[grammar], 0, Len(input))
    BY <2>2, AcceptNode
  <2>4. 1 \in 1..Len(nodes)
    <3>1. Len(nodes) \in Nat /\ Len(states) = Len(nodes) + 1
      BY <2>2, Cuts
    <3>2. Len(states) > 1
      <4>1. PICK a \in Choice("accept") : ActionOK(grammar, states[Len(states)], CurrentToken, a) /\ a.kind = "accept"
        BY <2>2, ChoiceOK, BasedStack
      <4>2. PICK p \in Positions(grammar, states[Len(states)]) :
              AtEnd(p) /\ p.to = <<StartSymbol[grammar]>>
        BY <4>1 DEF ActionOK
      <4>3. p.dot = 2
        BY <4>2 DEF AtEnd
      <4>4. p.dot - 1 < Len(states)
        BY <2>2, BodyBelow
      <4>. QED  BY <3>1, <4>3, <4>4
    <3>. QED  BY <3>1, <3>2
  <2>5. Derives(grammar, input, nodes[1].symbol, nodes[1].begin, nodes[1].end)
    BY <2>1, <2>4 DEF NodesDerived
  <2>. QED  BY <1>1, <2>3, <2>5 DEF AcceptedInv, Node
<1>. QED  BY <1>2, <1>3

(* The parser is sound: the file it accepts is derived from the start symbol *)
(* by the rules of the grammar, whichever tables meet the assumption.        *)
THEOREM AcceptedDerived ==
  Spec => [](phase = "accepted" =>
               Derives(grammar, input, StartSymbol[grammar], 0, Len(input)))
<1>1. Init => TypeOK /\ BrokenInv /\ CoverInv /\ NodesDerived /\ AcceptedInv
  <2>1. Init => nodes = <<>> /\ phase = "parse"
    BY DEF Init
  <2>2. nodes = <<>> => NodesDerived
    BY DEF NodesDerived
  <2>3. phase = "parse" => AcceptedInv
    BY DEF AcceptedInv
  <2>. QED  BY <2>1, <2>2, <2>3, TypeInit, CoverInit
<1>2. TypeOK /\ BrokenInv /\ CoverInv /\ NodesDerived /\ AcceptedInv /\ [Next]_vars
        => (TypeOK /\ BrokenInv /\ CoverInv /\ NodesDerived /\ AcceptedInv)'
  BY TypeStep, CoverStep, DerivedStep, AcceptedStep
<1>3. TypeOK /\ BrokenInv /\ CoverInv /\ NodesDerived /\ AcceptedInv
        => (phase = "accepted" => Derives(grammar, input, StartSymbol[grammar], 0, Len(input)))
  BY DEF AcceptedInv
<1>. QED  BY <1>1, <1>2, <1>3, PTL DEF Spec
=============================================================================
