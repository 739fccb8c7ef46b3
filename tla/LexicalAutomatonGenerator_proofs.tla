------------------- MODULE LexicalAutomatonGenerator_proofs -------------------
(* Proofs about the lexical tables, for all characters, lexicons and automata *)
(* of tokens: what is read from a file is what was written to it, and what   *)
(* the merged automaton is.                                                  *)
EXTENDS LexicalAutomatonGenerator, FiniteSetTheorems, WellFoundedInduction, TLAPS

-----------------------------------------------------------------------------
(* Numbers, and functions defined along them. *)

Less == {p \in Nat \X Nat : p[1] < p[2]}

LEMMA LessWellFounded == IsWellFoundedOn(Less, Nat)
<1>1. IsWellFoundedOn(OpToRel(<, Nat), Nat)
  BY NatLessThanWellFounded
<1>2. Less = OpToRel(<, Nat)
  BY DEF Less, OpToRel
<1>. QED  BY <1>1, <1>2

(* A set with zero that is closed under successors has every natural number. *)
LEMMA SetInduction ==
  ASSUME NEW T, 0 \in T, \A n \in Nat : n \in T => n + 1 \in T
  PROVE  Nat \subseteq T
<1>1. SUFFICES ASSUME Nat \ T # {} PROVE FALSE
  OBVIOUS
<1>2. PICK x \in Nat \ T : \A y \in Nat \ T : ~(<<y, x>> \in Less)
  BY <1>1, LessWellFounded, WFMin
<1>3. x # 0 /\ x - 1 \in Nat
  BY <1>2
<1>4. <<x - 1, x>> \in Less
  <2>1. <<x - 1, x>> \in Nat \X Nat /\ <<x - 1, x>>[1] = x - 1 /\ <<x - 1, x>>[2] = x
    BY <1>2, <1>3
  <2>. QED  BY <2>1, <1>2, <1>3 DEF Less
<1>5. x - 1 \in T
  BY <1>2, <1>3, <1>4
<1>6. (x - 1) + 1 \in T
  BY <1>3, <1>5
<1>. QED  BY <1>2, <1>6

(* What a step leads to from its place in a row of steps. *)
Follows(f, n, step) == \A i \in Nat : i < n => f[i + 1] = step[<<i, f[i]>>]

LEMMA Agree ==
  ASSUME NEW n \in Nat, NEW f, NEW g, NEW step,
         f[0] = g[0], Follows(f, n, step), Follows(g, n, step)
  PROVE  \A i \in 0..n : f[i] = g[i]
<1> DEFINE T == {i \in Nat : i <= n => f[i] = g[i]}
<1>1. 0 \in T
  OBVIOUS
<1>2. ASSUME NEW i \in Nat, i \in T PROVE i + 1 \in T
  <2>1. CASE i < n
    <3>1. f[i] = g[i]
      BY <1>2, <2>1
    <3>2. f[i + 1] = step[<<i, f[i]>>] /\ g[i + 1] = step[<<i, g[i]>>]
      BY <2>1 DEF Follows
    <3>. QED  BY <3>1, <3>2
  <2>2. CASE ~(i < n)
    BY <2>2
  <2>. QED  BY <2>1, <2>2
<1>3. Nat \subseteq T
  <2> HIDE DEF T
  <2>. QED  BY <1>1, <1>2, SetInduction
<1>. QED  BY <1>3

Runs(X, n, first, step) == {f \in [0..n -> X] : f[0] = first /\ Follows(f, n, step)}

LEMMA RunsExist ==
  ASSUME NEW X, NEW first \in X, NEW step \in [Nat \X X -> X]
  PROVE  \A n \in Nat : Runs(X, n, first, step) # {}
<1> DEFINE T == {n \in Nat : Runs(X, n, first, step) # {}}
<1>1. 0 \in T
  <2>1. [i \in 0..0 |-> first] \in Runs(X, 0, first, step)
    BY DEF Runs, Follows
  <2>. QED  BY <2>1
<1>2. ASSUME NEW n \in Nat, n \in T PROVE n + 1 \in T
  <2>1. PICK f \in Runs(X, n, first, step) : TRUE
    BY <1>2
  <2>2. f \in [0..n -> X] /\ f[0] = first /\ Follows(f, n, step)
    BY <2>1 DEF Runs
  <2> DEFINE g == [i \in 0..(n + 1) |-> IF i <= n THEN f[i] ELSE step[<<n, f[n]>>]]
  <2>3. g \in [0..(n + 1) -> X]
    BY <2>2
  <2>4. g[0] = first
    BY <2>2
  <2>5. ASSUME NEW i \in Nat, i < n + 1 PROVE g[i + 1] = step[<<i, g[i]>>]
    <3>1. CASE i < n
      BY <2>2, <3>1 DEF Follows
    <3>2. CASE i = n
      BY <3>2
    <3>. QED  BY <2>5, <3>1, <3>2
  <2>6. g \in Runs(X, n + 1, first, step)
    <3> HIDE DEF g
    <3>. QED  BY <2>3, <2>4, <2>5 DEF Runs, Follows
  <2>. QED  BY <2>6
<1>3. Nat \subseteq T
  <2> HIDE DEF T
  <2>. QED  BY <1>1, <1>2, SetInduction
<1>. QED  BY <1>3

Iterates(f, X, first, step) ==
  f \in [Nat -> X] /\ f[0] = first /\ \A n \in Nat : f[n + 1] = step[<<n, f[n]>>]

LEMMA Iterate ==
  ASSUME NEW X, NEW first \in X, NEW step \in [Nat \X X -> X]
  PROVE  \E f : Iterates(f, X, first, step)
<1> DEFINE R(n) == CHOOSE f \in Runs(X, n, first, step) : TRUE
           F == [n \in Nat |-> R(n)[n]]
<1>1. ASSUME NEW n \in Nat
      PROVE  R(n) \in [0..n -> X] /\ R(n)[0] = first /\ Follows(R(n), n, step)
  <2>1. R(n) \in Runs(X, n, first, step)
    BY RunsExist
  <2> HIDE DEF R
  <2>. QED  BY <2>1 DEF Runs
<1> HIDE DEF R
<1>2. F \in [Nat -> X] /\ F[0] = first
  BY <1>1
<1>3. ASSUME NEW n \in Nat PROVE F[n + 1] = step[<<n, F[n]>>]
  <2>1. R(n)[0] = R(n + 1)[0] /\ Follows(R(n), n, step) /\ Follows(R(n + 1), n + 1, step)
    BY <1>1
  <2>2. Follows(R(n + 1), n, step)
    BY <2>1 DEF Follows
  <2>3. R(n)[n] = R(n + 1)[n]
    BY <2>1, <2>2, Agree
  <2>4. R(n + 1)[n + 1] = step[<<n, R(n + 1)[n]>>]
    BY <2>1 DEF Follows
  <2>. QED  BY <2>3, <2>4
<1>4. Iterates(F, X, first, step)
  <2> HIDE DEF F
  <2>. QED  BY <1>2, <1>3 DEF Iterates
<1>. QED  BY <1>4-----------------------------------------------------------------------------
(* Where the parts of a sequence end up when it is flattened. *)

IsFlattening(f, s) ==
  /\ f[0] = <<>>
  /\ \A i \in 1..Len(s) : f[i] = f[i - 1] \o s[i]

LEMMA FlatteningExists ==
  ASSUME NEW S, NEW s \in Seq(Seq(S))
  PROVE  \E f \in [0..Len(s) -> Seq(S)] : IsFlattening(f, s)
<1>0. Len(s) \in Nat /\ \A i \in 1..Len(s) : s[i] \in Seq(S)
  OBVIOUS
<1> DEFINE X == Seq(S)
           step == [p \in Nat \X X |->
                      IF p[1] + 1 \in 1..Len(s) THEN p[2] \o s[p[1] + 1] ELSE p[2]]
<1>1. step \in [Nat \X X -> X]
  <2>1. ASSUME NEW p \in Nat \X X, p[1] + 1 \in 1..Len(s)
        PROVE  p[2] \o s[p[1] + 1] \in X
    BY <2>1
  <2>. QED  BY <2>1
<1> DEFINE empty == <<>>
<1>2. empty \in X
  OBVIOUS
<1>a. PICK f : Iterates(f, X, empty, step)
  <2> HIDE DEF step, X, empty
  <2>. QED  BY <1>1, <1>2, Iterate
<1>3. f \in [Nat -> Seq(S)] /\ f[0] = <<>> /\ \A n \in Nat : f[n + 1] = step[<<n, f[n]>>]
  BY <1>a, Zenon DEF Iterates
<1>4. ASSUME NEW i \in 1..Len(s) PROVE f[i] = f[i - 1] \o s[i]
  <2>1. i - 1 \in Nat /\ (i - 1) + 1 = i /\ f[i - 1] \in Seq(S)
    BY <1>3
  <2>2. f[i] = step[<<i - 1, f[i - 1]>>]
    BY <1>3, <2>1
  <2>. QED  BY <2>1, <2>2
<1>5. [i \in 0..Len(s) |-> f[i]] \in [0..Len(s) -> Seq(S)]
  BY <1>3
<1>6. IsFlattening([i \in 0..Len(s) |-> f[i]], s)
  <2> DEFINE g == [i \in 0..Len(s) |-> f[i]]
  <2>1. g[0] = <<>> /\ \A i \in 1..Len(s) : g[i] = f[i] /\ g[i - 1] = f[i - 1]
    BY <1>0, <1>3
  <2>2. \A i \in 1..Len(s) : g[i] = g[i - 1] \o s[i]
    BY <1>4, <2>1
  <2> HIDE DEF g
  <2>3. IsFlattening(g, s)
    BY <2>1, <2>2 DEF IsFlattening
  <2>. QED  BY <2>3 DEF g
<1>. QED  BY <1>5, <1>6

LEMMA FlattenSeqIs ==
  ASSUME NEW S, NEW s \in Seq(Seq(S))
  PROVE  \E f \in [0..Len(s) -> Seq(S)] : IsFlattening(f, s) /\ FlattenSeq(s) = f[Len(s)]
<1>0. Len(s) \in Nat /\ \A i \in 1..Len(s) : s[i] \in Seq(S)
  OBVIOUS
<1>1. PICK f \in [0..Len(s) -> Seq(S)] : IsFlattening(f, s)
  BY FlatteningExists
<1>2. CASE Len(s) = 0
  BY <1>1, <1>2 DEF IsFlattening, FlattenSeq
<1>3. CASE Len(s) # 0
  <2> DEFINE Is(g) == g = [i \in 1..Len(s) |-> IF i = 1 THEN s[i] ELSE g[i - 1] \o s[i]]
             g == CHOOSE g : Is(g)
  <2>1. Is([i \in 1..Len(s) |-> f[i]])
    <3>1. f[0] \o s[1] = s[1]
      BY <1>1, <1>3 DEF IsFlattening
    <3>2. ASSUME NEW i \in 1..Len(s), i # 1
          PROVE  f[i] = [j \in 1..Len(s) |-> f[j]][i - 1] \o s[i]
      <4>1. i - 1 \in 1..Len(s)
        BY <1>0, <3>2
      <4>2. f[i] = f[i - 1] \o s[i]
        BY <1>1 DEF IsFlattening
      <4>. QED  BY <4>1, <4>2
    <3>3. 1 \in 1..Len(s) /\ f[1] = s[1]
      BY <1>0, <1>1, <1>3, <3>1 DEF IsFlattening
    <3>4. ASSUME NEW i \in 1..Len(s)
          PROVE  f[i] = IF i = 1 THEN s[i] ELSE [j \in 1..Len(s) |-> f[j]][i - 1] \o s[i]
      BY <3>2, <3>3
    <3>. QED  BY <3>4
  <2>2. Is(g)
    <3> HIDE DEF Is
    <3>. QED  BY <2>1, Zenon
  <2>3. FlattenSeq(s) = g[Len(s)]
    BY <1>3, Zenon DEF FlattenSeq
  <2> HIDE DEF g
  <2> DEFINE h == [i \in 0..Len(s) |-> IF i = 0 THEN <<>> ELSE g[i]]
             step == [p \in Nat \X Seq(S) |-> p[2] \o s[p[1] + 1]]
  <2>4. ASSUME NEW i \in Nat, i < Len(s) PROVE h[i + 1] = h[i] \o s[i + 1]
    <3>1. i + 1 \in 1..Len(s) /\ i \in 0..Len(s) /\ i + 1 \in 0..Len(s)
          /\ i + 1 # 0 /\ (i + 1) - 1 = i
      BY <1>0, <2>4
    <3>2. g[i + 1] = IF i + 1 = 1 THEN s[i + 1] ELSE g[i] \o s[i + 1]
      BY <2>2, <3>1
    <3>3. i = 0 => <<>> \o s[i + 1] = s[i + 1]
      BY <1>0, <3>1
    <3>4. h[i + 1] = g[i + 1] /\ h[i] = IF i = 0 THEN <<>> ELSE g[i]
      BY <3>1
    <3>. QED  BY <3>2, <3>3, <3>4
  <2>h. h[0] = <<>> /\ h[Len(s)] = g[Len(s)]
    BY <1>0, <1>3
  <2> HIDE DEF h
  <2>5. \A i \in 0..Len(s) : h[i] = f[i]
    <3> DEFINE T == {i \in Nat : i <= Len(s) => h[i] = f[i]}
    <3>1. 0 \in T
      BY <1>1, <2>h DEF IsFlattening
    <3>2. ASSUME NEW i \in Nat, i \in T PROVE i + 1 \in T
      <4>1. CASE i < Len(s)
        <5>1. i + 1 \in 1..Len(s) /\ (i + 1) - 1 = i
          BY <1>0, <4>1
        <5>2. f[i + 1] = f[i] \o s[i + 1]
          BY <1>1, <5>1 DEF IsFlattening
        <5>3. h[i] = f[i]
          BY <3>2, <4>1
        <5>4. h[i + 1] = h[i] \o s[i + 1]
          BY <2>4, <4>1
        <5>5. h[i + 1] = f[i + 1]
          BY <5>2, <5>3, <5>4, Zenon
        <5>. QED  BY <5>5
      <4>2. CASE ~(i < Len(s))
        BY <4>2
      <4>. QED  BY <4>1, <4>2
    <3>3. Nat \subseteq T
      <4> HIDE DEF T
      <4>. QED  BY <3>1, <3>2, SetInduction
    <3>. QED  BY <1>0, <3>3
  <2>6. FlattenSeq(s) = f[Len(s)]
    BY <1>0, <2>3, <2>h, <2>5
  <2>. QED  BY <1>1, <2>6
<1>. QED  BY <1>2, <1>3

(* Each part of what is flattened has its place. *)
Layout(pos, s, all) ==
  /\ pos \in [0..Len(s) -> Nat] /\ pos[0] = 0
  /\ Len(all) = pos[Len(s)]
  /\ \A i \in 1..Len(s) :
       /\ pos[i] = pos[i - 1] + Len(s[i])
       /\ pos[i] <= pos[Len(s)]
       /\ \A j \in 1..Len(s[i]) : all[pos[i - 1] + j] = s[i][j]

LEMMA FlattenLayout ==
  ASSUME NEW S, NEW s \in Seq(Seq(S))
  PROVE  FlattenSeq(s) \in Seq(S) /\ \E pos : Layout(pos, s, FlattenSeq(s))
<1>1. PICK f \in [0..Len(s) -> Seq(S)] : IsFlattening(f, s) /\ FlattenSeq(s) = f[Len(s)]
  BY FlattenSeqIs
<1> DEFINE n == Len(s)
           pos == [i \in 0..n |-> Len(f[i])]
<1>2. /\ n \in Nat
      /\ \A i \in 0..n : f[i] \in Seq(S) /\ Len(f[i]) \in Nat
      /\ \A i \in 1..n : s[i] \in Seq(S) /\ Len(s[i]) \in Nat
  <2>1. n \in Nat /\ \A i \in 1..n : s[i] \in Seq(S)
    OBVIOUS
  <2> HIDE DEF n
  <2>2. \A i \in 0..n : f[i] \in Seq(S)
    BY <1>1 DEF n
  <2>3. \A x \in Seq(S) : Len(x) \in Nat
    OBVIOUS
  <2>. QED  BY <2>1, <2>2, <2>3
<1>3. pos \in [0..n -> Nat] /\ pos[0] = 0
  BY <1>1, <1>2 DEF IsFlattening
<1>4. ASSUME NEW i \in 1..n
      PROVE  /\ f[i] = f[i - 1] \o s[i] /\ f[i - 1] \in Seq(S) /\ s[i] \in Seq(S)
             /\ Len(f[i]) = Len(f[i - 1]) + Len(s[i])
             /\ \A j \in 1..Len(f[i - 1]) : f[i][j] = f[i - 1][j]
             /\ \A j \in 1..Len(s[i]) : f[i][Len(f[i - 1]) + j] = s[i][j]
  <2>1. f[i] = f[i - 1] \o s[i]
    BY <1>1 DEF IsFlattening
  <2>2. f[i - 1] \in Seq(S) /\ s[i] \in Seq(S)
    BY <1>2
  <2> DEFINE a == f[i - 1]
             b == s[i]
  <2>3. /\ Len(a \o b) = Len(a) + Len(b)
        /\ \A j \in 1..Len(a) : (a \o b)[j] = a[j]
        /\ \A j \in 1..Len(b) : (a \o b)[Len(a) + j] = b[j]
    <3>1. a \in Seq(S) /\ b \in Seq(S)
      BY <2>2
    <3> HIDE DEF a, b
    <3>. QED  BY <3>1
  <2>. QED  BY <2>1, <2>2, <2>3
(* What is there at some point stays. *)
<1>5. ASSUME NEW i \in 0..n
      PROVE  \A k \in i..n : /\ Len(f[i]) <= Len(f[k])
                             /\ \A j \in 1..Len(f[i]) : f[k][j] = f[i][j]
  <2> DEFINE Has(k) == /\ Len(f[i]) <= Len(f[k])
                       /\ \A j \in 1..Len(f[i]) : f[k][j] = f[i][j]
             T == {m \in Nat : i + m <= n => Has(i + m)}
  <2>1. 0 \in T
    BY <1>2
  <2>2. ASSUME NEW m \in Nat, m \in T PROVE m + 1 \in T
    <3>1. CASE i + m + 1 <= n
      <4>1. i + m + 1 \in 1..n /\ (i + m + 1) - 1 = i + m /\ i + m \in 0..n
        BY <3>1
      <4>2. Has(i + m)
        BY <2>2, <3>1
      <4>3. Has(i + m + 1)
        <5> DEFINE k == i + m + 1
        <5>1. /\ Len(f[k]) = Len(f[k - 1]) + Len(s[k])
              /\ \A j \in 1..Len(f[k - 1]) : f[k][j] = f[k - 1][j]
          <6>1. k \in 1..n
            BY <4>1
          <6> HIDE DEF k
          <6>. QED  BY <1>4, <6>1
        <5>2. k - 1 = i + m /\ Len(s[k]) \in Nat /\ Len(f[k - 1]) \in Nat /\ Len(f[i]) \in Nat
          BY <1>2, <4>1
        <5>3. Has(k - 1)
          BY <4>2, <5>2
        <5>4. Has(k)
          <6> HIDE DEF k
          <6>. QED  BY <5>1, <5>2, <5>3
        <5>. QED  BY <5>4
      <4>. QED  BY <4>3
    <3>2. CASE ~(i + m + 1 <= n)
      BY <3>2
    <3>. QED  BY <3>1, <3>2
  <2>3. Nat \subseteq T
    <3> HIDE DEF T
    <3>. QED  BY <2>1, <2>2, SetInduction
  <2>4. ASSUME NEW k \in i..n PROVE Has(k)
    <3>1. k - i \in Nat /\ i + (k - i) = k
      BY <1>2
    <3>2. k - i \in T
      BY <2>3, <3>1
    <3>. QED  BY <3>1, <3>2
  <2>. QED  BY <2>4
<1>6. ASSUME NEW i \in 1..n
      PROVE  /\ pos[i] = pos[i - 1] + Len(s[i])
             /\ pos[i] <= pos[n]
             /\ \A j \in 1..Len(s[i]) : FlattenSeq(s)[pos[i - 1] + j] = s[i][j]
  <2>1. i \in 0..n /\ i - 1 \in 0..n /\ n \in i..n /\ n \in 0..n
    BY <1>2
  <2>2. pos[i] = Len(f[i]) /\ pos[i - 1] = Len(f[i - 1]) /\ pos[n] = Len(f[n])
    BY <2>1
  <2>3. Len(f[i]) <= Len(f[n]) /\ \A j \in 1..Len(f[i]) : f[n][j] = f[i][j]
    BY <1>5, <2>1
  <2>4. Len(f[i]) \in Nat /\ Len(f[i - 1]) \in Nat /\ Len(s[i]) \in Nat
    BY <1>2, <1>4, <2>1
  <2>5. ASSUME NEW j \in 1..Len(s[i])
        PROVE  FlattenSeq(s)[pos[i - 1] + j] = s[i][j]
    <3>1. Len(f[i - 1]) + j \in 1..Len(f[i])
      <4> DEFINE a == Len(f[i - 1])
                 b == Len(s[i])
                 c == Len(f[i])
      <4>1. a \in Nat /\ b \in Nat /\ c = a + b /\ j \in 1..b
        BY <1>4, <2>4
      <4> HIDE DEF a, b, c
      <4>2. a + j \in 1..c
        BY <4>1
      <4>. QED  BY <4>2 DEF a, c
    <3>2. f[n][Len(f[i - 1]) + j] = f[i][Len(f[i - 1]) + j]
      BY <2>3, <3>1
    <3>. QED  BY <1>1, <1>4, <2>2, <3>2
  <2> HIDE DEF pos
  <2>. QED  BY <1>4, <2>2, <2>3, <2>5
<1>7. Len(FlattenSeq(s)) = pos[n]
  BY <1>1, <1>2
<1>8. Layout(pos, s, FlattenSeq(s))
  <2> HIDE DEF pos
  <2>. QED  BY <1>3, <1>6, <1>7 DEF Layout
<1>9. FlattenSeq(s) \in Seq(S)
  BY <1>1, <1>2
<1>. QED  BY <1>8, <1>9

-----------------------------------------------------------------------------
(* What is written to a file is read back from it. *)

LEMMA SizeType ==
  ASSUME NEW numbers, NEW at
  PROVE  Size(numbers, at) \in {1, 2, 3}
BY DEF Size

(* The index behind a number of jumps, by the index of the first. *)
LEMMA BehindJumpsStep ==
  ASSUME NEW numbers, NEW at \in Nat
  PROVE  /\ BehindJumps(numbers)[0][at] = at
         /\ \A n \in Nat :
              /\ BehindJumps(numbers)[n][at] \in Nat
              /\ BehindJumps(numbers)[n + 1][at] =
                   BehindJumps(numbers)[n][at] + Size(numbers, BehindJumps(numbers)[n][at])
<1> DEFINE X == [Nat -> Nat]
           After(h) == [from \in Nat |-> h[from] + Size(numbers, h[from])]
           Is(b) == b = [count \in Nat |->
                           [from \in Nat |->
                              IF count = 0 THEN from
                              ELSE b[count - 1][from] + Size(numbers, b[count - 1][from])]]
           step == [p \in Nat \X X |-> After(p[2])]
           first == [from \in Nat |-> from]
<1>1. step \in [Nat \X X -> X] /\ first \in X
  <2>1. ASSUME NEW p \in Nat \X X PROVE After(p[2]) \in X
    <3>1. ASSUME NEW from \in Nat PROVE p[2][from] + Size(numbers, p[2][from]) \in Nat
      BY SizeType
    <3>. QED  BY <3>1
  <2>. QED  BY <2>1
<1>2. PICK f : Iterates(f, X, first, step)
  <2> HIDE DEF X, first, step
  <2>. QED  BY <1>1, Iterate
<1>3. /\ f \in [Nat -> X] /\ f[0] = first
      /\ \A n \in Nat : f[n + 1] = After(f[n])
  <2>1. f \in [Nat -> X] /\ f[0] = first /\ \A n \in Nat : f[n + 1] = step[<<n, f[n]>>]
    BY <1>2, Zenon DEF Iterates
  <2>2. ASSUME NEW n \in Nat PROVE step[<<n, f[n]>>] = After(f[n])
    <3>1. <<n, f[n]>> \in Nat \X X /\ <<n, f[n]>>[2] = f[n]
      BY <2>1
    <3> HIDE DEF After, X
    <3>. QED  BY <3>1
  <2>. QED  BY <2>1, <2>2, Zenon
<1>4. Is(f)
  <2>1. ASSUME NEW n \in Nat
        PROVE  f[n] = [from \in Nat |->
                         IF n = 0 THEN from ELSE f[n - 1][from] + Size(numbers, f[n - 1][from])]
    <3>1. CASE n = 0
      BY <1>3, <3>1
    <3>2. CASE n # 0
      <4>1. n - 1 \in Nat /\ (n - 1) + 1 = n
        BY <3>2
      <4>2. f[n] = After(f[n - 1])
        BY <1>3, <4>1
      <4>. QED  BY <3>2, <4>2
    <3>. QED  BY <3>1, <3>2
  <2>2. f = [n \in Nat |-> f[n]]
    BY <1>3
  <2>. QED  BY <2>1, <2>2
<1> DEFINE b == CHOOSE b : Is(b)
<1>5. BehindJumps(numbers) = b
  BY Zenon DEF BehindJumps
<1>6. Is(b)
  <2> HIDE DEF Is
  <2>. QED  BY <1>4, Zenon
<1> HIDE DEF b
<1>7. b[0][at] = at
  BY <1>6
<1>8. ASSUME NEW n \in Nat
      PROVE  b[n + 1][at] = b[n][at] + Size(numbers, b[n][at])
  <2>1. n + 1 \in Nat /\ n + 1 # 0 /\ (n + 1) - 1 = n
    OBVIOUS
  <2>. QED  BY <1>6, <2>1
<1> HIDE DEF Is
<1>9. \A n \in Nat : b[n][at] \in Nat
  <2> DEFINE T == {n \in Nat : b[n][at] \in Nat}
  <2>1. 0 \in T
    BY <1>7
  <2>2. ASSUME NEW n \in Nat, n \in T PROVE n + 1 \in T
    BY <1>8, <2>2, SizeType
  <2>3. Nat \subseteq T
    <3> HIDE DEF T
    <3>. QED  BY <2>1, <2>2, SetInduction
  <2>. QED  BY <2>3
<1>. QED  BY <1>5, <1>7, <1>8, <1>9

(* The index behind a number of rows. *)
LEMMA BehindRowsStep ==
  ASSUME NEW numbers, Len(Characters) \in Nat
  PROVE  /\ BehindRows(numbers)[0] = 2
         /\ \A n \in Nat :
              /\ BehindRows(numbers)[n] \in Nat
              /\ BehindRows(numbers)[n + 1] =
                   BehindJumps(numbers)[Len(Characters)][BehindRows(numbers)[n]]
<1> DEFINE After(at) == BehindJumps(numbers)[Len(Characters)][at]
           Is(b) == b = [count \in Nat |-> IF count = 0 THEN 2 ELSE After(b[count - 1])]
           step == [p \in Nat \X Nat |-> After(p[2])]
<1>0. \A at \in Nat : After(at) \in Nat
  BY BehindJumpsStep
<1> HIDE DEF After
<1>1. step \in [Nat \X Nat -> Nat]
  BY <1>0
<1>2. PICK f : Iterates(f, Nat, 2, step)
  <2> HIDE DEF step
  <2>. QED  BY <1>1, Iterate
<1>3. f \in [Nat -> Nat] /\ f[0] = 2 /\ \A n \in Nat : f[n + 1] = After(f[n])
  BY <1>2 DEF Iterates
<1>4. Is(f)
  <2>1. ASSUME NEW n \in Nat PROVE f[n] = IF n = 0 THEN 2 ELSE After(f[n - 1])
    <3>1. CASE n = 0
      BY <1>3, <3>1
    <3>2. CASE n # 0
      <4>1. n - 1 \in Nat /\ (n - 1) + 1 = n
        BY <3>2
      <4>. QED  BY <1>3, <3>2, <4>1
    <3>. QED  BY <3>1, <3>2
  <2>2. f = [n \in Nat |-> f[n]]
    BY <1>3
  <2>. QED  BY <2>1, <2>2
<1> DEFINE b == CHOOSE b : Is(b)
<1>5. BehindRows(numbers) = b
  BY Zenon DEF BehindRows, After
<1>6. Is(b)
  <2> HIDE DEF Is
  <2>. QED  BY <1>4, Zenon
<1> HIDE DEF b
<1>7. b[0] = 2
  BY <1>6
<1>8. ASSUME NEW n \in Nat PROVE b[n + 1] = After(b[n])
  <2>1. n + 1 \in Nat /\ n + 1 # 0 /\ (n + 1) - 1 = n
    OBVIOUS
  <2>. QED  BY <1>6, <2>1
<1> HIDE DEF Is
<1>9. \A n \in Nat : b[n] \in Nat
  <2> DEFINE T == {n \in Nat : b[n] \in Nat}
  <2>1. 0 \in T
    BY <1>7
  <2>2. ASSUME NEW n \in Nat, n \in T PROVE n + 1 \in T
    <3>1. b[n] \in Nat
      BY <2>2
    <3>2. After(b[n]) \in Nat
      BY <1>0, <3>1
    <3>3. b[n + 1] \in Nat
      BY <1>8, <3>2
    <3>. QED  BY <3>3
  <2>3. Nat \subseteq T
    <3> HIDE DEF T
    <3>. QED  BY <2>1, <2>2, SetInduction
  <2>. QED  BY <2>3
<1>. QED  BY <1>5, <1>7, <1>8, <1>9 DEF After

(* What a table is made of. *)
Jumps == [kind : {"next"}, state : Nat] \cup [kind : {"finish"}, shift : Nat, token : Nat]
           \cup {Reject}

LEMMA WrittenType ==
  ASSUME NEW jump \in Jumps
  PROVE  Written(jump) \in Seq(Nat) /\ Len(Written(jump)) \in {1, 2, 3}
<1>1. CASE jump.kind = "next"
  <2>1. jump.state \in Nat
    BY <1>1 DEF Jumps, Reject
  <2>2. Written(jump) = <<0, jump.state>>
    BY <1>1 DEF Written
  <2>. QED  BY <2>1, <2>2
<1>2. CASE jump.kind = "finish"
  <2>1. jump.shift \in Nat /\ jump.token \in Nat
    BY <1>2 DEF Jumps, Reject
  <2>2. Written(jump) = <<1, jump.shift, jump.token>>
    BY <1>2 DEF Written
  <2>. QED  BY <2>1, <2>2
<1>3. CASE jump.kind = "reject"
  BY <1>3 DEF Written
<1>4. jump.kind \in {"next", "finish", "reject"}
  BY DEF Jumps, Reject
<1>. QED  BY <1>1, <1>2, <1>3, <1>4

(* A jump that is written somewhere is read from there. *)
LEMMA JumpReadBack ==
  ASSUME NEW jump \in Jumps, NEW numbers, NEW at \in Nat,
         \A j \in 1..Len(Written(jump)) : numbers[(at - 1) + j] = Written(jump)[j]
  PROVE  Size(numbers, at) = Len(Written(jump)) /\ JumpRead(numbers, at) = jump
<1>0. (at - 1) + 1 = at /\ (at - 1) + 2 = at + 1 /\ (at - 1) + 3 = at + 2
  OBVIOUS
<1>1. CASE jump.kind = "next"
  <2>1. jump = [kind |-> "next", state |-> jump.state]
    BY <1>1 DEF Jumps, Reject
  <2>2. Written(jump) = <<0, jump.state>> /\ Len(Written(jump)) = 2
    BY <1>1 DEF Written
  <2>3. numbers[at] = 0 /\ numbers[at + 1] = jump.state
    BY <1>0, <2>2
  <2>. QED  BY <2>1, <2>2, <2>3 DEF Size, JumpRead, NextState
<1>2. CASE jump.kind = "finish"
  <2>1. jump = [kind |-> "finish", shift |-> jump.shift, token |-> jump.token]
    BY <1>2 DEF Jumps, Reject
  <2>2. Written(jump) = <<1, jump.shift, jump.token>> /\ Len(Written(jump)) = 3
    BY <1>2 DEF Written
  <2>3. numbers[at] = 1 /\ numbers[at + 1] = jump.shift /\ numbers[at + 2] = jump.token
    BY <1>0, <2>2
  <2>. QED  BY <2>1, <2>2, <2>3 DEF Size, JumpRead, Finish
<1>3. CASE jump.kind = "reject"
  <2>1. jump = Reject
    BY <1>3 DEF Jumps
  <2>2. Written(jump) = <<2>> /\ Len(Written(jump)) = 1
    BY <1>3 DEF Written
  <2>3. numbers[at] = 2
    BY <1>0, <2>2
  <2>. QED  BY <2>1, <2>2, <2>3 DEF Size, JumpRead
<1>4. jump.kind \in {"next", "finish", "reject"}
  BY DEF Jumps, Reject
<1>. QED  BY <1>1, <1>2, <1>3, <1>4

LEMMA CodeType ==
  ASSUME CharactersAssumption, NEW c \in Symbols
  PROVE  Code(c) \in DOMAIN Characters /\ Characters[Code(c)] = c
<1>1. \E i \in DOMAIN Characters : Characters[i] = c
  BY DEF Symbols, ToSet
<1>. QED  BY <1>1 DEF Code

LEMMA CharactersType ==
  ASSUME CharactersAssumption
  PROVE  /\ Len(Characters) \in Nat /\ Len(Characters) >= 1
         /\ DOMAIN Characters = 1..Len(Characters)
         /\ \A i \in 1..Len(Characters) : Characters[i] \in Symbols /\ Code(Characters[i]) = i
         /\ \A c \in Symbols : Code(c) \in 1..Len(Characters) /\ Characters[Code(c)] = c
         /\ Eof \in Symbols
<1>1. Characters \in Seq(Symbols) /\ Characters # <<>>
  BY DEF CharactersAssumption, Symbols
<1>2. Len(Characters) \in Nat /\ Len(Characters) >= 1 /\ DOMAIN Characters = 1..Len(Characters)
  <2> HIDE DEF Symbols
  <2>. QED  BY <1>1
<1>3. \A c \in Symbols : Code(c) \in 1..Len(Characters) /\ Characters[Code(c)] = c
  BY <1>2, CodeType
<1>4. ASSUME NEW i \in 1..Len(Characters)
      PROVE  Characters[i] \in Symbols /\ Code(Characters[i]) = i
  <2>1. Characters[i] \in Symbols
    BY <1>2 DEF Symbols, ToSet
  <2>. QED  BY <1>2, <1>3, <2>1 DEF CharactersAssumption, IsInjective
<1>. QED  BY <1>2, <1>3, <1>4 DEF Eof

Cells(row) == [i \in DOMAIN Characters |-> Written(row[Characters[i]])]

LEMMA RowLayout ==
  ASSUME CharactersAssumption, NEW row \in [Symbols -> Jumps]
  PROVE  /\ RowWritten(row) \in Seq(Nat)
         /\ \E pos : Layout(pos, Cells(row), RowWritten(row))
<1>1. Cells(row) \in Seq(Seq(Nat))
  <2>1. ASSUME NEW i \in 1..Len(Characters) PROVE Written(row[Characters[i]]) \in Seq(Nat)
    BY CharactersType, WrittenType
  <2>2. Cells(row) = [i \in 1..Len(Characters) |-> Written(row[Characters[i]])]
    BY CharactersType DEF Cells
  <2> DEFINE N == Len(Characters)
             X == Seq(Nat)
             w(i) == Written(row[Characters[i]])
  <2>3. N \in Nat /\ \A i \in 1..N : w(i) \in X
    BY <2>1, CharactersType
  <2>4. [i \in 1..N |-> w(i)] \in Seq(X)
    <3> HIDE DEF N, X, w
    <3>. QED  BY <2>3
  <2>. QED  BY <2>2, <2>4
<1>2. RowWritten(row) = FlattenSeq(Cells(row))
  BY DEF RowWritten, Cells
<1> HIDE DEF Cells
<1>. QED  BY <1>1, <1>2, FlattenLayout

(* A row that starts at some index is read from there. *)
LEMMA RowReadBack ==
  ASSUME CharactersAssumption, NEW row \in [Symbols -> Jumps], NEW numbers, NEW at \in Nat,
         \A j \in 1..Len(RowWritten(row)) : numbers[(at - 1) + j] = RowWritten(row)[j]
  PROVE  /\ BehindJumps(numbers)[Len(Characters)][at] = at + Len(RowWritten(row))
         /\ \A c \in Symbols :
              JumpRead(numbers, BehindJumps(numbers)[Code(c) - 1][at]) = row[c]
<1> DEFINE N == Len(Characters)
           B(n) == BehindJumps(numbers)[n][at]
           cells == Cells(row)
           w == RowWritten(row)
<1>1. PICK pos : Layout(pos, cells, w)
  BY RowLayout
<1>2. N \in Nat /\ Len(cells) = N /\ \A i \in 1..N : cells[i] = Written(row[Characters[i]])
  BY CharactersType DEF Cells
<1>3. /\ pos \in [0..N -> Nat] /\ pos[0] = 0 /\ Len(w) = pos[N]
      /\ \A i \in 1..N :
           /\ pos[i] = pos[i - 1] + Len(cells[i])
           /\ pos[i] <= pos[N]
           /\ \A j \in 1..Len(cells[i]) : w[pos[i - 1] + j] = cells[i][j]
  BY <1>1, <1>2 DEF Layout
<1>4. /\ B(0) = at
      /\ \A n \in Nat : B(n + 1) = B(n) + Size(numbers, B(n))
  BY BehindJumpsStep
<1>5. \A j \in 1..Len(w) : numbers[(at - 1) + j] = w[j]
  OBVIOUS
<1> HIDE DEF B, cells, w, N
<1>6. ASSUME NEW i \in 1..N, B(i - 1) = at + pos[i - 1]
      PROVE  B(i) = at + pos[i] /\ JumpRead(numbers, B(i - 1)) = row[Characters[i]]
  <2> DEFINE jump == row[Characters[i]]
             p == pos[i - 1]
             l == Len(cells[i])
             from == at + p
  <2>1. jump \in Jumps /\ cells[i] = Written(jump)
    BY <1>2, CharactersType DEF N
  <2>2. l \in Nat
    <3>1. Len(Written(jump)) \in {1, 2, 3}
      <4> HIDE DEF jump
      <4>. QED  BY <2>1, WrittenType
    <3>. QED  BY <2>1, <3>1
  <2>3. i - 1 \in 0..N /\ N \in 0..N /\ i \in 0..N
    BY <1>2
  <2>4. p \in Nat /\ pos[i] = p + l /\ pos[i] <= Len(w) /\ Len(w) \in Nat
    BY <1>3, <2>3
  <2>5. ASSUME NEW j \in 1..l
        PROVE  numbers[(from - 1) + j] = cells[i][j]
    <3>1. w[p + j] = cells[i][j]
      BY <1>3
    <3> HIDE DEF p, l
    <3>2. p + j \in 1..Len(w) /\ (at - 1) + (p + j) = (from - 1) + j
      BY <2>2, <2>4
    <3>3. numbers[(at - 1) + (p + j)] = w[p + j]
      BY <1>5, <3>2
    <3>. QED  BY <3>1, <3>2, <3>3
  <2>6. Size(numbers, at + p) = Len(Written(jump)) /\ JumpRead(numbers, at + p) = jump
    <3>1. from \in Nat
      BY <2>4
    <3> HIDE DEF from
    <3>2. \A j \in 1..Len(Written(jump)) : numbers[(from - 1) + j] = Written(jump)[j]
      BY <2>1, <2>5
    <3>3. from \in Nat /\ jump \in Jumps
          /\ \A j \in 1..Len(Written(jump)) : numbers[(from - 1) + j] = Written(jump)[j]
      BY <2>1, <3>1, <3>2
    <3> HIDE DEF jump
    <3>4. Size(numbers, from) = Len(Written(jump)) /\ JumpRead(numbers, from) = jump
      BY <3>3, JumpReadBack
    <3>. QED  BY <3>4 DEF from
  <2>7. i - 1 \in Nat /\ (i - 1) + 1 = i
    BY <1>2
  <2>8. B(i) = B(i - 1) + Size(numbers, B(i - 1))
    BY <1>4, <2>7
  <2>9. l = Len(Written(jump))
    BY <2>1
  <2> HIDE DEF jump, l
  <2>10. B(i - 1) = at + p
    BY <1>6
  <2>11. B(i) = (at + p) + l
    BY <2>6, <2>8, <2>9, <2>10
  <2>12. B(i) = at + pos[i]
    <3> HIDE DEF p
    <3>. QED  BY <2>2, <2>4, <2>11
  <2>. QED  BY <2>6, <2>10, <2>12 DEF jump
<1>7. \A i \in 0..N : B(i) = at + pos[i]
  <2> DEFINE T == {i \in Nat : i <= N => B(i) = at + pos[i]}
  <2>1. 0 \in T
    BY <1>3, <1>4
  <2>2. ASSUME NEW i \in Nat, i \in T PROVE i + 1 \in T
    <3>1. CASE i + 1 <= N
      <4>1. i + 1 \in 1..N /\ (i + 1) - 1 = i
        BY <3>1, <1>2
      <4>2. B(i) = at + pos[i]
        BY <2>2, <3>1, <1>2
      <4>3. B(i + 1) = at + pos[i + 1]
        <5> DEFINE k == i + 1
        <5>1. k \in 1..N /\ B(k - 1) = at + pos[k - 1]
          BY <4>1, <4>2
        <5> HIDE DEF k
        <5>2. B(k) = at + pos[k]
          BY <5>1, <1>6
        <5>. QED  BY <5>2 DEF k
      <4>. QED  BY <4>3
    <3>2. CASE ~(i + 1 <= N)
      BY <3>2, <1>2
    <3>. QED  BY <3>1, <3>2
  <2>3. Nat \subseteq T
    <3> HIDE DEF T
    <3>. QED  BY <2>1, <2>2, SetInduction
  <2>. QED  BY <2>3, <1>2
<1>8. B(N) = at + Len(w)
  BY <1>2, <1>3, <1>7
<1>9. ASSUME NEW c \in Symbols PROVE JumpRead(numbers, B(Code(c) - 1)) = row[c]
  <2>1. Code(c) \in 1..N /\ Characters[Code(c)] = c
    BY CharactersType DEF N
  <2>2. Code(c) - 1 \in 0..N
    BY <1>2, <2>1
  <2>3. B(Code(c) - 1) = at + pos[Code(c) - 1]
    BY <1>7, <2>2
  <2>. QED  BY <1>6, <2>1, <2>3
<1>. QED  BY <1>8, <1>9 DEF B, w, N

(* The table that the lexer reads is the one that the generator wrote: the   *)
(* numbers of a jump take as many places as the reader skips, so it never    *)
(* gets out of step (LexicalTableSerializer.cpp).                            *)
THEOREM RoundTrip ==
  ASSUME CharactersAssumption, NEW rows \in Seq([Symbols -> Jumps])
  PROVE  Deserialized(Serialized(rows)) = rows
<1> DEFINE n == Len(rows)
           N == Len(Characters)
           written == [i \in DOMAIN rows |-> RowWritten(rows[i])]
           body == FlattenSeq(written)
           numbers == Serialized(rows)
           B(i) == BehindRows(numbers)[i]
<1>1. n \in Nat /\ DOMAIN rows = 1..n /\ \A i \in 1..n : rows[i] \in [Symbols -> Jumps]
  OBVIOUS
<1>2. \A i \in 1..n : RowWritten(rows[i]) \in Seq(Nat)
  BY <1>1, RowLayout
<1>3. written \in Seq(Seq(Nat)) /\ Len(written) = n
      /\ \A i \in 1..n : written[i] = RowWritten(rows[i])
  <2> DEFINE X == Seq(Nat)
             w(i) == RowWritten(rows[i])
  <2>1. [i \in 1..n |-> w(i)] \in Seq(X) /\ Len([i \in 1..n |-> w(i)]) = n
    <3>1. \A i \in 1..n : w(i) \in X
      BY <1>2
    <3> HIDE DEF n, X, w
    <3>. QED  BY <1>1, <3>1
  <2>. QED  BY <1>1, <2>1
<1>4. PICK pos : Layout(pos, written, body) /\ body \in Seq(Nat)
  <2>1. written \in Seq(Seq(Nat))
    BY <1>3
  <2> HIDE DEF written
  <2>. QED  BY <2>1, FlattenLayout
<1>5. /\ pos \in [0..n -> Nat] /\ pos[0] = 0 /\ Len(body) = pos[n]
      /\ \A i \in 1..n :
           /\ pos[i] = pos[i - 1] + Len(RowWritten(rows[i]))
           /\ pos[i] <= pos[n]
           /\ \A j \in 1..Len(RowWritten(rows[i])) :
                body[pos[i - 1] + j] = RowWritten(rows[i])[j]
  <2>1. Layout(pos, written, body) /\ DOMAIN written = 1..n /\ Len(written) = n
        /\ \A i \in 1..n : written[i] = RowWritten(rows[i])
    BY <1>3, <1>4
  <2> HIDE DEF written, body, n
  <2>2. /\ pos \in [0..n -> Nat] /\ pos[0] = 0 /\ Len(body) = pos[n]
        /\ \A i \in 1..n :
             /\ pos[i] = pos[i - 1] + Len(written[i])
             /\ pos[i] <= pos[n]
             /\ \A j \in 1..Len(written[i]) : body[pos[i - 1] + j] = written[i][j]
    BY <2>1 DEF Layout
  <2>. QED  BY <2>1, <2>2
<1>6. numbers = <<n>> \o body
  BY DEF Serialized
<1>7. /\ body \in Seq(Nat) /\ Len(body) \in Nat
      /\ numbers[1] = n
      /\ \A k \in 1..Len(body) : numbers[1 + k] = body[k]
  <2>1. body \in Seq(Nat)
    BY <1>4
  <2> HIDE DEF body
  <2>2. numbers[1] = n /\ \A k \in 1..Len(body) : numbers[1 + k] = body[k]
    <3> HIDE DEF numbers, n
    <3>. QED  BY <2>1, <1>1, <1>6
  <2>. QED  BY <2>1, <2>2
<1>8. B(0) = 2 /\ \A i \in Nat : B(i) \in Nat /\ B(i + 1) = BehindJumps(numbers)[N][B(i)]
  <2>1. N \in Nat
    BY CharactersType
  <2> HIDE DEF numbers
  <2>. QED  BY <2>1, BehindRowsStep
<1> HIDE DEF B, body, numbers, written, n, N
<1>9. ASSUME NEW i \in 1..n, B(i - 1) = 2 + pos[i - 1]
      PROVE  /\ B(i) = 2 + pos[i]
             /\ \A c \in Symbols :
                  JumpRead(numbers, BehindJumps(numbers)[Code(c) - 1][B(i - 1)]) = rows[i][c]
  <2> DEFINE row == rows[i]
             at == B(i - 1)
             p == pos[i - 1]
             l == Len(RowWritten(row))
  <2>1. row \in [Symbols -> Jumps] /\ RowWritten(row) \in Seq(Nat)
    BY <1>1, <1>2
  <2>2. i - 1 \in 0..n /\ i \in 0..n /\ n \in 0..n /\ i - 1 \in Nat /\ (i - 1) + 1 = i
    BY <1>1
  <2>3. /\ p \in Nat /\ l \in Nat /\ pos[i] = p + l /\ pos[i] <= Len(body)
        /\ \A j \in 1..l : body[p + j] = RowWritten(row)[j]
    <3>1. l \in Nat
      BY <2>1
    <3>2. p \in Nat /\ pos[i] \in Nat /\ Len(body) = pos[n]
      BY <1>5, <2>2
    <3>3. pos[i] = p + l /\ pos[i] <= Len(body)
      BY <1>5
    <3>4. \A j \in 1..l : body[p + j] = RowWritten(row)[j]
      BY <1>5
    <3>. QED  BY <3>1, <3>2, <3>3, <3>4
  <2>4. at = 2 + p
    BY <1>9
  <2>5. ASSUME NEW j \in 1..l PROVE numbers[(at - 1) + j] = RowWritten(row)[j]
    <3>1. body[p + j] = RowWritten(row)[j]
      BY <2>3
    <3> HIDE DEF at, p, l
    <3>2. p + j \in 1..Len(body) /\ 1 + (p + j) = (at - 1) + j
      BY <1>7, <2>3, <2>4
    <3>3. numbers[1 + (p + j)] = body[p + j]
      BY <1>7, <3>2
    <3>. QED  BY <3>1, <3>2, <3>3
  <2>6. /\ BehindJumps(numbers)[N][at] = at + l
        /\ \A c \in Symbols : JumpRead(numbers, BehindJumps(numbers)[Code(c) - 1][at]) = row[c]
    <3>1. at \in Nat
      BY <2>3, <2>4
    <3>2. \A j \in 1..Len(RowWritten(row)) : numbers[(at - 1) + j] = RowWritten(row)[j]
      BY <2>5
    <3> HIDE DEF at, row
    <3>. QED  BY <2>1, <3>1, <3>2, RowReadBack DEF N
  <2>7. B(i) = BehindJumps(numbers)[N][at]
    BY <1>8, <2>2
  <2>8. B(i) = 2 + pos[i]
    <3> HIDE DEF at, p, l
    <3>. QED  BY <2>3, <2>4, <2>6, <2>7
  <2>. QED  BY <2>6, <2>8
<1>10. \A i \in 0..n : B(i) = 2 + pos[i]
  <2> DEFINE T == {i \in Nat : i <= n => B(i) = 2 + pos[i]}
  <2>1. 0 \in T
    BY <1>5, <1>8
  <2>2. ASSUME NEW i \in Nat, i \in T PROVE i + 1 \in T
    <3>1. CASE i + 1 <= n
      <4>1. i + 1 \in 1..n /\ (i + 1) - 1 = i
        BY <3>1, <1>1
      <4>2. B(i) = 2 + pos[i]
        BY <2>2, <3>1, <1>1
      <4> DEFINE k == i + 1
      <4>3. k \in 1..n /\ B(k - 1) = 2 + pos[k - 1]
        BY <4>1, <4>2
      <4> HIDE DEF k
      <4>4. B(k) = 2 + pos[k]
        BY <4>3, <1>9
      <4>. QED  BY <4>4 DEF k
    <3>2. CASE ~(i + 1 <= n)
      BY <3>2, <1>1
    <3>. QED  BY <3>1, <3>2
  <2>3. Nat \subseteq T
    <3> HIDE DEF T
    <3>. QED  BY <2>1, <2>2, SetInduction
  <2>. QED  BY <2>3, <1>1
<1> DEFINE read(i) == [c \in Symbols |->
                         JumpRead(numbers, BehindJumps(numbers)[Code(c) - 1][B(i - 1)])]
<1>11. ASSUME NEW i \in 1..n PROVE read(i) = rows[i]
  <2>1. i - 1 \in 0..n
    BY <1>1
  <2>2. \A c \in Symbols :
          JumpRead(numbers, BehindJumps(numbers)[Code(c) - 1][B(i - 1)]) = rows[i][c]
    BY <1>9, <1>10, <2>1
  <2>3. rows[i] = [c \in Symbols |-> rows[i][c]]
    BY <1>1
  <2>. QED  BY <2>2, <2>3
<1>12. Deserialized(numbers) = [i \in 1..n |-> read(i)]
  BY <1>7 DEF Deserialized, B
<1>13. rows = [i \in 1..n |-> rows[i]]
  BY <1>1
<1> HIDE DEF read
<1>14. Deserialized(numbers) = rows
  BY <1>11, <1>12, <1>13
<1>. QED  BY <1>14 DEF numbers

-----------------------------------------------------------------------------
(* The order of a set of numbers. *)

RankGrows(S) ==
  \A j \in Nat : /\ Rank(S, j) \in Nat
                 /\ Rank(S, j + 1) = Rank(S, j) + IF j + 1 \in S THEN 1 ELSE 0

LEMMA RankStep ==
  ASSUME NEW n \in Nat, NEW S, S \subseteq 1..n
  PROVE  /\ Cardinality(S) \in Nat /\ Rank(S, 0) = 0 /\ Rank(S, n) = Cardinality(S)
         /\ RankGrows(S)
<1> DEFINE U(j) == {m \in S : m <= j}
<1>1. IsFiniteSet(S)
  <2>1. IsFiniteSet(1..n)
    BY FS_Interval
  <2>. QED  BY <2>1, FS_Subset
<1>0. \A m \in S : m \in Nat /\ 1 <= m /\ m <= n
  OBVIOUS
<1>2. ASSUME NEW j \in Nat PROVE IsFiniteSet(U(j)) /\ Cardinality(U(j)) \in Nat
  BY <1>1, FS_Subset, FS_CardinalityType
<1>3. U(0) = {} /\ U(n) = S
  <2>1. U(0) = {}
    <3>1. SUFFICES ASSUME NEW m \in S, m <= 0 PROVE FALSE
      OBVIOUS
    <3>. QED  BY <1>0, <3>1
  <2>2. U(n) = S
    BY <1>0
  <2>. QED  BY <2>1, <2>2
<1>4. ASSUME NEW j \in Nat PROVE U(j + 1) = IF j + 1 \in S THEN U(j) \cup {j + 1} ELSE U(j)
  <2>1. \A m \in S : m <= j + 1 <=> m <= j \/ m = j + 1
    BY <1>0
  <2>. QED  BY <2>1
<1>5. ASSUME NEW j \in Nat PROVE j + 1 \notin U(j)
  OBVIOUS
<1>6. ASSUME NEW j \in Nat
      PROVE  Cardinality(U(j + 1)) = Cardinality(U(j)) + IF j + 1 \in S THEN 1 ELSE 0
  <2> HIDE DEF U
  <2>1. IsFiniteSet(U(j)) /\ Cardinality(U(j)) \in Nat
    BY <1>2
  <2>2. Cardinality(U(j) \cup {j + 1}) = Cardinality(U(j)) + 1
    BY <1>5, <2>1, FS_AddElement
  <2>3. CASE j + 1 \in S
    BY <1>4, <2>2, <2>3
  <2>4. CASE j + 1 \notin S
    <3>1. U(j + 1) = U(j)
      BY <1>4, <2>4
    <3> DEFINE c == Cardinality(U(j))
    <3>2. c \in Nat
      BY <2>1
    <3> HIDE DEF c
    <3>3. c = c + IF j + 1 \in S THEN 1 ELSE 0
      BY <2>4, <3>2
    <3>. QED  BY <3>1, <3>3 DEF c
  <2>. QED  BY <2>3, <2>4
<1>7. Cardinality(S) \in Nat
  BY <1>1, FS_CardinalityType
<1>8. \A j : Rank(S, j) = Cardinality(U(j))
  BY DEF Rank
<1>9. Cardinality(U(0)) = 0
  BY <1>3, FS_EmptySet
<1> HIDE DEF U
<1>. QED  BY <1>2, <1>3, <1>6, <1>7, <1>8, <1>9 DEF RankGrows

LEMMA RankMonotone ==
  ASSUME NEW n \in Nat, NEW S, S \subseteq 1..n, NEW j \in Nat
  PROVE  \A k \in Nat : Rank(S, j) <= Rank(S, j + k)
<1> DEFINE T == {k \in Nat : Rank(S, j) <= Rank(S, j + k)}
<1>0. \A i \in Nat : /\ Rank(S, i) \in Nat
                     /\ Rank(S, i + 1) = Rank(S, i) + IF i + 1 \in S THEN 1 ELSE 0
  <2>1. RankGrows(S)
    BY RankStep
  <2>. QED  BY <2>1 DEF RankGrows
<1>1. 0 \in T
  <2>1. j + 0 = j
    OBVIOUS
  <2>. QED  BY <1>0, <2>1
<1>2. ASSUME NEW k \in Nat, k \in T PROVE k + 1 \in T
  <2>1. j + k \in Nat /\ j + (k + 1) = (j + k) + 1
    OBVIOUS
  <2>2. Rank(S, j) \in Nat /\ Rank(S, j + k) \in Nat
        /\ Rank(S, (j + k) + 1) = Rank(S, j + k) + IF (j + k) + 1 \in S THEN 1 ELSE 0
    <3> DEFINE m == j + k
    <3>1. m \in Nat
      OBVIOUS
    <3> HIDE DEF m
    <3>2. Rank(S, j) \in Nat /\ Rank(S, m) \in Nat
          /\ Rank(S, m + 1) = Rank(S, m) + IF m + 1 \in S THEN 1 ELSE 0
      BY <1>0, <3>1
    <3>. QED  BY <3>2 DEF m
  <2>3. Rank(S, j) <= Rank(S, j + k)
    BY <1>2
  <2>4. Rank(S, j) <= Rank(S, (j + k) + 1)
    BY <2>2, <2>3
  <2>. QED  BY <2>1, <2>4
<1>3. Nat \subseteq T
  <2> HIDE DEF T
  <2>. QED  BY <1>1, <1>2, SetInduction
<1>. QED  BY <1>3

(* Every number of the set has its place in the order, and every place up to *)
(* the number of elements a number.                                          *)
LEMMA OrderedIs ==
  ASSUME NEW n \in Nat, NEW S, S \subseteq 1..n
  PROVE  /\ Cardinality(S) \in Nat /\ DOMAIN Ordered(S) = 1..Cardinality(S)
         /\ \A x \in S : Rank(S, x) \in 1..Cardinality(S) /\ Ordered(S)[Rank(S, x)] = x
                         /\ Rank(S, x - 1) = Rank(S, x) - 1
         /\ \A k \in 1..Cardinality(S) : Ordered(S)[k] \in S /\ Rank(S, Ordered(S)[k]) = k
<1>0. \A i \in Nat : /\ Rank(S, i) \in Nat
                     /\ Rank(S, i + 1) = Rank(S, i) + IF i + 1 \in S THEN 1 ELSE 0
  <2>1. RankGrows(S)
    BY RankStep
  <2>. QED  BY <2>1 DEF RankGrows
<1>1. Cardinality(S) \in Nat /\ Rank(S, n) = Cardinality(S) /\ Rank(S, 0) = 0
  BY RankStep
<1>2. ASSUME NEW x \in S
      PROVE  /\ x - 1 \in Nat /\ x \in Nat
             /\ Rank(S, x - 1) = Rank(S, x) - 1
             /\ Rank(S, x) \in 1..Cardinality(S)
  <2>1. x - 1 \in Nat /\ (x - 1) + 1 = x /\ n - x \in Nat /\ x + (n - x) = n /\ x \in Nat
    OBVIOUS
  <2>2. Rank(S, x - 1) \in Nat /\ Rank(S, x) = Rank(S, x - 1) + 1
    <3> DEFINE m == x - 1
    <3>1. m \in Nat /\ m + 1 = x
      BY <2>1
    <3> HIDE DEF m
    <3>2. Rank(S, m) \in Nat /\ Rank(S, m + 1) = Rank(S, m) + IF m + 1 \in S THEN 1 ELSE 0
      BY <1>0, <3>1
    <3>. QED  BY <3>1, <3>2 DEF m
  <2>3. Rank(S, x) <= Rank(S, n)
    <3> DEFINE d == n - x
    <3>1. d \in Nat /\ x + d = n
      BY <2>1
    <3>2. \A k \in Nat : Rank(S, x) <= Rank(S, x + k)
      BY <2>1, RankMonotone
    <3> HIDE DEF d
    <3>. QED  BY <3>1, <3>2
  <2>. QED  BY <1>1, <2>1, <2>2, <2>3
<1>3. ASSUME NEW x \in S, NEW y \in S, Rank(S, x) = Rank(S, y) PROVE x = y
  <2>1. ASSUME NEW a \in S, NEW b \in S, a < b PROVE Rank(S, a) < Rank(S, b)
    <3>1. a \in Nat /\ (b - 1) - a \in Nat /\ a + ((b - 1) - a) = b - 1
      BY <2>1, <1>2
    <3>2. \A k \in Nat : Rank(S, a) <= Rank(S, a + k)
      BY <3>1, RankMonotone
    <3>3. Rank(S, a) <= Rank(S, b - 1)
      <4> DEFINE d == (b - 1) - a
                 m == b - 1
      <4>1. d \in Nat /\ a + d = m
        BY <3>1
      <4> HIDE DEF d, m
      <4>2. Rank(S, a) <= Rank(S, m)
        BY <3>2, <4>1
      <4>. QED  BY <4>2 DEF m
    <3>4. /\ Rank(S, a) \in Nat /\ Rank(S, b) \in Nat /\ Rank(S, b - 1) \in Nat
          /\ Rank(S, b - 1) = Rank(S, b) - 1
      BY <1>0, <1>2
    <3>. QED  BY <3>3, <3>4
  <2>2. x \in Nat /\ y \in Nat /\ Rank(S, x) \in Nat /\ Rank(S, y) \in Nat
    BY <1>1, <1>2
  <2>3. ~(x < y) /\ ~(y < x)
    BY <1>3, <2>1, <2>2
  <2>. QED  BY <2>2, <2>3
<1>4. ASSUME NEW k \in 1..Cardinality(S) PROVE \E x \in S : Rank(S, x) = k
  <2> DEFINE T == {j \in Nat : Rank(S, j) < k \/ \E x \in S : Rank(S, x) = k}
  <2>1. 0 \in T
    BY <1>1
  <2>2. ASSUME NEW j \in Nat, j \in T PROVE j + 1 \in T
    <3>1. CASE \E x \in S : Rank(S, x) = k
      BY <3>1
    <3>2. CASE Rank(S, j) < k
      <4>1. Rank(S, j) \in Nat /\ Rank(S, j + 1) = Rank(S, j) + IF j + 1 \in S THEN 1 ELSE 0
        BY <1>0
      <4>2. Rank(S, j + 1) < k \/ (Rank(S, j + 1) = k /\ j + 1 \in S)
        BY <1>1, <3>2, <4>1
      <4>. QED  BY <4>2
    <3>. QED  BY <2>2, <3>1, <3>2
  <2>3. Nat \subseteq T
    <3> HIDE DEF T
    <3>. QED  BY <2>1, <2>2, SetInduction
  <2>4. n \in T
    BY <2>3
  <2>. QED  BY <1>1, <2>4
<1>5. ASSUME NEW k \in 1..Cardinality(S)
      PROVE  Ordered(S)[k] \in S /\ Rank(S, Ordered(S)[k]) = k
  <2>1. Ordered(S)[k] = CHOOSE x \in S : Rank(S, x) = k
    BY DEF Ordered
  <2>. QED  BY <1>4, <2>1
<1>6. ASSUME NEW x \in S PROVE Ordered(S)[Rank(S, x)] = x
  BY <1>2, <1>3, <1>5
<1>7. DOMAIN Ordered(S) = 1..Cardinality(S)
  BY DEF Ordered
<1>. QED  BY <1>1, <1>2, <1>5, <1>6, <1>7

LEMMA LeastOf ==
  ASSUME NEW S, S \subseteq Nat, S # {}
  PROVE  \E x \in S : \A y \in S : x <= y
<1>1. PICK x \in S : \A y \in S : ~(<<y, x>> \in Less)
  BY LessWellFounded, WFMin
<1>2. ASSUME NEW y \in S PROVE x <= y
  <2>1. x \in Nat /\ y \in Nat
    OBVIOUS
  <2>2. <<y, x>> \in Nat \X Nat /\ <<y, x>>[1] = y /\ <<y, x>>[2] = x
    BY <2>1
  <2>3. ~(y < x)
    BY <1>1, <2>2 DEF Less
  <2>. QED  BY <2>1, <2>3
<1>. QED  BY <1>1, <1>2

LEMMA MaxIs ==
  ASSUME NEW n \in Nat, NEW S, S \subseteq 1..n, S # {}
  PROVE  Max(S) \in S /\ \A x \in S : x <= Max(S)
<1> DEFINE T == {n - x : x \in S}
<1>0. \A x \in S : x \in Nat /\ n - x \in Nat
  OBVIOUS
<1>1. T \subseteq Nat /\ T # {}
  <2>1. \A y \in T : y \in Nat
    BY <1>0
  <2>2. PICK x \in S : TRUE
    OBVIOUS
  <2>3. n - x \in T
    OBVIOUS
  <2>. QED  BY <2>1, <2>3
<1>2. PICK y \in T : \A z \in T : y <= z
  <2> HIDE DEF T
  <2>. QED  BY <1>1, LeastOf
<1>3. PICK x \in S : y = n - x
  BY <1>2
<1>4. ASSUME NEW z \in S PROVE x >= z
  <2>1. n - z \in T
    OBVIOUS
  <2>2. n - x <= n - z
    BY <1>2, <1>3, <2>1
  <2>. QED  BY <1>0, <2>2
<1>5. Max(S) \in S /\ \A z \in S : Max(S) >= z
  BY <1>3, <1>4 DEF Max
<1>. QED  BY <1>5

-----------------------------------------------------------------------------
(* The loop that merges. *)

(* What it needs of the automata of the tokens: their jumps lead to their    *)
(* nodes, and the null character to none.                                    *)
Closed ==
  /\ \E n \in Nat : DOMAIN automata = 1..n
  /\ \A t \in DOMAIN automata :
       /\ 0 \in DOMAIN automata[t]
       /\ NoNode \notin DOMAIN automata[t]
       /\ \A n \in DOMAIN automata[t] :
            /\ automata[t][n].jumps[Eof] = NoNode
            /\ \A c \in Symbols : automata[t][n].jumps[c] \in (DOMAIN automata[t]) \cup {NoNode}

(* A node, or none, of each of them. *)
AllNodes == {NoNode} \cup UNION {DOMAIN automata[t] : t \in DOMAIN automata}
Mappings ==
  {m \in [DOMAIN automata -> AllNodes] :
     \A t \in DOMAIN automata : m[t] \in (DOMAIN automata[t]) \cup {NoNode}}

FirstMapping == [t \in DOMAIN automata |-> 0]

(* Some token has a first symbol. *)
Startable == \E c \in Symbols : ~NoTarget(Target(FirstMapping, c))

LEMMA TargetType ==
  ASSUME CharactersAssumption, Closed, NEW m \in Mappings
  PROVE  /\ FirstMapping \in Mappings
         /\ DOMAIN m = DOMAIN automata
         /\ \A c \in Symbols : Target(m, c) \in Mappings
         /\ NoTarget(Target(m, Eof))
<1>1. DOMAIN m = DOMAIN automata
      /\ \A t \in DOMAIN automata : m[t] \in (DOMAIN automata[t]) \cup {NoNode}
  BY DEF Mappings
<1>2. FirstMapping \in Mappings
  BY DEF FirstMapping, Mappings, AllNodes, Closed
<1>3. ASSUME NEW c \in Symbols PROVE Target(m, c) \in Mappings
  <2>1. ASSUME NEW t \in DOMAIN automata
        PROVE  Target(m, c)[t] \in (DOMAIN automata[t]) \cup {NoNode}
    BY <1>1 DEF Target, Closed
  <2>2. Target(m, c) = [t \in DOMAIN automata |-> Target(m, c)[t]]
    BY <1>1 DEF Target
  <2> DEFINE next == Target(m, c)
  <2>a. \A t \in DOMAIN automata : next[t] \in (DOMAIN automata[t]) \cup {NoNode}
    BY <2>1
  <2> HIDE DEF next
  <2>3. ASSUME NEW t \in DOMAIN automata PROVE next[t] \in AllNodes
    <3>1. CASE next[t] \in DOMAIN automata[t]
      BY <3>1, Zenon DEF AllNodes
    <3>2. CASE next[t] = NoNode
      <4>1. NoNode \in AllNodes
        BY DEF AllNodes
      <4>. QED  BY <3>2, <4>1
    <3>. QED  BY <2>a, <3>1, <3>2
  <2>4. next \in [DOMAIN automata -> AllNodes]
    BY <2>2, <2>3 DEF next
  <2>. QED  BY <2>1, <2>4 DEF Mappings, next
<1>4. NoTarget(Target(m, Eof))
  BY <1>1 DEF NoTarget, Target, Closed
<1>. QED  BY <1>1, <1>2, <1>3, <1>4

LEMMA FinalTokensType ==
  ASSUME Closed, NEW m \in Mappings
  PROVE  /\ FinalTokens(m) \subseteq DOMAIN automata /\ DOMAIN automata \subseteq Nat
         /\ FinalTokens(m) # {} =>
              /\ Max(FinalTokens(m)) \in FinalTokens(m)
              /\ Max(FinalTokens(m)) \in Nat
              /\ \A t \in FinalTokens(m) : t <= Max(FinalTokens(m))
         /\ NoTarget(m) => FinalTokens(m) = {}
<1>1. PICK n \in Nat : DOMAIN automata = 1..n
  BY DEF Closed
<1>2. FinalTokens(m) \subseteq DOMAIN automata
  BY DEF FinalTokens, Mappings
<1>3. NoTarget(m) => FinalTokens(m) = {}
  BY DEF FinalTokens, NoTarget
<1> HIDE DEF FinalTokens
<1>4. FinalTokens(m) # {} =>
        /\ Max(FinalTokens(m)) \in FinalTokens(m)
        /\ \A t \in FinalTokens(m) : t <= Max(FinalTokens(m))
  BY <1>1, <1>2, MaxIs
<1>. QED  BY <1>1, <1>2, <1>3, <1>4

(* The states with numbers keep them, and every state that the symbols lead  *)
(* to has one.                                                               *)
LEMMA DiscoveredIs ==
  ASSUME CharactersAssumption, Closed, NEW m \in Mappings, newStates \in Seq(Mappings)
  PROVE  /\ Discovered(m) \in Seq(Mappings)
         /\ Len(newStates) \in Nat /\ Len(Discovered(m)) \in Nat
         /\ Len(newStates) <= Len(Discovered(m))
         /\ \A k \in 1..Len(newStates) : Discovered(m)[k] = newStates[k]
         /\ \A k \in 1..Len(Discovered(m)) :
              k > Len(newStates) => \E c \in Symbols : Discovered(m)[k] = Target(m, c)
         /\ \A c \in Symbols :
              ~NoTarget(Target(m, c)) =>
                \E k \in 1..Len(Discovered(m)) : Discovered(m)[k] = Target(m, c)
<1> DEFINE N == Len(Characters)
           D == Discovering(m)
           d == Cardinality(D)
           found == [k \in 1..d |-> Target(m, Characters[Ordered(D)[k]])]
           n == Len(newStates)
<1>1. N \in Nat /\ DOMAIN Characters = 1..N /\ \A i \in 1..N : Characters[i] \in Symbols
  BY CharactersType
<1>2. D \subseteq 1..N
  BY <1>1 DEF Discovering
<1>3. /\ d \in Nat /\ DOMAIN Ordered(D) = 1..d
      /\ \A x \in D : Rank(D, x) \in 1..d /\ Ordered(D)[Rank(D, x)] = x
      /\ \A k \in 1..d : Ordered(D)[k] \in D
  <2> HIDE DEF D
  <2>. QED  BY <1>1, <1>2, OrderedIs
<1>4. Discovered(m) = newStates \o found
  BY <1>3 DEF Discovered
<1>5. \A k \in 1..d : found[k] = Target(m, Characters[Ordered(D)[k]])
                      /\ Characters[Ordered(D)[k]] \in Symbols
  BY <1>1, <1>2, <1>3
<1>6. \A k \in 1..d : found[k] \in Mappings
  BY <1>5, TargetType
<1>7. found \in Seq(Mappings) /\ Len(found) = d
  <2> DEFINE X == Mappings
             v(k) == Target(m, Characters[Ordered(D)[k]])
  <2>1. \A k \in 1..d : v(k) \in X
    BY <1>5, <1>6
  <2> HIDE DEF X, v, d, D
  <2>2. [k \in 1..d |-> v(k)] \in Seq(X) /\ Len([k \in 1..d |-> v(k)]) = d
    BY <1>3, <2>1
  <2>. QED  BY <2>2 DEF X, v
<1> DEFINE known == Discovered(m)
<1>8. /\ known \in Seq(Mappings) /\ n \in Nat /\ Len(known) = n + d
      /\ \A k \in 1..n : known[k] = newStates[k]
      /\ \A k \in 1..d : known[n + k] = found[k]
  <2> DEFINE X == Mappings
             e == Len(found)
  <2>1. found \in Seq(X) /\ newStates \in Seq(X) /\ known = newStates \o found /\ d = e
    BY <1>4, <1>7
  <2> HIDE DEF found, X, known, d
  <2>2. /\ known \in Seq(X) /\ n \in Nat /\ Len(known) = n + e
        /\ \A k \in 1..n : known[k] = newStates[k]
        /\ \A k \in 1..e : known[n + k] = found[k]
    BY <2>1
  <2>. QED  BY <2>1, <2>2 DEF X
<1> HIDE DEF known, found, d, D
<1>9. ASSUME NEW k \in 1..Len(known), k > n
      PROVE  \E c \in Symbols : known[k] = Target(m, c)
  <2> DEFINE j == k - n
  <2>1. j \in 1..d /\ n + j = k
    BY <1>3, <1>8, <1>9
  <2> HIDE DEF j
  <2>. QED  BY <1>5, <1>8, <2>1
<1>10. ASSUME NEW c \in Symbols, ~NoTarget(Target(m, c))
       PROVE  \E k \in 1..Len(known) : known[k] = Target(m, c)
  <2>1. CASE Target(m, c) \in ToSet(newStates)
    <3>1. PICK k \in 1..n : newStates[k] = Target(m, c)
      BY <2>1 DEF ToSet
    <3>2. k \in 1..Len(known)
      BY <1>3, <1>8
    <3>. QED  BY <1>8, <3>1, <3>2
  <2>2. CASE Target(m, c) \notin ToSet(newStates)
    <3> DEFINE I == {i \in 1..N : Target(m, Characters[i]) = Target(m, c)}
    <3>1. Code(c) \in I
      BY CharactersType
    <3>2. PICK i \in I : \A j \in I : i <= j
      <4>1. I \subseteq Nat /\ I # {}
        BY <3>1
      <4> HIDE DEF I
      <4>. QED  BY <4>1, LeastOf
    <3>3. i \in DOMAIN Characters /\ Target(m, Characters[i]) = Target(m, c)
      BY <1>1, <3>2
    <3>4. \A j \in 1..(i - 1) : Target(m, Characters[j]) # Target(m, c)
      <4>1. ASSUME NEW j \in 1..(i - 1), Target(m, Characters[j]) = Target(m, c) PROVE FALSE
        <5>1. j \in 1..N /\ j < i
          BY <1>1, <3>2
        <5>. QED  BY <3>2, <4>1, <5>1
      <4>. QED  BY <4>1
    <3>5. i \in D
      BY <1>10, <2>2, <3>3, <3>4 DEF D, Discovering
    <3>6. Rank(D, i) \in 1..d /\ found[Rank(D, i)] = Target(m, c)
      BY <1>3, <1>5, <3>3, <3>5
    <3> DEFINE r == Rank(D, i)
               k == n + r
    <3>7. r \in 1..d /\ known[n + r] = Target(m, c)
      BY <1>8, <3>6
    <3> HIDE DEF r
    <3>8. k \in 1..Len(known)
      BY <1>3, <1>8, <3>7
    <3>. QED  BY <3>7, <3>8
  <2>. QED  BY <2>1, <2>2
<1>. QED  BY <1>3, <1>8, <1>9, <1>10 DEF known

(* What a state that was taken from the queue has in its row. *)
EndOf(m) == IF FinalTokens(m) # {} THEN Finish(1, Max(FinalTokens(m))) ELSE Reject
RowIs(row, m, states) ==
  \A c \in Symbols :
    /\ NoTarget(Target(m, c)) => row[c] = EndOf(m)
    /\ ~NoTarget(Target(m, c)) =>
         \E s \in 1..Len(states) : row[c] = NextState(s - 1) /\ states[s] = Target(m, c)

Merging(states, rows, todo) ==
  /\ states \in Seq(Mappings) /\ rows \in Seq([Symbols -> Jumps]) /\ todo \in Seq(Nat)
  /\ Len(states) = Len(rows) /\ Len(states) >= 1 /\ states[1] = FirstMapping
  /\ \A i \in 1..Len(todo) : todo[i] < Len(states)
  /\ \A k \in 1..Len(states) :
       \/ rows[k] = NoJumps /\ \E i \in 1..Len(todo) : todo[i] = k - 1
       \/ RowIs(rows[k], states[k], states) /\ ~Overlap(states[k])

LEMMA RowType ==
  ASSUME CharactersAssumption, Closed, NEW m \in Mappings, newStates \in Seq(Mappings)
  PROVE  /\ Row(m, Discovered(m)) \in [Symbols -> Jumps]
         /\ RowIs(Row(m, Discovered(m)), m, Discovered(m))
<1> DEFINE known == Discovered(m)
           row == Row(m, known)
<1>1. ASSUME NEW c \in Symbols
      PROVE  /\ row[c] \in Jumps
             /\ NoTarget(Target(m, c)) => row[c] = EndOf(m)
             /\ ~NoTarget(Target(m, c)) =>
                  \E s \in 1..Len(known) : row[c] = NextState(s - 1) /\ known[s] = Target(m, c)
  <2> DEFINE next == Target(m, c)
  <2>0. row[c] = IF NoTarget(next) THEN EndOf(m) ELSE NextState(IndexIn(known, next))
    BY DEF Row, EndOf
  <2>1. CASE NoTarget(next)
    <3>1. row[c] = EndOf(m)
      BY <2>0, <2>1
    <3>2. EndOf(m) \in Jumps
      BY FinalTokensType DEF EndOf, Finish, Jumps
    <3>. QED  BY <2>1, <3>1, <3>2
  <2>2. CASE ~NoTarget(next)
    <3>1. PICK k \in 1..Len(known) : known[k] = next
      BY <2>2, DiscoveredIs
    <3>2. Len(known) \in Nat /\ known \in Seq(Mappings)
      BY DiscoveredIs
    <3>3. DOMAIN known = 1..Len(known)
      <4> HIDE DEF known
      <4>. QED  BY <3>2
    <3> DEFINE s == CHOOSE i \in DOMAIN known : known[i] = next
    <3>4. s \in DOMAIN known /\ known[s] = next
      <4> HIDE DEF known, next
      <4>. QED  BY <3>1, <3>3
    <3>5. row[c] = NextState(s - 1)
      BY <2>0, <2>2 DEF IndexIn
    <3> HIDE DEF s, known, next, row
    <3>6. s \in 1..Len(known) /\ s - 1 \in Nat
      BY <3>2, <3>3, <3>4
    <3>7. row[c] \in Jumps
      BY <3>5, <3>6 DEF NextState, Jumps
    <3>. QED  BY <2>2, <3>4, <3>5, <3>6, <3>7 DEF next
  <2>. QED  BY <2>1, <2>2
<1>2. row \in [Symbols -> Jumps]
  <2>1. row = [c \in Symbols |-> row[c]]
    BY DEF Row
  <2> HIDE DEF row
  <2>. QED  BY <1>1, <2>1
<1>. QED  BY <1>1, <1>2 DEF RowIs

LEMMA NoJumpsType == NoJumps \in [Symbols -> Jumps]
BY DEF NoJumps, NextState, Jumps

LEMMA MergeStart == Closed => Merging(<<FirstMapping>>, <<NoJumps>>, <<0>>)
<1> SUFFICES ASSUME Closed PROVE Merging(<<FirstMapping>>, <<NoJumps>>, <<0>>)
  OBVIOUS
<1>1. FirstMapping \in Mappings
  BY DEF FirstMapping, Mappings, AllNodes, Closed
<1> DEFINE S == <<FirstMapping>>
           R == <<NoJumps>>
           T == <<0>>
<1>2. S \in Seq(Mappings) /\ Len(S) = 1 /\ S[1] = FirstMapping
  BY <1>1
<1>3. R \in Seq([Symbols -> Jumps]) /\ Len(R) = 1 /\ R[1] = NoJumps
  BY NoJumpsType
<1>4. T \in Seq(Nat) /\ Len(T) = 1 /\ T[1] = 0
  OBVIOUS
<1> HIDE DEF S, R, T
<1>5. \A k \in 1..Len(S) : R[k] = NoJumps /\ \E i \in 1..Len(T) : T[i] = k - 1
  BY <1>2, <1>3, <1>4
<1>6. Merging(S, R, T)
  BY <1>2, <1>3, <1>4, <1>5 DEF Merging
<1>. QED  BY <1>6 DEF S, R, T

(* A turn of the loop: the row of the state at the end of the queue is made, *)
(* and the states that are new are queued.                                   *)
Turned(m, at) ==
  [k \in 1..Len(Discovered(m)) |->
     IF k = at THEN Row(m, Discovered(m)) ELSE IF k \in DOMAIN jumps THEN jumps[k] ELSE NoJumps]
Queued(known) ==
  Front(waiting) \o [k \in 1..(Len(known) - Len(newStates)) |-> Len(newStates) + k - 1]

LEMMA MergeTurn ==
  ASSUME CharactersAssumption, Closed, Merging(newStates, jumps, waiting), waiting # <<>>,
         NEW at, at = Last(waiting) + 1, NEW m, m = newStates[at], ~Overlap(m)
  PROVE  Merging(Discovered(m), Turned(m, at), Queued(Discovered(m)))
<1> DEFINE known == Discovered(m)
           rows == Turned(m, at)
           todo == Queued(known)
           n == Len(newStates)
           K == Len(known)
           w == Len(waiting)
<1>1. /\ newStates \in Seq(Mappings) /\ jumps \in Seq([Symbols -> Jumps]) /\ waiting \in Seq(Nat)
      /\ n = Len(jumps) /\ n >= 1 /\ newStates[1] = FirstMapping
      /\ \A i \in 1..w : waiting[i] < n
      /\ \A k \in 1..n :
           \/ jumps[k] = NoJumps /\ \E i \in 1..w : waiting[i] = k - 1
           \/ RowIs(jumps[k], newStates[k], newStates) /\ ~Overlap(newStates[k])
  BY DEF Merging
<1>2. /\ w \in Nat /\ w >= 1 /\ at \in 1..n /\ m \in Mappings
      /\ DOMAIN jumps = 1..n
      /\ \A k \in 1..n : jumps[k] \in [Symbols -> Jumps]
      /\ \A i \in 1..w : waiting[i] \in Nat
  <2>1. w \in Nat /\ w >= 1 /\ \A i \in 1..w : waiting[i] \in Nat
    BY <1>1
  <2>2. waiting[w] \in Nat /\ waiting[w] < n
    BY <1>1, <2>1
  <2>3. n \in Nat /\ at \in 1..n
    BY <1>1, <2>2 DEF Last
  <2>4. m \in Mappings
    BY <1>1, <2>3
  <2>5. DOMAIN jumps = 1..n /\ \A k \in 1..n : jumps[k] \in [Symbols -> Jumps]
    BY <1>1
  <2>. QED  BY <2>1, <2>3, <2>4, <2>5
<1>3. /\ known \in Seq(Mappings) /\ n \in Nat /\ K \in Nat /\ n <= K
      /\ \A k \in 1..n : known[k] = newStates[k]
  BY <1>1, <1>2, DiscoveredIs
<1>4. Row(m, known) \in [Symbols -> Jumps] /\ RowIs(Row(m, known), m, known)
  BY <1>1, <1>2, RowType
<1> DEFINE v(k) == IF k = at THEN Row(m, known) ELSE IF k \in DOMAIN jumps THEN jumps[k]
                   ELSE NoJumps
<1>5. rows = [k \in 1..K |-> v(k)]
  BY DEF Turned
<1>6. \A k \in 1..K : v(k) \in [Symbols -> Jumps]
  BY <1>2, <1>4, NoJumpsType
<1>7. rows \in Seq([Symbols -> Jumps]) /\ Len(rows) = K
  <2> DEFINE X == [Symbols -> Jumps]
  <2>1. \A k \in 1..K : v(k) \in X
    BY <1>6
  <2>2. K \in Nat /\ rows = [k \in 1..K |-> v(k)]
    BY <1>3, <1>5
  <2> HIDE DEF X, v, K, rows
  <2>3. [k \in 1..K |-> v(k)] \in Seq(X) /\ Len([k \in 1..K |-> v(k)]) = K
    BY <2>1, <2>2
  <2>. QED  BY <2>2, <2>3 DEF X
<1> DEFINE fresh == [k \in 1..(K - n) |-> n + k - 1]
<1>8. todo = SubSeq(waiting, 1, w - 1) \o fresh
  BY DEF Queued, Front
<1>9. /\ todo \in Seq(Nat) /\ Len(todo) = (w - 1) + (K - n)
      /\ \A i \in 1..(w - 1) : todo[i] = waiting[i]
      /\ \A i \in 1..(K - n) : todo[(w - 1) + i] = n + i - 1
  <2> DEFINE front == SubSeq(waiting, 1, w - 1)
  <2>1. front \in Seq(Nat) /\ Len(front) = w - 1 /\ \A i \in 1..(w - 1) : front[i] = waiting[i]
    <3> DEFINE e == w - 1
    <3>1. waiting \in Seq(Nat) /\ e \in Nat /\ e <= Len(waiting)
      BY <1>1, <1>2
    <3> HIDE DEF e, w
    <3>2. SubSeq(waiting, 1, e) \in Seq(Nat) /\ Len(SubSeq(waiting, 1, e)) = e
      BY <3>1
    <3>3. \A i \in 1..e : SubSeq(waiting, 1, e)[i] = waiting[i]
      BY <3>1
    <3>. QED  BY <3>2, <3>3 DEF e
  <2>2. fresh \in Seq(Nat) /\ Len(fresh) = K - n /\ \A i \in 1..(K - n) : fresh[i] = n + i - 1
    <3> DEFINE u(k) == n + k - 1
               e == K - n
    <3>1. e \in Nat /\ \A k \in 1..e : u(k) \in Nat
      BY <1>3
    <3> HIDE DEF u, e
    <3>2. [k \in 1..e |-> u(k)] \in Seq(Nat) /\ Len([k \in 1..e |-> u(k)]) = e
      BY <3>1
    <3>. QED  BY <3>2 DEF u, e
  <2> DEFINE e == w - 1
             g == K - n
  <2>3. /\ e \in Nat /\ g \in Nat /\ todo = front \o fresh
        /\ front \in Seq(Nat) /\ Len(front) = e /\ fresh \in Seq(Nat) /\ Len(fresh) = g
    BY <1>2, <1>3, <1>8, <2>1, <2>2
  <2> HIDE DEF front, fresh, todo, e, g
  <2>4. /\ todo \in Seq(Nat) /\ Len(todo) = e + g
        /\ \A i \in 1..e : todo[i] = front[i]
        /\ \A i \in 1..g : todo[e + i] = fresh[i]
    <3>1. todo \in Seq(Nat)
      BY <2>3
    <3>2. Len(todo) = e + g
      <4>1. front \in Seq(Nat) /\ fresh \in Seq(Nat) /\ todo = front \o fresh
        BY <2>3
      <4>2. Len(todo) = Len(front) + Len(fresh)
        BY <4>1
      <4>. QED  BY <2>3, <4>2
    <3>3. \A i \in 1..e : todo[i] = front[i]
      BY <2>3
    <3>4. \A i \in 1..g : todo[e + i] = fresh[i]
      <4>1. front \in Seq(Nat) /\ fresh \in Seq(Nat) /\ todo = front \o fresh
        BY <2>3
      <4>2. \A i \in 1..Len(fresh) : todo[Len(front) + i] = fresh[i]
        BY <4>1
      <4>. QED  BY <2>3, <4>2
    <3>. QED  BY <3>1, <3>2, <3>3, <3>4
  <2>. QED  BY <2>1, <2>2, <2>4 DEF e, g
<1> HIDE DEF known, rows, todo, fresh
<1>10. ASSUME NEW i \in 1..Len(todo) PROVE todo[i] < K
  <2>1. CASE i \in 1..(w - 1)
    <3>1. i \in 1..w
      BY <1>2, <2>1
    <3>2. todo[i] = waiting[i] /\ waiting[i] < n /\ waiting[i] \in Nat
      BY <1>1, <1>2, <1>9, <2>1, <3>1
    <3>. QED  BY <1>3, <3>2
  <2>2. CASE i \notin 1..(w - 1)
    <3> DEFINE j == i - (w - 1)
    <3>1. j \in 1..(K - n) /\ (w - 1) + j = i
      BY <1>2, <1>3, <1>9, <2>2
    <3> HIDE DEF j
    <3>2. todo[i] = n + j - 1
      BY <1>9, <3>1
    <3>. QED  BY <1>3, <3>1, <3>2
  <2>. QED  BY <2>1, <2>2
<1>11. ASSUME NEW k \in 1..n, RowIs(jumps[k], newStates[k], newStates)
       PROVE  RowIs(jumps[k], known[k], known)
  <2>1. known[k] = newStates[k]
    BY <1>3
  <2>2. \A s \in 1..n : s \in 1..K /\ known[s] = newStates[s]
    BY <1>3
  <2>. QED  BY <1>11, <2>1, <2>2 DEF RowIs
<1>12. ASSUME NEW k \in 1..K
       PROVE  \/ rows[k] = NoJumps /\ \E i \in 1..Len(todo) : todo[i] = k - 1
              \/ RowIs(rows[k], known[k], known) /\ ~Overlap(known[k])
  <2>0. rows[k] = v(k)
    BY <1>5
  <2>1. CASE k = at
    BY <1>2, <1>3, <1>4, <2>0, <2>1
  <2>2. CASE k # at /\ k \in 1..n
    <3>1. rows[k] = jumps[k] /\ known[k] = newStates[k]
      BY <1>2, <1>3, <2>0, <2>2
    <3>2. CASE RowIs(jumps[k], newStates[k], newStates) /\ ~Overlap(newStates[k])
      BY <1>11, <2>2, <3>1, <3>2
    <3>3. CASE jumps[k] = NoJumps /\ \E i \in 1..w : waiting[i] = k - 1
      <4>1. PICK i \in 1..w : waiting[i] = k - 1
        BY <3>3
      <4>2. i # w
        BY <2>2, <4>1 DEF Last
      <4>3. i \in 1..(w - 1) /\ i \in 1..Len(todo)
        BY <1>2, <1>3, <1>9, <4>2
      <4>4. todo[i] = k - 1
        BY <1>9, <4>1, <4>3
      <4>. QED  BY <3>1, <3>3, <4>3, <4>4
    <3>. QED  BY <1>1, <2>2, <3>2, <3>3
  <2>3. CASE k \notin 1..n
    <3>1. rows[k] = NoJumps
      BY <1>2, <2>0, <2>3
    <3> DEFINE j == k - n
               i == (w - 1) + j
    <3>2. j \in 1..(K - n) /\ n + j - 1 = k - 1
      BY <1>2, <1>3, <2>3
    <3>a. i \in 1..Len(todo)
      <4> DEFINE l == Len(todo)
      <4>1. l = (w - 1) + (K - n)
        BY <1>9
      <4> HIDE DEF j, l, w, K, n
      <4>. QED  BY <1>2, <1>3, <3>2, <4>1 DEF l
    <3>3. todo[i] = n + j - 1
      BY <1>9, <3>2
    <3>. QED  BY <3>1, <3>2, <3>a, <3>3
  <2>. QED  BY <1>2, <2>1, <2>2, <2>3
<1>13. K >= 1 /\ known[1] = FirstMapping
  BY <1>1, <1>3
<1>14. Merging(known, rows, todo)
  <2> HIDE DEF v
  <2>. QED  BY <1>3, <1>7, <1>9, <1>10, <1>12, <1>13 DEF Merging
<1>. QED  BY <1>14 DEF known, rows, todo

-----------------------------------------------------------------------------
(* The compacted table.  Each of its rows still stands for a state of the    *)
(* merged automaton.                                                         *)

(* What a row has for a symbol that leads its state to another: the end of a *)
(* token, the row of that state, or the end of a token that ends there.      *)
JumpIs(label, jump, from, to) ==
  \/ NoTarget(to) /\ jump = EndOf(from)
  \/ /\ ~NoTarget(to)
     /\ jump.kind = "next" /\ jump.state + 1 \in DOMAIN label /\ label[jump.state + 1] = to
  \/ /\ ~NoTarget(to) /\ FinalTokens(to) # {} /\ ~Overlap(to)
     /\ \A c \in Symbols : NoTarget(Target(to, c))
     /\ jump = Finish(0, Max(FinalTokens(to)))

Labelled(rows, label) ==
  /\ rows \in Seq([Symbols -> Jumps]) /\ label \in Seq(Mappings) /\ Len(label) = Len(rows)
  /\ Startable => Len(rows) >= 1 /\ label[1] = FirstMapping
  /\ \A k \in 1..Len(rows) :
       /\ ~Overlap(label[k])
       /\ FinalTokens(label[k]) # {} => \E c \in Symbols : ~NoTarget(Target(label[k], c))
       /\ \A c \in Symbols : JumpIs(label, rows[k][c], label[k], Target(label[k], c))

LEMMA CompactedIs ==
  ASSUME CharactersAssumption, Closed, NEW states, NEW rows, Merging(states, rows, <<>>)
  PROVE  \E label : Labelled(Compacted(rows), label)
<1> DEFINE n == Len(rows)
           S == Kept(rows)
           d == Cardinality(S)
           kept == Ordered(S)
           table(i) == [c \in Symbols |->
                          LET jump == rows[kept[i]][c]
                          IN  IF jump.kind = "next" THEN Mapped(rows, jump.state) ELSE jump]
           tb == Compacted(rows)
           label == [i \in 1..d |-> states[kept[i]]]
<1>1. /\ states \in Seq(Mappings) /\ rows \in Seq([Symbols -> Jumps])
      /\ n \in Nat /\ Len(states) = n /\ n >= 1 /\ states[1] = FirstMapping
      /\ DOMAIN rows = 1..n
      /\ \A k \in 1..n : states[k] \in Mappings /\ rows[k] \in [Symbols -> Jumps]
      /\ \A k \in 1..n : RowIs(rows[k], states[k], states) /\ ~Overlap(states[k])
  <2>1. Len(<<>>) = 0
    OBVIOUS
  <2>2. /\ states \in Seq(Mappings) /\ rows \in Seq([Symbols -> Jumps])
        /\ Len(states) = n /\ n >= 1 /\ states[1] = FirstMapping
        /\ \A k \in 1..n : RowIs(rows[k], states[k], states) /\ ~Overlap(states[k])
    BY <2>1 DEF Merging
  <2>3. n \in Nat /\ DOMAIN rows = 1..n
    BY <2>2
  <2>4. \A k \in 1..n : states[k] \in Mappings /\ rows[k] \in [Symbols -> Jumps]
    BY <2>2
  <2>. QED  BY <2>2, <2>3, <2>4
<1>2. S \subseteq 1..n /\ \A k \in 1..n : k \in S <=> ~CanCompactNode(rows[k])
  BY <1>1 DEF Kept
<1>3. /\ d \in Nat /\ DOMAIN kept = 1..d
      /\ \A x \in S : /\ Rank(S, x) \in 1..d /\ kept[Rank(S, x)] = x
                      /\ Rank(S, x - 1) = Rank(S, x) - 1
      /\ \A k \in 1..d : kept[k] \in S
  <2>1. n \in Nat /\ S \subseteq 1..n
    BY <1>1, <1>2
  <2> HIDE DEF S, n
  <2>. QED  BY <2>1, OrderedIs
<1>4. tb = [i \in 1..d |-> table(i)]
  BY <1>3 DEF Compacted
(* A row that is left out ends the token of its state. *)
<1>5. ASSUME NEW k \in 1..n, CanCompactNode(rows[k])
      PROVE  /\ FinalTokens(states[k]) # {}
             /\ \A c \in Symbols : NoTarget(Target(states[k], c))
             /\ rows[k][Eof] = Finish(1, Max(FinalTokens(states[k])))
  <2>1. Eof \in Symbols /\ states[k] \in Mappings /\ RowIs(rows[k], states[k], states)
    BY <1>1, CharactersType
  <2>2. NoTarget(Target(states[k], Eof))
    BY <2>1, TargetType
  <2>3. rows[k][Eof] = EndOf(states[k]) /\ rows[k][Eof].kind = "finish"
        /\ \A c \in Symbols : rows[k][c] = rows[k][Eof]
    BY <1>5, <2>1, <2>2 DEF RowIs, CanCompactNode
  <2>4. FinalTokens(states[k]) # {} /\ rows[k][Eof] = Finish(1, Max(FinalTokens(states[k])))
    BY <2>3 DEF EndOf, Reject
  <2>5. ASSUME NEW c \in Symbols, ~NoTarget(Target(states[k], c)) PROVE FALSE
    <3>1. PICK s \in 1..Len(states) : rows[k][c] = NextState(s - 1)
      BY <2>1, <2>5 DEF RowIs
    <3>2. rows[k][c].kind = "next"
      BY <3>1 DEF NextState
    <3>. QED  BY <2>3, <3>2
  <2>. QED  BY <2>4, <2>5
<1>6. ASSUME NEW s \in 1..n
      PROVE  \/ /\ CanCompactNode(rows[s])
                /\ Mapped(rows, s - 1) = Finish(0, Max(FinalTokens(states[s])))
             \/ /\ s \in S
                /\ Rank(S, s) \in 1..d /\ kept[Rank(S, s)] = s
                /\ Mapped(rows, s - 1) = NextState(Rank(S, s) - 1)
  <2>1. (s - 1) + 1 = s
    OBVIOUS
  <2>2. CASE CanCompactNode(rows[s])
    <3>1. Mapped(rows, s - 1) = Finish(rows[s][Eof].shift - 1, rows[s][Eof].token)
      BY <2>1, <2>2 DEF Mapped
    <3>2. rows[s][Eof].shift = 1 /\ rows[s][Eof].token = Max(FinalTokens(states[s]))
      <4> DEFINE token == Max(FinalTokens(states[s]))
      <4>1. rows[s][Eof] = Finish(1, token)
        BY <1>5, <2>2
      <4> HIDE DEF token
      <4>2. rows[s][Eof].shift = 1 /\ rows[s][Eof].token = token
        BY <4>1 DEF Finish
      <4>. QED  BY <4>2 DEF token
    <3>3. rows[s][Eof].shift - 1 = 0
      BY <3>2
    <3>. QED  BY <2>2, <3>1, <3>2, <3>3
  <2>3. CASE ~CanCompactNode(rows[s])
    <3>1. s \in S
      BY <1>2, <2>3
    <3>2. Mapped(rows, s - 1) = NextState(Rank(S, s - 1))
      BY <2>1, <2>3 DEF Mapped
    <3> HIDE DEF S
    <3>. QED  BY <1>3, <3>1, <3>2
  <2>. QED  BY <2>2, <2>3
<1>7. ASSUME NEW i \in 1..d
      PROVE  kept[i] \in 1..n /\ label[i] = states[kept[i]] /\ tb[i] = table(i)
             /\ label[i] \in Mappings
  <2>1. kept[i] \in 1..n
    BY <1>2, <1>3
  <2>. QED  BY <1>1, <1>4, <2>1
<1>8. label \in Seq(Mappings) /\ Len(label) = d /\ DOMAIN label = 1..d
  <2> DEFINE X == Mappings
             v(i) == states[kept[i]]
  <2>1. \A i \in 1..d : v(i) \in X
    BY <1>7
  <2> HIDE DEF X, v, d
  <2>2. [i \in 1..d |-> v(i)] \in Seq(X) /\ Len([i \in 1..d |-> v(i)]) = d
    BY <1>3, <2>1
  <2>. QED  BY <2>2 DEF X, v
<1>9. ASSUME NEW i \in 1..d, NEW c \in Symbols
      PROVE  /\ tb[i][c] \in Jumps
             /\ JumpIs(label, tb[i][c], label[i], Target(label[i], c))
  <2> DEFINE k == kept[i]
             from == states[k]
             to == Target(from, c)
             jump == rows[k][c]
  <2>1. k \in 1..n /\ label[i] = from /\ from \in Mappings /\ jump \in Jumps
        /\ tb[i][c] = IF jump.kind = "next" THEN Mapped(rows, jump.state) ELSE jump
    <3>1. k \in 1..n /\ label[i] = from /\ tb[i] = table(i)
      BY <1>7
    <3>2. states[k] \in Mappings /\ rows[k] \in [Symbols -> Jumps]
      BY <1>1, <3>1
    <3>3. from \in Mappings /\ jump \in Jumps
      BY <3>2
    <3>4. tb[i][c] = IF jump.kind = "next" THEN Mapped(rows, jump.state) ELSE jump
      BY <3>1
    <3>. QED  BY <3>1, <3>3, <3>4
  <2>2. RowIs(rows[k], from, states)
    BY <1>1, <2>1
  <2>3. CASE NoTarget(to)
    <3>1. jump = EndOf(from)
      BY <2>2, <2>3 DEF RowIs
    <3>2. jump.kind # "next"
      BY <3>1 DEF EndOf, Finish, Reject
    <3>3. tb[i][c] = jump
      BY <2>1, <3>2
    <3>. QED  BY <2>1, <2>3, <3>1, <3>3 DEF JumpIs
  <2>4. CASE ~NoTarget(to)
    <3>1. PICK s \in 1..n : jump = NextState(s - 1) /\ states[s] = to
      BY <1>1, <2>2, <2>4 DEF RowIs
    <3>2. tb[i][c] = Mapped(rows, s - 1)
      BY <2>1, <3>1 DEF NextState
    <3>3. CASE CanCompactNode(rows[s]) /\ Mapped(rows, s - 1) = Finish(0, Max(FinalTokens(to)))
      <4>1. FinalTokens(to) # {} /\ ~Overlap(to) /\ \A e \in Symbols : NoTarget(Target(to, e))
        BY <1>1, <1>5, <3>1, <3>3
      <4>2. to \in Mappings
        BY <1>1, <3>1
      <4>3. Max(FinalTokens(to)) \in Nat
        <5> HIDE DEF to
        <5>. QED  BY <4>1, <4>2, FinalTokensType
      <4>4. tb[i][c] = Finish(0, Max(FinalTokens(to)))
        BY <3>2, <3>3
      <4> HIDE DEF to
      <4>5. Finish(0, Max(FinalTokens(to))) \in Jumps
        BY <4>3 DEF Finish, Jumps
      <4>. QED  BY <2>1, <2>4, <4>1, <4>4, <4>5 DEF JumpIs, to
    <3>4. CASE Rank(S, s) \in 1..d /\ kept[Rank(S, s)] = s
               /\ Mapped(rows, s - 1) = NextState(Rank(S, s) - 1)
      <4> DEFINE r == Rank(S, s)
      <4>1. r \in 1..d /\ label[r] = to /\ tb[i][c] = NextState(r - 1)
        BY <1>7, <3>1, <3>2, <3>4
      <4> HIDE DEF r, to, label, tb, d
      <4>2. r - 1 \in Nat /\ (r - 1) + 1 = r
        BY <1>3, <4>1
      <4>3. tb[i][c] \in Jumps
        BY <4>1, <4>2 DEF NextState, Jumps
      <4>4. tb[i][c].kind = "next" /\ tb[i][c].state = r - 1
        BY <4>1 DEF NextState
      <4>. QED  BY <1>8, <2>1, <2>4, <4>1, <4>2, <4>3, <4>4 DEF JumpIs, to
    <3>. QED  BY <1>6, <3>1, <3>3, <3>4
  <2>. QED  BY <2>3, <2>4
<1>10. tb \in Seq([Symbols -> Jumps]) /\ Len(tb) = d
  <2> DEFINE X == [Symbols -> Jumps]
  <2>1. ASSUME NEW i \in 1..d PROVE table(i) \in X
    <3>1. tb[i] = table(i) /\ \A c \in Symbols : tb[i][c] \in Jumps
      BY <1>7, <1>9
    <3>. QED  BY <3>1
  <2> HIDE DEF X, table, d, tb
  <2>. QED  BY <1>3, <1>4, <2>1 DEF X
<1>11. ASSUME NEW i \in 1..d
       PROVE  /\ ~Overlap(label[i])
              /\ FinalTokens(label[i]) # {} => \E c \in Symbols : ~NoTarget(Target(label[i], c))
  <2> DEFINE k == kept[i]
  <2>1. k \in S /\ k \in 1..n /\ label[i] = states[k]
    BY <1>3, <1>7
  <2>2. ~Overlap(states[k]) /\ RowIs(rows[k], states[k], states) /\ ~CanCompactNode(rows[k])
    BY <1>1, <1>2, <2>1
  <2>3. ASSUME FinalTokens(states[k]) # {}, \A c \in Symbols : NoTarget(Target(states[k], c))
        PROVE  FALSE
    <3>1. \A c \in Symbols : rows[k][c] = Finish(1, Max(FinalTokens(states[k])))
      BY <2>2, <2>3 DEF RowIs, EndOf
    <3>2. Eof \in Symbols
      BY CharactersType
    <3>3. CanCompactNode(rows[k])
      BY <3>1, <3>2 DEF CanCompactNode, Finish
    <3>. QED  BY <2>2, <3>3
  <2>. QED  BY <2>1, <2>2, <2>3
<1>12. ASSUME Startable PROVE d >= 1 /\ label[1] = FirstMapping
  <2>1. PICK c \in Symbols : ~NoTarget(Target(FirstMapping, c))
    BY <1>12 DEF Startable
  <2>2. 1 \in 1..n /\ ~CanCompactNode(rows[1])
    <3>1. 1 \in 1..n /\ states[1] = FirstMapping
      BY <1>1
    <3>2. ~NoTarget(Target(states[1], c))
      BY <2>1, <3>1
    <3>. QED  BY <1>5, <3>1, <3>2
  <2>3. 1 \in S
    BY <1>2, <2>2
  <2>4. Rank(S, 0) = 0
    <3> HIDE DEF S
    <3>. QED  BY <1>1, <1>2, RankStep
  <2>5. Rank(S, 1) \in 1..d /\ kept[Rank(S, 1)] = 1 /\ Rank(S, 1 - 1) = Rank(S, 1) - 1
    BY <1>3, <2>3
  <2> DEFINE r == Rank(S, 1)
  <2>6. r \in 1..d /\ kept[r] = 1 /\ r - 1 = 0
    BY <2>4, <2>5
  <2> HIDE DEF r, d
  <2>7. r = 1 /\ d >= 1 /\ 1 \in 1..d
    BY <1>3, <2>6
  <2>. QED  BY <1>1, <1>7, <2>6, <2>7 DEF d
<1> HIDE DEF tb, label, d, S, kept
<1>13. Labelled(tb, label)
  BY <1>8, <1>9, <1>10, <1>11, <1>12 DEF Labelled
<1>. QED  BY <1>13 DEF tb
=============================================================================
