--------------------------- MODULE FiniteAutomata ---------------------------
(* From a regular expression to the automaton of a token: the visitor of     *)
(* NonDeterministicFiniteAutomata.cpp, the two conversions of                *)
(* automata/parts and remove_dead_ends.                                      *)
EXTENDS Regex, FiniteSetsExt

(* A nondeterministic automaton: its number of nodes 0 .. size - 1, the      *)
(* start node, the final ones, and the jumps <<from, symbol, to>>.           *)
Empty == "empty"   \* kEmptyJumpSymbol
Fragment(size, start, final, jumps) ==
  [size |-> size, start |-> start, final |-> final, jumps |-> jumps]

(* The same automaton with its nodes numbered from k on. *)
Shifted(a, k) ==
  Fragment(a.size, a.start + k, {n + k : n \in a.final},
           {<<j[1] + k, j[2], j[3] + k>> : j \in a.jumps})

EmptyJumps(from, to) == {<<f, Empty, to>> : f \in from}

(* Mutant: the end of file is in every negated class. *)
MatchingWithEof(match) == Fragment(2, 0, {1}, {<<0, c, 1>> : c \in match})

Matching(match) == Fragment(2, 0, {1}, {<<0, c, 1>> : c \in match \ {Eof}})

Concatenated(a, b) ==
  Fragment(a.size + b.size, a.start, b.final,
           a.jumps \cup b.jumps \cup EmptyJumps(a.final, b.start))

Either(a, b) ==
  LET front == a.size + b.size
  IN  Fragment(front + 1, front, a.final \cup b.final,
               a.jumps \cup b.jumps \cup EmptyJumps({front}, a.start)
                                    \cup EmptyJumps({front}, b.start))

AnyTimes(a) ==
  LET front == a.size
  IN  Fragment(front + 1, front, {front},
               a.jumps \cup EmptyJumps({front}, a.start) \cup EmptyJumps(a.final, front))

(* Mutant: the automaton starts at the bridge. *)
AtLeastNone(a, b) ==
  LET bridge == a.size + b.size
  IN  Fragment(bridge + 2, bridge, {bridge},
               a.jumps \cup b.jumps \cup EmptyJumps(a.final, bridge)
                       \cup EmptyJumps({bridge}, b.start) \cup EmptyJumps(b.final, bridge))

(* Two copies with a bridge between them. *)
AtLeastOnce(a, b) ==
  LET bridge == a.size + b.size
      start == bridge + 1
  IN  Fragment(start + 1, start, {bridge},
               a.jumps \cup b.jumps \cup EmptyJumps({start}, a.start)
                       \cup EmptyJumps(a.final, bridge) \cup EmptyJumps({bridge}, b.start)
                       \cup EmptyJumps(b.final, bridge))

RECURSIVE NonDeterministic(_)
NonDeterministic(node) ==
  CASE node[1] = "symbol" -> Matching(node[2])
    [] node[1] = "concatenation" ->
         LET left == NonDeterministic(node[2])
         IN  Concatenated(left, Shifted(NonDeterministic(node[3]), left.size))
    [] node[1] = "or" ->
         LET left == NonDeterministic(node[2])
         IN  Either(left, Shifted(NonDeterministic(node[3]), left.size))
    [] node[1] = "star" -> AnyTimes(NonDeterministic(node[2]))
    [] node[1] = "plus" ->
         LET child == NonDeterministic(node[2])
         IN  AtLeastOnce(child, Shifted(child, child.size))

-----------------------------------------------------------------------------
(* NonDeterministicToDeterministic.cpp.                                      *)

(* do_empty_jumps. *)
RECURSIVE EmptyClosure(_, _)
EmptyClosure(a, members) ==
  LET next == members \cup {j[3] : j \in {k \in a.jumps : k[1] \in members /\ k[2] = Empty}}
  IN  IF next = members THEN members ELSE EmptyClosure(a, next)

AfterJump(a, members, symbol) ==
  EmptyClosure(a, {j[3] : j \in {k \in a.jumps : k[1] \in members /\ k[2] = symbol}})

(* The sets of nodes in the order they are numbered: from each in turn, by   *)
(* the symbols in order.  The empty set is a node like any other.            *)
RECURSIVE Explored(_, _, _)
Explored(a, found, i) ==
  LET Add(known, symbol) ==
        LET target == AfterJump(a, found[i], symbol)
        IN  IF target \in ToSet(known) THEN known ELSE Append(known, target)
  IN  IF i > Len(found) THEN found
      ELSE Explored(a, FoldLeft(Add, found, Characters), i + 1)

(* A deterministic automaton is a function from its nodes 0 .. n - 1. *)
DNode(isFinal, jumps) == [is_final |-> isFinal, jumps |-> jumps]
InOrder(d) == [i \in 1..Cardinality(DOMAIN d) |-> i - 1]
Ascending(d, nodes) == SelectSeq(InOrder(d), LAMBDA i : i \in nodes)
FinalNodes(d) == {i \in DOMAIN d : d[i].is_final}

Deterministic(a) ==
  LET found == Explored(a, <<EmptyClosure(a, {a.start})>>, 1)
  IN  [i \in 0..(Len(found) - 1) |->
         DNode(found[i + 1] \cap a.final # {},
               [c \in Symbols |-> IndexIn(found, AfterJump(a, found[i + 1], c))])]

-----------------------------------------------------------------------------
(* DeterministicToMinimal.cpp.                                               *)

Pairs(d) == {<<m, n>> : m \in DOMAIN d, n \in DOMAIN d}

RECURSIVE Separated(_, _)
Separated(d, pairs) ==
  LET next == pairs \cup {p \in Pairs(d) :
                            \E c \in Symbols :
                              <<d[p[1]].jumps[c], d[p[2]].jumps[c]>> \in pairs}
  IN  IF next = pairs THEN pairs ELSE Separated(d, next)

(* The nodes that are told apart by some word. *)
Distinguishable(d) ==
  Separated(d, {p \in Pairs(d) : d[p[1]].is_final # d[p[2]].is_final})

(* Mutant: every node stays. *)
EveryNode(d, apart) == InOrder(d)

(* Not to be told apart is an equivalence, so the representatives, which are *)
(* told apart from all representatives before, are told apart from all nodes *)
(* before.                                                                   *)
Representatives(d, apart) ==
  Ascending(d, {i \in DOMAIN d : \A j \in 0..(i - 1) : <<i, j>> \in apart})

ClassOf(d, apart, representatives, i) ==
  IndexIn(representatives, Min({j \in DOMAIN d : <<i, j>> \notin apart}))

Merged(d, apart, representatives) ==
  [k \in 0..(Len(representatives) - 1) |->
     DNode(d[representatives[k + 1]].is_final,
           [c \in Symbols |->
              ClassOf(d, apart, representatives, d[representatives[k + 1]].jumps[c])])]

(* get_minimal. *)
Minimal(d) ==
  LET apart == Distinguishable(d) IN Merged(d, apart, Representatives(d, apart))

-----------------------------------------------------------------------------
(* remove_dead_ends.                                                         *)

(* The predecessors of a node that one scan finds: it ends at the first node *)
(* that is known to be alive.  A node is queued once here; the code queues   *)
(* it once per symbol, and the further scans find nothing new.               *)
Found(d, node, alive) ==
  {i \in DOMAIN d : (0..i) \cap alive = {} /\ \E c \in Symbols : d[i].jumps[c] = node}

RECURSIVE Alive(_, _, _)
Alive(d, stack, alive) ==
  IF stack = <<>> THEN alive
  ELSE LET new == Found(d, Last(stack), alive)
       IN  Alive(d, Front(stack) \o Ascending(d, new), alive \cup new)

(* Mutant: the jumps keep the old numbers. *)
RestrictedUnmapped(d, kept) ==
  [k \in 0..(Len(kept) - 1) |-> d[kept[k + 1]]]

(* Mutant: jumps to what was removed go to the first node. *)
RestrictedToFirst(d, kept) ==
  [k \in 0..(Len(kept) - 1) |->
     DNode(d[kept[k + 1]].is_final,
           [c \in Symbols |->
              IF d[kept[k + 1]].jumps[c] \in ToSet(kept)
              THEN IndexIn(kept, d[kept[k + 1]].jumps[c]) ELSE 0])]

Restricted(d, kept) ==
  [k \in 0..(Len(kept) - 1) |->
     DNode(d[kept[k + 1]].is_final,
           [c \in Symbols |->
              IF d[kept[k + 1]].jumps[c] \in ToSet(kept)
              THEN IndexIn(kept, d[kept[k + 1]].jumps[c]) ELSE NoNode])]

WithoutDeadEnds(d) ==
  Restricted(d, Ascending(d, Alive(d, Ascending(d, FinalNodes(d)), FinalNodes(d))))
=============================================================================
