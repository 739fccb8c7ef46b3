----------------------------- MODULE Analyses -----------------------------
(* The analyses the passes ask the pass manager for: dominators and natural  *)
(* loops, live values, and the equalities that moves establish.              *)
EXTENDS IR

(* find_dominators: from every block for every block, the intersection over  *)
(* the parents until nothing changes.  The first block starts from itself,   *)
(* but is visited first, when its parents, if it has any, still have every   *)
(* block.  Blocks that are not reached are not visited.                      *)
RECURSIVE DominatorsFrom(_, _)
DominatorsFrom(fn, doms) ==
  LET Meet(b) == LET from == {doms[p] : p \in ToSet(Parents(fn, b))}
                 IN {b} \cup {d \in UNION from : \A s \in from : d \in s}
      next == [b \in Blocks(fn) |-> IF b \in ReachableFrom(fn, {fn.begin}) THEN Meet(b) ELSE doms[b]]
  IN IF next = doms THEN doms ELSE DominatorsFrom(fn, next)

FindDominators(fn) == DominatorsFrom(fn, [b \in Blocks(fn) |-> Blocks(fn)])

(* mark_loop_recursively: what reaches a block without passing the header.   *)
RECURSIVE MarkLoop(_, _, _)
MarkLoop(fn, header, marked) ==
  LET next == marked \cup (UNION {ToSet(Parents(fn, b)) : b \in marked} \ {header})
  IN IF next = marked THEN marked ELSE MarkLoop(fn, header, next)

(* The loop of the edges from ends to a header; without one it is empty.     *)
LoopOf(fn, header, ends) ==
  [header |-> header, blocks |-> IF ends = {} THEN {} ELSE MarkLoop(fn, header, ends \ {header}) \cup {header}]

ExitBlocks(fn, loop) == {b \in loop.blocks : ToSet(fn.children[b]) \ loop.blocks # {}}

(* One loop for each edge to a block that dominates its start.               *)
FindNaturalLoops(fn, doms) ==
  FlattenSeq([k \in DOMAIN fn.order |->
    LET b == fn.order[k]
        back == SelectSeq(fn.children[b], LAMBDA c : c \in doms[b])
    IN [e \in DOMAIN back |-> LoopOf(fn, back[e], {b})]])

(* update_loops_information: the loops again, all edges to a header joined.  *)
(* Their headers are blocks of the function (Dangling in LoopRotation).      *)
UpdateLoops(fn, loops) ==
  LET doms == FindDominators(fn)
  IN [k \in DOMAIN loops |->
        LoopOf(fn, loops[k].header,
               {p \in ToSet(Parents(fn, loops[k].header)) : loops[k].header \in doms[p]})]

Dominators(fn) ==
  LET doms == FindDominators(fn) IN [dominators |-> doms, loops |-> FindNaturalLoops(fn, doms)]

--------------------------------------------------------------------------
(* phi_values: which parent the value of a phi comes from.  transfer goes    *)
(* backwards through a block and emplace keeps the first it meets.           *)
PhiValue(fn, value, b) ==
  LET code == fn.code[b]
      using == {k \in DOMAIN code : IsPhi(code[k]) /\ value \in ToSet(code[k].arguments)}
  IN IF using = {} THEN {}
     ELSE LET phi == code[Max(using)]
          IN {phi.origins[Min({a \in DOMAIN phi.arguments : phi.arguments[a] = value})]}

Transfer(i, after) == (after \ {i.result}) \cup UsedTemporaries(i)

(* Position k holds the values live before instruction k, which are those    *)
(* live after instruction k - 1.                                             *)
LiveThrough(code, after) ==
  FoldRight(LAMBDA i, points : <<Transfer(i, points[1])>> \o points, code, <<after>>)

Meet(fn, b, live) ==
  {v \in UNION {live[c][1] : c \in ToSet(fn.children[b])} :
     \E c \in ToSet(fn.children[b]) : v \in live[c][1] /\ PhiValue(fn, v, c) \subseteq {b}}

RECURSIVE LivenessFrom(_, _)
LivenessFrom(fn, live) ==
  LET next == [b \in Blocks(fn) |-> LiveThrough(fn.code[b], Meet(fn, b, live))]
  IN IF next = live THEN live ELSE LivenessFrom(fn, next)

Liveness(fn) == LivenessFrom(fn, [b \in Blocks(fn) |-> [k \in 1..Len(fn.code[b]) + 1 |-> {}]])

(* A move makes its result equal to what it moves, or to what that is        *)
(* already known to be equal to.                                             *)
AddEquality(known, i) ==
  IF i.op # "move" \/ i.result \in DOMAIN known THEN known
  ELSE known @@ (i.result :> Replaced(i.arguments[1], known))

Equalities(fn) ==
  FoldLeft(AddEquality, <<>>, FlattenSeq([k \in DOMAIN fn.order |-> fn.code[fn.order[k]]]))
===========================================================================
