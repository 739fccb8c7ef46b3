------------------------------ MODULE Passes ------------------------------
(* What each pass does to a function.  Every operator returns the function   *)
(* and whether the pass reports a change, to which the base classes react    *)
(* (PassManager), and how it ended: the rotation of loops may throw.         *)
EXTENDS Analyses

Outcome(fn, changed) == [function |-> fn, changed |-> changed, ends |-> "done"]

--------------------------------------------------------------------------
(* Common subexpression elimination: a later instruction of the block that   *)
(* equals an earlier one goes, and its result is renamed everywhere.         *)
EraseAt(fn, b, k) == [fn EXCEPT !.code[b] = RemoveAt(@, k)]

RECURSIVE Eliminate(_, _, _, _)
Eliminate(fn, b, first, second) ==
  LET code == fn.code[b] IN
  IF first > Len(code) THEN fn
  ELSE IF second > Len(code) THEN Eliminate(fn, b, first + 1, first + 2)
  ELSE IF SameInstruction(code[first], code[second])
    THEN Eliminate(ReplaceInFunction(EraseAt(fn, b, second), code[second].result :> code[first].result),
                   b, first, second)
  ELSE Eliminate(fn, b, first, second + 1)

CommonElimination(fn, b) ==
  LET result == Eliminate(fn, b, 1, 2) IN Outcome(result, result # fn)

--------------------------------------------------------------------------
(* Constant propagation; a move of a constant counts as a change again.      *)
Constants(i) == \A a \in ToSet(i.arguments) : a[1] = "constant"
Calculable(i) == i.op \in {"add", "sub", "move", "select"} /\ Constants(i)

Calculated(i) ==
  IF Calculable(i) THEN Move(i.result, Constant(Compute(i, [k \in DOMAIN i.arguments |-> i.arguments[k][2]])))
  ELSE i

ConstantPropagation(fn, b) ==
  Outcome([fn EXCEPT !.code[b] = [k \in DOMAIN @ |-> Calculated(@[k])]],
          \E i \in ToSet(fn.code[b]) : Calculable(i))

--------------------------------------------------------------------------
(* SSAMoveErasure: what a move is equal to replaces it in the other          *)
(* instructions.                                                             *)
SSAMoveErasure(fn, b, equalities) ==
  LET Rewritten(i) == IF i.op = "move" THEN i ELSE ReplaceValues(i, equalities)
      code == [k \in DOMAIN fn.code[b] |-> Rewritten(fn.code[b][k])]
      touched == {i \in ToSet(fn.code[b]) : i.op # "move" /\
                    (ToSet(i.arguments) \cup {i.result}) \cap DOMAIN equalities # {}}
  IN Outcome([fn EXCEPT !.code[b] = code], touched # {})

(* SillyMoveErasure: the equality storage pairs a value with at most one     *)
(* greater value, in some order of the values; a call forgets every pair.    *)
Rank(value) == <<CASE value[1] = "basic" -> 1 [] value[1] = "saved" -> 2 [] value[1] = "virtual" -> 3
                   [] OTHER -> 4, value[2]>>
Smaller(v, w) == Rank(v)[1] < Rank(w)[1] \/ (Rank(v)[1] = Rank(w)[1] /\ v[2] < w[2])
Sorted(v, w) == IF Smaller(w, v) THEN <<w, v>> ELSE <<v, w>>

SetEqual(pairs, v, w) ==
  IF v = w THEN pairs ELSE {p \in pairs : p[1] # Sorted(v, w)[1]} \cup {Sorted(v, w)}
Forget(pairs, v) == {p \in pairs : v \notin {p[1], p[2]}}
KnownEqual(pairs, v, w) == v = w \/ Sorted(v, w) \in pairs

EraseSillyMove(done, i) ==
  LET left == IF HasReturnValue(i) THEN Forget(done.pairs, i.result) ELSE done.pairs
      Keep(pairs) == [code |-> Append(done.code, i), pairs |-> pairs]
  IN CASE i.op = "call" -> Keep({})
       [] i.op = "move" /\ KnownEqual(left, i.result, i.arguments[1]) -> [done EXCEPT !.pairs = left]
       [] i.op = "move" -> Keep(SetEqual(left, i.result, i.arguments[1]))
       [] OTHER -> Keep(left)

SillyMoveErasure(fn, b) ==
  LET code == FoldLeft(EraseSillyMove, [code |-> <<>>, pairs |-> {}], fn.code[b]).code
  IN Outcome([fn EXCEPT !.code[b] = code], code # fn.code[b])

--------------------------------------------------------------------------
(* UnusedTemporariesElimination: an instruction goes when its result is not  *)
(* live after it, a call too.                                                *)
Unused(i, after) == HasReturnValue(i) /\ i.result \notin after

UnusedTemporariesElimination(fn, live) ==
  LET Left(b) == LET code == fn.code[b]
                     kept == SelectSeq([k \in DOMAIN code |-> k], LAMBDA k : ~Unused(code[k], live[b][k + 1]))
                 IN [k \in DOMAIN kept |-> code[kept[k]]]
      code == [b \in Blocks(fn) |-> Left(b)]
  IN Outcome([fn EXCEPT !.code = code], code # fn.code)

--------------------------------------------------------------------------
(* PhiElimination: the n-th phi of the function, in the order of the blocks, *)
(* gets a temporary of its own, which each parent assigns before it leaves   *)
(* and the block of the phi moves to the result.                             *)
Phis(fn) ==
  FlattenSeq([n \in DOMAIN fn.order |->
    LET b == fn.order[n]
        at == SelectSeq([k \in DOMAIN fn.code[b] |-> k], LAMBDA k : IsPhi(fn.code[b][k]))
    IN [k \in DOMAIN at |-> <<b, at[k]>>]])

PhiElimination(fn) ==
  LET phis == Phis(fn)
      Node(n) == fn.code[phis[n][1]][phis[n][2]]
      Number(b, k) == CHOOSE n \in DOMAIN phis : phis[n] = <<b, k>>
      Replace(b) == [k \in DOMAIN fn.code[b] |->
                       IF IsPhi(fn.code[b][k]) THEN Move(fn.code[b][k].result, AllocateVreg(fn, Number(b, k)))
                       ELSE fn.code[b][k]]
      Copies(b) == FlattenSeq([n \in DOMAIN phis |->
                     [v \in 1..Cardinality(FromParent(Node(n), b)) |->
                        Move(AllocateVreg(fn, n), CHOOSE w \in FromParent(Node(n), b) : TRUE)]])
      After(b) == IF IsEnd(fn, b) THEN Replace(b)
                  ELSE Front(Replace(b)) \o Copies(b) \o <<Last(Replace(b))>>
  IN Outcome([fn EXCEPT !.code = [b \in DOMAIN @ |-> After(b)]], phis # <<>>)

--------------------------------------------------------------------------
(* ReplaceBranchWithSelect: a block with one phi over two small parents of   *)
(* one grandparent becomes its only child, and the phi a select.             *)
CanApplyToPhi(fn, b) ==
  LET phis == SelectSeq(fn.code[b], IsPhi) IN
  /\ Len(phis) = 1
  /\ Len(phis[1].origins) = 2
  /\ \A p \in ToSet(phis[1].origins) :
       /\ p # b
       /\ HasOneChild(fn, p) /\ Len(Parents(fn, p)) = 1
       /\ Len(fn.code[p]) <= 3
       /\ Parents(fn, p) # <<b>>
       /\ Parents(fn, p) = Parents(fn, phis[1].origins[1])
       /\ \A i \in ToSet(fn.code[p]) : i.op # "call"

ReplaceBranch(fn, b) ==
  LET phi == SelectSeq(fn.code[b], IsPhi)[1]
      granny == Parents(fn, phi.origins[1])[1]
      condition == Last(fn.code[granny]).arguments[1]
      parents == ToSet(phi.origins)
      moved == FlattenSeq([p \in DOMAIN phi.origins |-> Front(fn.code[phi.origins[p]])])
      select == Instruction("select", phi.result, <<condition>> \o phi.arguments)
      NewCode(c) == CASE c = granny -> Front(fn.code[granny]) \o moved
                      [] c \in parents -> <<>>
                      [] c = b -> [k \in DOMAIN fn.code[b] |-> IF IsPhi(fn.code[b][k]) THEN select ELSE fn.code[b][k]]
                      [] OTHER -> fn.code[c]
  IN Finalize([fn EXCEPT !.code = [c \in DOMAIN @ |-> NewCode(c)],
                         !.children = [c \in DOMAIN @ |-> CASE c = granny -> <<b>>
                                                            [] c \in parents -> <<>>
                                                            [] OTHER -> @[c]]])

ReplaceBranchWithSelect(fn) ==
  LET Visit(done, b) == IF CanApplyToPhi(done, b) THEN ReplaceBranch(done, b) ELSE done
      result == FoldLeft(Visit, fn, fn.order)
  IN Outcome(IF result = fn THEN fn ELSE SimplifyBlocks(result), result # fn)
===========================================================================
