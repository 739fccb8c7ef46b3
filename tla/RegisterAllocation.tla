------------------------ MODULE RegisterAllocation ------------------------
(* RegisterAllocationPass and the Disentangler that orders the moves around  *)
(* calls and at the entry of a function.                                     *)
EXTENDS Analyses

CONSTANT MaxRegisters                     \* kMaxRegistersAllowed, 16 in the code

ASSUME MaxRegistersAssumption == MaxRegisters \in Nat \ {0, 1}

TemporaryRegister == BasicRegister(MaxRegisters - 1)
ReturnRegister == BasicRegister(0)

--------------------------------------------------------------------------
(* The moves that have to happen at once are edges between nodes; next and   *)
(* prev are positions in the list of nodes, 0 for none.                      *)
NodeOf(nodes, value) ==
  LET at == {k \in DOMAIN nodes : nodes[k].value = value} IN IF at = {} THEN Len(nodes) + 1 ELSE Min(at)
WithNode(nodes, value) ==
  IF NodeOf(nodes, value) \in DOMAIN nodes THEN nodes ELSE Append(nodes, [value |-> value, next |-> 0, prev |-> 0])

AddMove(nodes, move) ==
  LET both == WithNode(WithNode(nodes, move[1]), move[2])
      from == NodeOf(both, move[1])
      to == NodeOf(both, move[2])
  IN IF move[1] = move[2] THEN nodes ELSE [both EXCEPT ![from].next = to, ![to].prev = from]

(* From the end of a chain back to its start, the move nearest to the end    *)
(* first.                                                                    *)
RECURSIVE Unwind(_, _)
Unwind(knot, k) ==
  LET p == knot.nodes[k].prev IN
  IF p = 0 THEN knot
  ELSE Unwind([moves |-> Append(knot.moves, <<knot.nodes[p].value, knot.nodes[k].value>>),
               nodes |-> [knot.nodes EXCEPT ![k].value = knot.nodes[p].value, ![k].prev = 0, ![p].next = 0]], p)

DisentangleChains(knot) ==
  FoldLeftDomain(LAMBDA done, k : IF done.nodes[k].next # 0 THEN done ELSE Unwind(done, k), knot, knot.nodes)

(* What is left are cycles: one is opened by a move to the temporary.        *)
OpenCycle(knot, k) ==
  LET nodes == WithNode(knot.nodes, TemporaryRegister)
      t == NodeOf(nodes, TemporaryRegister)
      next == nodes[k].next
  IN [moves |-> Append(knot.moves, <<nodes[k].value, TemporaryRegister>>),
      nodes |-> [nodes EXCEPT ![t].next = next, ![next].prev = t, ![k].next = 0]]

RECURSIVE Untie(_)
Untie(knot) ==
  LET tied == {k \in DOMAIN knot.nodes : knot.nodes[k].next # 0} IN
  IF tied = {} THEN knot.moves ELSE Untie(DisentangleChains(OpenCycle(knot, Min(tied))))

Disentangle(moves) ==
  LET ordered == Untie(DisentangleChains([nodes |-> FoldLeft(AddMove, <<>>, moves), moves |-> <<>>]))
  IN [k \in DOMAIN ordered |-> Move(ordered[k][2], ordered[k][1])]

--------------------------------------------------------------------------
(* The calls of the function with the values live before and after them.     *)
Calls(fn, live) ==
  UNION {{[at |-> <<b, k>>, call |-> fn.code[b][k], before |-> live[b][k], after |-> live[b][k + 1]] :
             k \in {k \in DOMAIN fn.code[b] : fn.code[b][k].op = "call"}} : b \in Blocks(fn)}

(* Mutant: what a call takes as an argument is believed to end there.        *)
IsShort(fn, live, t) ==
  ~\E c \in Calls(fn, live) : t \in (c.before \cap c.after) \ ToSet(c.call.arguments)

(* A temporary that lives across a call needs a callee-saved register.       *)
IsBasic(fn, live, t) == ~\E c \in Calls(fn, live) : t \in c.before /\ t \in c.after

(* registers_usage: how often a temporary is wanted in a register.           *)
Usage(fn, live, t, r) ==
  LET returns == {b \in ToSet(EndBlocks(fn)) : r = 0 /\ Last(fn.code[b]).arguments[1] = t}
      near == {c \in Calls(fn, live) : t \in c.before \cup c.after}
      results == {c \in near : r = 0 /\ c.call.result = t}
      passed == {c \in near : c.call.result # t /\ r + 1 \in DOMAIN c.call.arguments /\ c.call.arguments[r + 1] = t}
      argument == IF t[2] = r /\ r < Len(fn.arguments) THEN 1 ELSE 0
  IN Cardinality(returns) +
     IF IsBasic(fn, live, t) THEN argument + Cardinality(results) + Cardinality(passed) ELSE 0

(* Temporaries that are live at one point depend on each other.              *)
Dependencies(fn, live, t) ==
  UNION {UNION {live[b][k] : k \in {k \in DOMAIN live[b] : t \in live[b][k]}} : b \in Blocks(fn)} \ {t}

Preferred(fn, live, t, allowed) ==
  CHOOSE r \in allowed : \A s \in allowed :
    LET better == Usage(fn, live, t, r) - Usage(fn, live, t, s) IN better > 0 \/ (better = 0 /\ r <= s)

AssignRegister(fn, live, assigned, t) ==
  LET Of(r) == IF IsBasic(fn, live, t) THEN BasicRegister(r) ELSE CalleeSaved(r)
      taken == {assigned[d] : d \in Dependencies(fn, live, t) \cap DOMAIN assigned}
      allowed == {r \in 0..MaxRegisters - 1 : Of(r) \notin taken}
  IN IF allowed = {} THEN assigned ELSE assigned @@ (t :> Of(Preferred(fn, live, t, allowed)))

(* The basic temporaries are served first, in the order of the hash map.     *)
AssignRegisters(fn, live, order) ==
  LET basic == SelectSeq(order, LAMBDA t : IsBasic(fn, live, t))
      saved == SelectSeq(order, LAMBDA t : ~IsBasic(fn, live, t))
  IN FoldLeft(LAMBDA assigned, t : AssignRegister(fn, live, assigned, t), <<>>, basic \o saved)

--------------------------------------------------------------------------
(* apply_transformation: the arguments of a call are moved to the registers  *)
(* 0, 1, ... and its result from register 0.                                 *)
Expanded(i, registers) ==
  LET call == ReplaceValues(i, registers)
      required == [k \in DOMAIN call.arguments |-> BasicRegister(k - 1)]
      before == Disentangle([k \in DOMAIN call.arguments |-> <<call.arguments[k], required[k]>>])
      after == IF call.result = ReturnRegister THEN <<>> ELSE <<Move(call.result, ReturnRegister)>>
  IN IF i.op # "call" THEN <<call>>
     ELSE before \o <<FunctionCall(ReturnRegister, call.callee, required)>> \o after

Entry(fn, registers) ==
  Disentangle([k \in DOMAIN fn.arguments |-> <<BasicRegister(fn.arguments[k][2]), registers[fn.arguments[k]]>>])

Leaving(code) ==
  LET value == Last(code).arguments[1]
  IN IF value = ReturnRegister THEN code ELSE Front(code) \o <<Move(ReturnRegister, value), Return(ReturnRegister)>>

ApplyTransformation(fn, registers) ==
  LET Body(b) == FlattenSeq([k \in DOMAIN fn.code[b] |-> Expanded(fn.code[b][k], registers)])
      Entered(b) == IF b = fn.begin THEN Entry(fn, registers) \o Body(b) ELSE Body(b)
  IN [fn EXCEPT !.code = [b \in DOMAIN @ |-> IF IsEnd(fn, b) THEN Leaving(Entered(b)) ELSE Entered(b)],
                !.arguments = [k \in DOMAIN @ |-> BasicRegister(@[k][2])]]

AllAssigned(fn, registers) == Temporaries(fn) \subseteq DOMAIN registers
===========================================================================
