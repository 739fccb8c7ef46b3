------------------------------- MODULE IR -------------------------------
(* The intermediate representation the passes of the former back end work   *)
(* on: values, instructions, and functions as graphs of basic blocks.  The   *)
(* passes are written against a Value with a type and a number, the one      *)
(* modelled here; Value.h was rewritten since.                               *)
(*                                                                           *)
(* A function of the program is a record: begin is its first block, order    *)
(* its list of blocks, code and children what each block holds, arguments    *)
(* its parameters.  Blocks are numbers that stand for the addresses of the   *)
(* code.  parents, end_blocks and temporaries, which finalize collects, are  *)
(* read off the function where the code reads them.                          *)
EXTENDS Integers, Sequences, FiniteSets, SequencesExt, FiniteSetsExt

(* Values: a kind and a number.                                              *)
Virtual(n) == <<"virtual", n>>
Constant(n) == <<"constant", n>>
BasicRegister(n) == <<"basic", n>>
CalleeSaved(n) == <<"saved", n>>
NoValue == <<"none", 0>>

(* An instruction; origins holds the parents of a phi, callee the name of    *)
(* the function a call calls.                                                *)
Instruction(op, result, arguments) ==
  [op |-> op, result |-> result, arguments |-> arguments, origins |-> <<>>, callee |-> "none"]
Move(to, from) == Instruction("move", to, <<from>>)
Return(value) == Instruction("return", NoValue, <<value>>)
Branch(value) == Instruction("branch", NoValue, <<value>>)
Jump == Instruction("jump", NoValue, <<>>)
FunctionCall(to, name, arguments) == [Instruction("call", to, arguments) EXCEPT !.callee = name]
Phi(to, blocks, values) == [Instruction("phi", to, values) EXCEPT !.origins = blocks]

IsPhi(i) == i.op = "phi"
IsControlFlow(i) == i.op \in {"branch", "return", "jump"}
HasReturnValue(i) == i.result # NoValue

(* What operator== compares: neither the results nor, for a call, the name.  *)
SameInstruction(i, j) == i.op = j.op /\ i.arguments = j.arguments /\ i.origins = j.origins

UsedTemporaries(i) == {i.arguments[k] : k \in {k \in DOMAIN i.arguments : i.arguments[k][1] = "virtual"}}

(* replace_values also replaces the result.                                  *)
Replaced(value, mapping) == IF value \in DOMAIN mapping THEN mapping[value] ELSE value
ReplaceValues(i, mapping) ==
  [i EXCEPT !.result = Replaced(@, mapping), !.arguments = [k \in DOMAIN @ |-> Replaced(@[k], mapping)]]

--------------------------------------------------------------------------
Blocks(fn) == ToSet(fn.order)
HasBegin(fn) == fn.begin \in Blocks(fn)
HasOneChild(fn, b) == Len(fn.children[b]) = 1
IsEnd(fn, b) == fn.children[b] = <<>>

(* The parents in the order finalize finds them, one entry for each edge.    *)
Parents(fn, b) ==
  FlattenSeq([k \in DOMAIN fn.order |->
                LET p == fn.order[k] IN [e \in 1..Cardinality({c \in DOMAIN fn.children[p] : fn.children[p][c] = b}) |-> p]])

EndBlocks(fn) == SelectSeq(fn.order, LAMBDA b : IsEnd(fn, b))

Instructions(fn) == UNION {ToSet(fn.code[b]) : b \in Blocks(fn)}

Temporaries(fn) ==
  ToSet(fn.arguments) \cup UNION {UsedTemporaries(i) : i \in Instructions(fn)}
  \cup {i.result : i \in {i \in Instructions(fn) : HasReturnValue(i)}}

(* The k-th value that allocate_vreg gives out.                              *)
AllocateVreg(fn, k) == Virtual(Max({0} \cup {t[2] : t \in Temporaries(fn)}) + k)

ReplaceInFunction(fn, mapping) ==
  [fn EXCEPT !.code = [b \in DOMAIN @ |-> [k \in DOMAIN @[b] |-> ReplaceValues(@[b][k], mapping)]]]

(* finalize gives a block with one child the jump it lacks.                  *)
Finalize(fn) ==
  [fn EXCEPT !.code =
     [b \in DOMAIN @ |-> IF HasOneChild(fn, b) /\ (@[b] = <<>> \/ Last(@[b]).op # "jump")
                           THEN Append(@[b], Jump) ELSE @[b]]]

EraseBlocks(fn, gone) ==
  [fn EXCEPT !.order = SelectSeq(@, LAMBDA b : b \notin gone),
             !.code = [b \in DOMAIN @ \ gone |-> @[b]], !.children = [b \in DOMAIN @ \ gone |-> @[b]]]

(* replace_phi_parents for one block.                                        *)
ReplacePhiParents(code, old, new) ==
  [k \in DOMAIN code |-> [code[k] EXCEPT !.origins = [p \in DOMAIN @ |-> IF @[p] = old THEN new ELSE @[p]]]]

(* A block takes over its only child when it is the only parent; a phi of    *)
(* the child becomes a move.                                                 *)
Absorb(fn, block, child) ==
  LET Taken(i) == IF IsPhi(i) THEN Move(i.result, i.arguments[1]) ELSE i
      code == [fn.code EXCEPT ![block] =
                 Front(@) \o [k \in DOMAIN fn.code[child] |-> Taken(fn.code[child][k])]]
  IN EraseBlocks([fn EXCEPT !.code = [b \in DOMAIN code |-> ReplacePhiParents(code[b], child, block)],
                            !.children[block] = fn.children[child]], {child})

RECURSIVE ReachableFrom(_, _)
ReachableFrom(fn, found) ==
  LET next == found \cup UNION {ToSet(fn.children[b]) : b \in found}
  IN IF next = found THEN found ELSE ReachableFrom(fn, next)

RECURSIVE AbsorbAll(_)
AbsorbAll(fn) ==
  LET ready == {b \in ReachableFrom(fn, {fn.begin}) :
                  HasOneChild(fn, b) /\ Len(Parents(fn, fn.children[b][1])) = 1}
  IN IF ~HasBegin(fn) \/ ready = {} THEN fn
     ELSE LET b == CHOOSE b \in ready : TRUE IN AbsorbAll(Absorb(fn, b, fn.children[b][1]))

EraseUnreached(fn) == EraseBlocks(fn, Blocks(fn) \ ReachableFrom(fn, {fn.begin}))

(* The first block is not spared when it is the only child of a block.       *)
Swept(fn) == IF HasBegin(fn) THEN Finalize(EraseUnreached(fn)) ELSE fn
SimplifyBlocks(fn) == Swept(AbsorbAll(fn))

--------------------------------------------------------------------------
(* What a function means: the value it returns, or that it reads a value no  *)
(* instruction has assigned, or that it does not end within the fuel.        *)
Returned(n) == <<"returned", n>>
Undefined == <<"undefined", 0>>
Unfinished == <<"unfinished", 0>>

Readable(env, value) == value[1] = "constant" \/ value \in DOMAIN env
ValueOf(env, value) == IF value[1] = "constant" THEN value[2] ELSE env[value]

(* The functions that are called are pure; these tell calls with different   *)
(* names, arguments and orders of arguments apart.                           *)
CallResult(callee, args) ==
  (IF callee = "f" THEN 100 ELSE 200) + FoldLeftDomain(LAMBDA sum, k : sum + k * args[k], 0, args)

(* Sums wrap round, as the 64 bits of a register do, at a smaller bound.     *)
Wrapped(n) == n % 65536

Compute(i, args) ==
  CASE i.op = "add" -> Wrapped(args[1] + args[2])
    [] i.op = "sub" -> Wrapped(args[1] - args[2])
    [] i.op \in {"move", "phi"} -> args[1]
    [] i.op = "select" -> IF args[1] = 0 THEN args[2] ELSE args[3]
    [] i.op = "call" -> Wrapped(CallResult(i.callee, args))

(* A call leaves nothing in the basic registers but its result.              *)
Kept(i, env) ==
  IF i.op = "call" THEN [v \in {v \in DOMAIN env : v[1] # "basic"} |-> env[v]] ELSE env

Assign(i, args, env) == (i.result :> Compute(i, args)) @@ Kept(i, env)

(* The value a phi reads when its block is entered from a parent.            *)
FromParent(i, parent) == {i.arguments[k] : k \in {k \in DOMAIN i.arguments : i.origins[k] = parent}}

RECURSIVE Execute(_, _, _, _, _, _, _)
Execute(fn, b, k, parent, entry, env, fuel) ==
  LET i == fn.code[b][k]
      read == IF IsPhi(i) THEN SetToSeq(FromParent(i, parent)) ELSE i.arguments
      scope == IF IsPhi(i) THEN entry ELSE env
      Enter(child) == Execute(fn, child, 1, b, env, env, fuel - 1)
  IN IF fuel = 0 THEN Unfinished
     ELSE IF b \notin Blocks(fn) \/ k \notin DOMAIN fn.code[b] THEN Undefined
     ELSE IF (IsPhi(i) /\ Len(read) # 1) \/ \E a \in ToSet(read) : ~Readable(scope, a) THEN Undefined
     ELSE IF i.op = "return" THEN Returned(ValueOf(env, read[1]))
     ELSE IF i.op = "jump" THEN Enter(fn.children[b][1])
     ELSE IF i.op = "branch" THEN Enter(fn.children[b][IF ValueOf(env, read[1]) = 0 THEN 1 ELSE 2])
     ELSE Execute(fn, b, k + 1, parent, entry,
                  Assign(i, [a \in DOMAIN read |-> ValueOf(scope, read[a])], env), fuel)

Meaning(fn, input, fuel) ==
  LET env == [v \in ToSet(fn.arguments) |-> input[v[2] + 1]] IN Execute(fn, fn.begin, 1, fn.begin, env, env, fuel)
==========================================================================
