-------------------------- MODULE AssemblyPrinter --------------------------
(* The order of the blocks and the instructions AssemblyPrinter writes for a *)
(* function after register allocation, and what they mean.  Spelling is left *)
(* out, and so is the check of the operands an instruction may take.         *)
EXTENDS IR

(* GreedyBlocksOrdering: the first child not written yet, or any block (here *)
(* the first of the list).                                                   *)
ChooseNext(fn, current, unvisited) ==
  LET children == SelectSeq(fn.children[current], LAMBDA c : c \in unvisited)
  IN IF children # <<>> THEN children[1] ELSE SelectSeq(fn.order, LAMBDA b : b \in unvisited)[1]

RECURSIVE OrderFrom(_, _)
OrderFrom(fn, order) ==
  LET unvisited == Blocks(fn) \ ToSet(order) IN
  IF unvisited = {} THEN order
  ELSE OrderFrom(fn, Append(order, ChooseNext(fn, Last(order), unvisited)))

BlocksOrdering(fn) == OrderFrom(fn, <<fn.begin>>)

--------------------------------------------------------------------------
(* An assembly line: an operation, a result, operands and a label.           *)
Line(op, result, arguments, label) ==
  [op |-> op, result |-> result, arguments |-> arguments, label |-> label, callee |-> "none"]
NoLabel == 0
Plain(op, arguments) == Line(op, NoValue, arguments, NoLabel)

IsNext(order, n, b) == n < Len(order) /\ order[n + 1] = b

PrintBranch(fn, order, n, i) ==
  LET zero == fn.children[order[n]][1]
      nonzero == fn.children[order[n]][2]
      Cbz(op, label) == Line(op, NoValue, i.arguments, label)
  IN CASE IsNext(order, n, zero) -> <<Cbz("cbnz", nonzero)>>
       [] ~IsNext(order, n, zero) /\ IsNext(order, n, nonzero) -> <<Cbz("cbz", zero)>>
       [] OTHER -> <<Cbz("cbnz", nonzero), Line("b", NoValue, <<>>, zero)>>

(* A select of one and zero is a cset; other constants go through the        *)
(* registers 14 and 15 and zero through the zero register.                   *)
PrintSelect(i) ==
  LET zero == Constant(0)
      one == Constant(1)
      choices == <<i.arguments[2], i.arguments[3]>>
      InRegister(v) == v[1] # "constant" \/ v = zero
      Temp(k) == BasicRegister(14 + Cardinality({j \in 1..k - 1 : ~InRegister(choices[j])}))
      loads == FlattenSeq([k \in 1..2 |-> IF InRegister(choices[k]) THEN <<>>
                                          ELSE <<Line("move", Temp(k), <<choices[k]>>, NoLabel)>>])
      read == [k \in 1..2 |-> IF InRegister(choices[k]) THEN choices[k] ELSE Temp(k)]
      compare == <<Plain("cmp", <<i.arguments[1]>>)>>
  IN CASE choices = <<zero, one>> -> compare \o <<Line("cset_ne", i.result, <<>>, NoLabel)>>
       [] choices = <<one, zero>> -> compare \o <<Line("cset_eq", i.result, <<>>, NoLabel)>>
       [] OTHER -> compare \o loads \o <<Line("csel", i.result, read, NoLabel)>>

PrintInstruction(fn, order, n, i) ==
  CASE i.op \in {"return", "jump"} -> <<>>
    [] i.op = "branch" -> PrintBranch(fn, order, n, i)
    [] i.op = "select" -> PrintSelect(i)
    [] OTHER -> <<[Line(i.op, i.result, i.arguments, NoLabel) EXCEPT !.callee = i.callee]>>

(* The callee-saved registers the function uses are stored on entry and      *)
(* loaded again before it returns.                                           *)
CalleeSavedRegisters(fn) == {t \in Temporaries(fn) : t[1] = "saved"}

PrintBlock(fn, order, n) ==
  LET b == order[n]
      lines == FlattenSeq([k \in DOMAIN fn.code[b] |-> PrintInstruction(fn, order, n, fn.code[b][k])])
      jump == IF HasOneChild(fn, b) /\ ~IsNext(order, n, fn.children[b][1])
                THEN <<Line("b", NoValue, <<>>, fn.children[b][1])>> ELSE <<>>
      leave == IF IsEnd(fn, b)
                 THEN <<Plain("load", SetToSeq(CalleeSavedRegisters(fn))), Plain("ret", <<>>)>> ELSE <<>>
  IN <<Line("label", NoValue, <<>>, b)>> \o lines \o jump \o leave

PrintFunction(fn) ==
  LET order == BlocksOrdering(fn)
  IN <<Plain("store", SetToSeq(CalleeSavedRegisters(fn)))>>
     \o FlattenSeq([n \in DOMAIN order |-> PrintBlock(fn, order, n)])

--------------------------------------------------------------------------
(* The processor: registers, the frame of the function, and the result of    *)
(* the last comparison.                                                      *)
Equal == <<"flag", 0>>
Slot(r) == <<"slot", r[2]>>
LabelAt(lines, label) == CHOOSE k \in DOMAIN lines : lines[k].op = "label" /\ lines[k].label = label

Chosen(env, zero, nonzero) == IF env[Equal] = 0 THEN ValueOf(env, zero) ELSE ValueOf(env, nonzero)

RunLine(l, env) ==
  LET args == [k \in DOMAIN l.arguments |-> ValueOf(env, l.arguments[k])] IN
  CASE l.op \in {"add", "sub", "move", "call"} -> Assign(l, args, env)
    [] l.op = "cmp" -> (Equal :> args[1]) @@ env
    [] l.op = "csel" -> (l.result :> Chosen(env, l.arguments[1], l.arguments[2])) @@ env
    [] l.op = "cset_ne" -> (l.result :> Chosen(env, Constant(0), Constant(1))) @@ env
    [] l.op = "cset_eq" -> (l.result :> Chosen(env, Constant(1), Constant(0))) @@ env
    [] l.op = "store" -> [s \in {Slot(r) : r \in ToSet(l.arguments)} |-> env[CalleeSaved(s[2])]] @@ env
    [] l.op = "load" -> [r \in ToSet(l.arguments) |-> env[Slot(r)]] @@ env
    [] OTHER -> env

NextLine(lines, k, env) ==
  LET l == lines[k]
      taken == \/ l.op = "b"
               \/ l.op = "cbz" /\ ValueOf(env, l.arguments[1]) = 0
               \/ l.op = "cbnz" /\ ValueOf(env, l.arguments[1]) # 0
  IN IF taken THEN LabelAt(lines, l.label) ELSE k + 1

(* The value returned counts when the caller's registers are as they were.   *)
RECURSIVE RunFrom(_, _, _, _, _)
RunFrom(lines, k, env, caller, fuel) ==
  IF fuel = 0 THEN Unfinished
  ELSE IF k \notin DOMAIN lines \/ \E a \in ToSet(lines[k].arguments) : lines[k].op # "load" /\ ~Readable(env, a)
    THEN Undefined
  ELSE IF lines[k].op = "ret"
    THEN IF BasicRegister(0) \in DOMAIN env /\ \A r \in DOMAIN caller : env[r] = caller[r]
           THEN Returned(env[BasicRegister(0)]) ELSE Undefined
  ELSE RunFrom(lines, NextLine(lines, k, env), RunLine(lines[k], env), caller, fuel - 1)

RunAssembly(fn, lines, input, fuel) ==
  LET caller == [r \in {CalleeSaved(n) : n \in 0..15} |-> 70 + r[2]]
  IN RunFrom(lines, 1, [v \in ToSet(fn.arguments) |-> input[v[2] + 1]] @@ caller, caller, fuel)
=============================================================================
