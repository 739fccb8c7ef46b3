-------------------------------- MODULE LLVM --------------------------------
(* What llvm makes of the instructions the generator uses: they are carried  *)
(* out on a memory of slots. A value is an integer, a bit, a pointer, a      *)
(* tuple of values in memory, or undefined. What llvm leaves undefined, and  *)
(* a block that does not end, is a trap.                                     *)
EXTENDS Types, TLC

CONSTANT Width                   (* bits of an i64 *)

Wrap(n) == ((n + 2^(Width - 1)) % 2^Width) - 2^(Width - 1)

Val(k, n, of) == [k |-> k, n |-> n, of |-> of]
IntVal(n) == Val("int", Wrap(n), <<>>)
BitVal(b) == Val("bit", IF b THEN 1 ELSE 0, <<>>)
Undef == Val("undef", 0, <<>>)
Nothing == Val("void", 0, <<>>)
Many(of) == Val("tuple", 0, of)
Address(slot, path) == Val("address", slot, path)

(* Operands that are not constants: a register, a function. *)
Reg(n) == Val("reg", n, <<>>)
FunRef(name) == Val("fun", 0, name)

(* An instruction: dst is the register it sets, 0 for none. *)
Instr(op, dst, of, type, name, targets) ==
  [op |-> op, dst |-> dst, of |-> of, type |-> type, name |-> name, targets |-> targets]

IsTerminator(i) == i.op \in {"br", "condbr", "ret"}

(* What is in a new slot. *)
RECURSIVE Blank(_)
Blank(type) ==
  LET t == GetOriginal(type) IN
  IF t.kind = "TUPLE" THEN Many([k \in DOMAIN t.of |-> Blank(t.of[k])]) ELSE Undef

RECURSIVE At(_, _), Put(_, _, _)
At(value, path) == IF path = <<>> THEN value ELSE At(value.of[path[1] + 1], Tail(path))

Put(value, path, x) ==
  IF path = <<>> THEN x
  ELSE [value EXCEPT !.of[path[1] + 1] = Put(@, Tail(path), x)]

SameShape(v, w) == (v.k = "tuple") = (w.k = "tuple") /\ Len(v.of) = Len(w.of)

(* The remainder is left out of the programs: it is generated as an unsigned  *)
(* one whatever the type.                                                    *)
Arithmetic(op, l, r) ==
  CASE op = "PLUS" -> IntVal(l + r)
    [] op = "MINUS" -> IntVal(l - r)
    [] op = "MULTIPLY" -> IntVal(l * r)
    [] op = "LESS" -> BitVal(l < r)
    [] op = "GREATER" -> BitVal(l > r)
    [] op = "LESS_EQ" -> BitVal(l <= r)
    [] op = "GREATER_EQ" -> BitVal(l >= r)
    [] op = "EQUALEQUAL" -> BitVal(l = r)
    [] op = "NOTEQUAL" -> BitVal(l # r)

(* The machine inside one call: next is the block to go on with, 0 for none  *)
(* and -1 after a return.                                                    *)
Trapped(m, why) == [m EXCEPT !.trap = why]
SetReg(m, i, v) == [m EXCEPT !.regs = i.dst :> v @@ @]

RECURSIVE Carry(_, _, _), RunBlock(_, _, _, _, _), Invoke(_, _, _, _)

Carry(functions, m, i) ==
  LET arg == [k \in DOMAIN i.of |-> IF i.of[k].k = "reg" THEN m.regs[i.of[k].n] ELSE i.of[k]]
      place(k) == At(m.mem[arg[k].n], arg[k].of)
      isPlace(k) == arg[k].k = "address"
      source == IF i.op = "store" THEN arg[2] ELSE place(2)
      undefined == \E k \in DOMAIN arg : arg[k].k = "undef"
      called == Invoke(functions, m, arg[1].of, Tail(arg))
  IN CASE i.op = "alloca" ->
            SetReg([m EXCEPT !.mem = Append(@, Blank(i.type))], i, Address(Len(m.mem) + 1, <<>>))
       [] i.op = "load" ->
            IF isPlace(1) /\ place(1).k # "tuple" THEN SetReg(m, i, place(1))
            ELSE Trapped(m, "load")
       [] i.op \in {"store", "memcpy"} ->
            IF isPlace(1) /\ SameShape(place(1), source)
            THEN [m EXCEPT !.mem[arg[1].n] = Put(@, arg[1].of, source)]
            ELSE Trapped(m, "store")
       [] i.op = "gep" ->
            IF isPlace(1) /\ arg[2].n < Len(place(1).of)
            THEN SetReg(m, i, Address(arg[1].n, Append(arg[1].of, arg[2].n)))
            ELSE Trapped(m, "gep")
       [] i.op = "binary" ->
            SetReg(m, i, IF undefined THEN Undef ELSE Arithmetic(i.name, arg[1].n, arg[2].n))
       [] i.op = "xor" ->
            SetReg(m, i, IF undefined THEN Undef ELSE BitVal(arg[1].n # arg[2].n))
       [] i.op = "call" -> SetReg(called, i, called.value)
       [] i.op = "br" -> [m EXCEPT !.next = i.targets[1]]
       [] i.op = "condbr" ->
            IF arg[1].k = "bit" THEN [m EXCEPT !.next = i.targets[2 - arg[1].n]]
            ELSE Trapped(m, "branch")
       [] i.op = "ret" -> [m EXCEPT !.next = -1, !.value = IF arg = <<>> THEN Nothing ELSE arg[1]]

(* The instructions of a block from the k-th on. *)
RunBlock(functions, f, b, k, m) ==
  CASE m.trap # "" \/ m.next = -1 -> m
    [] m.next > 0 -> IF m.fuel = 0 THEN Trapped(m, "fuel")
                     ELSE RunBlock(functions, f, m.next, 1, [m EXCEPT !.next = 0, !.fuel = @ - 1])
    [] k > Len(f.code[b]) -> Trapped(m, "unterminated")
    [] OTHER -> RunBlock(functions, f, b, k + 1, Carry(functions, m, f.code[b][k]))

(* A function that is only declared here shows its argument. *)
Invoke(functions, m, name, args) ==
  LET body == {k \in DOMAIN functions : functions[k].name = name /\ functions[k].code # <<>>}
      f == functions[CHOOSE k \in body : TRUE]
      inside == [m EXCEPT !.regs = [k \in {-j : j \in DOMAIN args} |-> args[-k]]]
  IN IF body = {}
     THEN IF args[1].k = "undef" THEN Trapped(m, "undef")
          ELSE [m EXCEPT !.shown = Append(@, args[1].n), !.value = Nothing]
     ELSE [RunBlock(functions, f, 1, 1, inside) EXCEPT !.regs = m.regs, !.next = m.next]

Machine(fuel) ==
  [regs |-> <<>>, mem |-> <<>>, shown |-> <<>>, next |-> 0, value |-> Nothing,
   fuel |-> fuel, trap |-> ""]
=============================================================================
