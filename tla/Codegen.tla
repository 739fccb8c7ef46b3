------------------------------ MODULE Codegen ------------------------------
(* The analysis and the generator together, against the meaning of the       *)
(* program as it is written.                                                 *)
EXTENDS IRGenerator

CONSTANTS Programs,        (* sequences of functions, the last one is called *)
          Inputs,          (* arguments of it, as values *)
          Fuel             (* turns of loops and calls *)

Init ==
  /\ program \in Programs
  /\ functions = <<>>
  /\ phase = "analyse"
  /\ compiled = <<>>
  /\ builder = NewBuilder
  /\ tasks = <<>>
  /\ returned = "none"

Spec == Init /\ [][Next]_vars

-----------------------------------------------------------------------------
(* What a program means: variables hold values, a tuple is copied wherever   *)
(* it goes, the right side of an assignment comes first. A state says what   *)
(* was shown, how often a loop or a call may still go on, and whether the    *)
(* program did something that means nothing.                                 *)

State(env, fuel) ==
  [env |-> env, shown |-> <<>>, fuel |-> fuel, stuck |-> FALSE, done |-> FALSE, value |-> Nothing]
Stuck(s) == [s EXCEPT !.stuck = TRUE]
With(s, v) == [s |-> s, v |-> v]

RECURSIVE Eval(_, _), EvalAll(_, _, _), Exec(_, _), Assign(_, _, _)

EvalAll(es, s, done) ==
  IF es = <<>> THEN [s |-> s, of |-> done]
  ELSE LET first == Eval(es[1], s)
       IN EvalAll(Tail(es), first.s, Append(done, first.v))

(* The caller gets its variables back. *)
Back(end, s, result) ==
  With([end EXCEPT !.env = s.env, !.done = FALSE, !.stuck = @ \/ (~end.done /\ result # Unit)],
       end.value)

Called(name, args, s) ==
  LET at == {k \in DOMAIN program : program[k].name = name /\ ~program[k].external}
      f == program[CHOOSE k \in at : TRUE]
      names == [k \in DOMAIN f.parameters |-> f.parameters[k][1]]
      env == [n \in Range(names) |-> args[CHOOSE k \in DOMAIN names : names[k] = n]]
  IN IF at = {}
     THEN With(IF args[1].k = "undef" THEN Stuck(s) ELSE [s EXCEPT !.shown = Append(@, args[1].n)],
               Nothing)
     ELSE IF s.fuel = 0 THEN With(Stuck(s), Nothing)
     ELSE Back(Exec(f.body, [s EXCEPT !.env = env, !.fuel = @ - 1]), s, f.result)

Eval(e, s) ==
  LET all == EvalAll(IF e.kind = "CALL" THEN Tail(e.of) ELSE e.of, s, <<>>)
      undefined == \E k \in DOMAIN all.of : all.of[k].k = "undef"
  IN CASE e.kind = "INTEGER_LITERAL" -> With(s, IntVal(e.number))
       [] e.kind = "BOOL_LITERAL" -> With(s, Val("bit", e.number, <<>>))
       [] e.kind = "ID" -> With(s, s.env[e.name])
       [] all.s.stuck -> With(all.s, Nothing)
       [] e.kind = "TUPLE" -> With(all.s, Many(all.of))
       [] e.kind = "TUPLE_INDEX" -> With(all.s, all.of[1].of[e.number + 1])
       [] e.kind = "BINARY" ->
            With(all.s, IF undefined THEN Undef ELSE Arithmetic(e.op, all.of[1].n, all.of[2].n))
       [] e.kind = "UNARY" -> With(all.s, IF undefined THEN Undef ELSE BitVal(all.of[1].n = 0))
       [] e.kind = "CALL" -> Called(e.of[1].name, all.of, all.s)

(* An lvalue is a variable or a place in one. *)
Assign(value, e, v) ==
  IF e.kind = "ID" THEN [value EXCEPT ![e.name] = v]
  ELSE LET tuple == Eval(e.of[1], State(value, 0)).v
       IN Assign(value, e.of[1], [tuple EXCEPT !.of[e.number + 1] = v])

Exec(block, s) ==
  IF block = <<>> \/ s.stuck \/ s.done THEN s
  ELSE LET first == block[1]
           rest == Tail(block)
           c == Eval(first.of[1], s)
           end == IF first.kind = "EXPRESSION" THEN c.s
                  ELSE CASE first.kind = "RETURN" -> [c.s EXCEPT !.done = TRUE, !.value = c.v]
                         [] first.kind = "VARIABLE" ->
                              IF first.of = <<>>
                              THEN [s EXCEPT !.env = first.name :> Blank(first.type) @@ @]
                              ELSE [c.s EXCEPT !.env = first.name :> c.v @@ @]
                         [] first.kind = "ASSIGNMENT" ->
                              LET r == Eval(first.of[2], s)
                              IN [r.s EXCEPT !.env = Assign(@, first.of[1], r.v)]
                         [] first.kind = "COMPOUND" -> Exec(first.blocks[1], s)
                         [] first.kind = "IF" /\ c.v.k = "bit" ->
                              Exec(first.blocks[2 - c.v.n], c.s)
                         [] first.kind = "WHILE" /\ c.v.k = "bit" ->
                              IF c.v.n = 0 THEN c.s
                              ELSE IF s.fuel = 0 THEN Stuck(s)
                              ELSE Exec(first.blocks[1] \o <<first>>,
                                        [c.s EXCEPT !.fuel = @ - 1])
                         [] OTHER -> Stuck(s)
       IN Exec(rest, end)

Main == program[Len(program)]
Seen(m) == [stuck |-> m.s.stuck, value |-> m.v, shown |-> m.s.shown]
Meaning(input) == Seen(Called(Main.name, input, State(<<>>, Fuel)))

(* The code is called with its tuples in memory. *)
Ran(input) ==
  LET args == [k \in DOMAIN input |-> IF input[k].k = "tuple" THEN Address(k, <<>>) ELSE input[k]]
      end == Invoke(compiled, [Machine(20 * Fuel) EXCEPT !.mem = input], Main.name, args)
  IN [trap |-> end.trap, shown |-> end.shown, value |-> end.value]

-----------------------------------------------------------------------------
RECURSIVE Inside(_)
Inside(e) == {e} \cup UNION {Inside(x) : x \in Range(e.of)}
RECURSIVE Statements(_)
Statements(block) ==
  Range(block) \cup UNION {UNION {Statements(b) : b \in Range(s.blocks)} : s \in Range(block)}
AllStatements == UNION {Statements(functions[k].body) : k \in DOMAIN functions}
AllExpressions == UNION {UNION {Inside(e) : e \in Range(s.of)} : s \in AllStatements}

(* Values that are loaded without a question for their type, and values that *)
(* are copied to a place of their own.                                       *)
Operands == UNION {Range(e.of) : e \in {x \in AllExpressions : x.kind = "BINARY" /\ IsEquality(x)}}
Conditions == UNION {Range(s.of) : s \in {x \in AllStatements : x.kind = "WHILE"}}
Elements == UNION {Range(e.of) : e \in {x \in AllExpressions : x.kind = "TUPLE"}}
Sources ==
  UNION {Range(s.of) : s \in {x \in AllStatements : x.kind \in {"RETURN", "VARIABLE"}}}
  \cup {s.of[2] : s \in {x \in AllStatements : x.kind = "ASSIGNMENT"}}
MixedAssignment ==
  \E s \in AllStatements : s.kind = "ASSIGNMENT" /\ s.of[1].type # s.of[2].type

Agree(means, ran) ==
  ~means.stuck => ran = [trap |-> "", shown |-> means.shown, value |-> means.value]

(* Compiled code does what the program says: it shows the same numbers and   *)
(* returns the same value, for every argument for which the program has a    *)
(* meaning. A tuple that a function changes is its own copy, the slot of a   *)
(* result is not the one of an argument, and a condition is computed again   *)
(* in every turn of a loop. A program may also assign a value of one type to *)
(* a place of another, which nothing turns down and which has no meaning.    *)
MeaningKept ==
  phase = "done" /\ ~MixedAssignment => \A input \in Inputs : Agree(Meaning(input), Ran(input))

(* An end of the body is reached without a return. *)
RECURSIVE FallsOff(_)
FallsOff(block) ==
  \A k \in DOMAIN block :
    CASE block[k].kind = "RETURN" -> FALSE
      [] block[k].kind = "COMPOUND" -> FallsOff(block[k].blocks[1])
      [] block[k].kind = "IF" -> FallsOff(block[k].blocks[1]) \/ FallsOff(block[k].blocks[2])
      [] OTHER -> TRUE

RECURSIVE Reachable(_, _)
Reachable(code, blocks) ==
  LET targets(b) == UNION {Range(i.targets) : i \in Range(code[b])}
      more == blocks \cup UNION {targets(b) : b \in blocks}
  IN IF more = blocks THEN blocks ELSE Reachable(code, more)

(* Every block that control can reach ends with its only terminator, unless  *)
(* the function itself may come to its end without a value. The block behind *)
(* an if statement whose branches both return is not reached, and stays      *)
(* without one.                                                              *)
BlocksEnd ==
  \A n \in DOMAIN compiled :
    LET code == compiled[n].code
        ends(b) == {k \in DOMAIN code[b] : IsTerminator(code[b][k])}
    IN \/ functions[n].external
       \/ functions[n].result # Unit /\ FallsOff(functions[n].body)
       \/ \A b \in Reachable(code, {ALLOCA}) : ends(b) = {Len(code[b])}

(* The generator trusts the analysis: what it accepted keeps the assertions  *)
(* of the generator, with two exceptions. The operands of an equality and    *)
(* the condition of a while statement, which the analysis does not look at,  *)
(* are loaded whatever their type is, so a tuple or a function there stops   *)
(* the generator; and so does a copy of what is neither passed by value nor  *)
(* written as a tuple: an alias of a tuple type, a function.                 *)
AssertionsHold ==
  phase = "assertion" =>
    \/ \E e \in Operands \cup Conditions : ~IsPassedByValue(e.type)
    \/ \E e \in Elements \cup Sources : e.type.kind # "TUPLE" /\ ~IsPassedByValue(e.type)
=============================================================================
