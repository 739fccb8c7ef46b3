---------------------------- MODULE IRGenerator ----------------------------
(* The generator, compilation/ir: the analysed functions of a module become  *)
(* functions of llvm. Every handler of a statement is an action; the nested  *)
(* calls of traverse are the frames of tasks, and returned is what the last  *)
(* one of them gave back. An expression is compiled inside its statement.    *)
(* Every variable of a function has a name of its own here.                  *)
EXTENDS ExpressionAnalysis, LLVM

VARIABLES program,     (* the functions of a module, as the parser gave them *)
          functions,   (* the same, analysed *)
          phase,       (* "analyse", "generate", "done", or how it ended instead *)
          compiled,    (* the functions of llvm that are finished *)
          builder,     (* the code of the current function *)
          tasks,       (* frames of traverse, the innermost last *)
          returned     (* "none", "true", "false" *)
vars == <<program, functions, phase, compiled, builder, tasks, returned>>

ALLOCA == 1
ENTRY == 2
RETURN == 3

(* code has the blocks of the current function; failed the first assertion   *)
(* that did not hold.                                                        *)
NewBuilder ==
  [code |-> <<<<>>, <<>>, <<>>>>, insert |-> ALLOCA, locals |-> <<>>, fresh |-> 1,
   result |-> Nothing, failed |-> ""]

Emit(g, block, i) == [g EXCEPT !.code[block] = Append(@, i)]
EmitHere(g, i) == Emit(g, g.insert, i)
Branch(g, target) == EmitHere(g, Instr("br", 0, <<>>, NoType, "", <<target>>))
NewBlock(g) == [g EXCEPT !.code = Append(@, <<>>)]
SetInsertPoint(g, block) == [g EXCEPT !.insert = block]
Failed(g, what) == [g EXCEPT !.failed = IF @ = "" THEN what ELSE @]

(* What the handler of an expression leaves: the builder and a Value. *)
Compiled(g, value, hasIndirection) == [g |-> g, value |-> value, has_indirection |-> hasIndirection]

(* An instruction whose result is the Value. *)
Define(g, op, of, type, name, hasIndirection) ==
  Compiled([EmitHere(g, Instr(op, g.fresh, of, type, name, <<>>)) EXCEPT !.fresh = @ + 1],
           Reg(g.fresh), hasIndirection)

GetSlot(g, type) ==
  Compiled([Emit(g, ALLOCA, Instr("alloca", g.fresh, <<>>, type, "", <<>>)) EXCEPT !.fresh = @ + 1],
           Reg(g.fresh), TRUE)

(* A variable gets its slot where it is used or initialised first. *)
GetLocalVariableValue(g, name, type) ==
  IF name \in DOMAIN g.locals THEN Compiled(g, g.locals[name], TRUE)
  ELSE LET slot == GetSlot(g, type)
       IN Compiled([slot.g EXCEPT !.locals = name :> slot.value @@ @], slot.value, TRUE)

RemoveIndirection(c, type) ==
  IF ~c.has_indirection THEN c
  ELSE IF ~IsPassedByValue(type) THEN [c EXCEPT !.g = Failed(@, "indirection")]
  ELSE Define(c.g, "load", <<c.value>>, type, "", FALSE)

(* c is stored to destination. *)
CreateStore(destination, c, type) ==
  LET copied == RemoveIndirection(c, type) IN
  IF IsUnit(type) THEN c.g
  ELSE IF type.kind = "TUPLE"
  THEN EmitHere(IF c.has_indirection THEN c.g ELSE Failed(c.g, "copy"),
                Instr("memcpy", 0, <<destination, c.value>>, type, "", <<>>))
  ELSE IF IsPassedByValue(type)
  THEN EmitHere(copied.g, Instr("store", 0, <<destination, copied.value>>, type, "", <<>>))
  ELSE Failed(c.g, "not implemented")

-----------------------------------------------------------------------------
RECURSIVE CompileExpr(_, _), CompileElements(_, _, _, _), CompileArguments(_, _, _, _)

(* The elements from the k-th on go to their places in the slot. *)
CompileElements(g, e, k, slot) ==
  IF k > Len(e.of) THEN g
  ELSE LET place == Define(g, "gep", <<slot, Val("int", k - 1, <<>>)>>, e.type, "", TRUE)
       IN CompileElements(CreateStore(place.value, CompileExpr(place.g, e.of[k]), e.of[k].type),
                          e, k + 1, slot)

(* Mutant: the called function gets the caller's tuple. *)
SharedArgument(g, argument) ==
  LET type == GetOriginal(argument.type)
      c == CompileExpr(g, argument)
  IN IF IsPassedByValue(type) THEN RemoveIndirection(c, type) ELSE c

(* A tuple is given to the called function as a copy of its own. *)
CompileArgument(g, argument) ==
  LET type == GetOriginal(argument.type)
      c == CompileExpr(g, argument)
      slot == GetSlot(c.g, type)
  IN IF IsPassedByValue(type) THEN RemoveIndirection(c, type)
     ELSE Compiled(CreateStore(slot.value,
                               [c EXCEPT !.g = IF c.has_indirection THEN slot.g
                                               ELSE Failed(slot.g, "argument")], type),
                   slot.value, TRUE)

CompileArguments(g, e, k, done) ==
  IF k > Len(e.of) THEN [g |-> g, values |-> done]
  ELSE LET c == CompileArgument(g, e.of[k])
       IN CompileArguments(c.g, e, k + 1, Append(done, c.value))

CallWith(callee, args) ==
  Define(args.g, "call", <<callee.value>> \o args.values, NoType, "", FALSE)

(* A result that is not passed by value is put into a slot of the caller.    *)
CallInto(callee, slot, e) ==
  Compiled(CallWith(callee, CompileArguments(slot.g, e, 2, <<slot.value>>)).g, slot.value, TRUE)

CompileCall(g, e) ==
  LET callee == CompileExpr(g, e.of[1])
      result == Result(e.of[1].type)
  IN IF IsPassedByValue(result)
     THEN CallWith(callee, CompileArguments(callee.g, e, 2, <<>>))
     ELSE CallInto(callee, GetSlot(callee.g, result), e)

CompileBinary(g, e) ==
  LET left == RemoveIndirection(CompileExpr(g, e.of[1]), e.of[1].type)
      right == RemoveIndirection(CompileExpr(left.g, e.of[2]), e.of[1].type)
  IN Define(right.g, "binary", <<left.value, right.value>>, NoType, e.op, FALSE)

CompileUnary(g, e) ==
  LET argument == RemoveIndirection(CompileExpr(g, e.of[1]), e.of[1].type)
  IN Define(argument.g, "xor", <<argument.value, BitVal(TRUE)>>, NoType, "", FALSE)

CompileTupleIndex(g, e) ==
  LET tuple == CompileExpr(g, e.of[1])
      checked == IF tuple.has_indirection THEN tuple.g ELSE Failed(tuple.g, "index")
  IN Define(checked, "gep", <<tuple.value, Val("int", e.number, <<>>)>>, e.of[1].type, "", TRUE)

CompileExpr(g, e) ==
  CASE e.kind = "INTEGER_LITERAL" -> Compiled(g, IntVal(e.number), FALSE)
    [] e.kind = "BOOL_LITERAL" -> Compiled(g, Val("bit", e.number, <<>>), FALSE)
    [] e.kind = "ID" -> IF e.type.kind = "FUNCTION" THEN Compiled(g, FunRef(e.name), TRUE)
                        ELSE GetLocalVariableValue(g, e.name, e.type)
    [] e.kind = "TUPLE" -> LET slot == GetSlot(g, e.type)
                           IN Compiled(CompileElements(slot.g, e, 1, slot.value), slot.value, TRUE)
    [] e.kind = "TUPLE_INDEX" -> CompileTupleIndex(g, e)
    [] e.kind = "BINARY" -> CompileBinary(g, e)
    [] e.kind = "UNARY" -> CompileUnary(g, e)
    [] e.kind = "CALL" -> CompileCall(g, e)
    [] OTHER -> CompileExpr(g, e.of[1])      (* LVALUE_TO_RVALUE, TUPLE_COPY *)

-----------------------------------------------------------------------------
Current == functions[Len(compiled) + 1]
ReturnThroughArgument(f) == ~IsPassedByValue(f.result)

(* A parameter passed by value is stored to a slot of its own. *)
RECURSIVE CreateFunctionArguments(_, _, _)
CreateFunctionArguments(g, f, k) ==
  IF k > Len(f.parameters) THEN g
  ELSE LET name == f.parameters[k][1]
           type == GetOriginal(f.parameters[k][2])
           argument == Reg(-(IF ReturnThroughArgument(f) THEN k + 1 ELSE k))
           slot == GetSlot(g, type)
       IN CreateFunctionArguments(
            IF IsPassedByValue(type)
            THEN [Emit(slot.g, ALLOCA, Instr("store", 0, <<slot.value, argument>>, type, "", <<>>))
                    EXCEPT !.locals = name :> slot.value @@ @]
            ELSE [g EXCEPT !.locals = name :> argument @@ @],
            f, k + 1)

(* A frame of traverse: the rest of a block, or what is left of an if or a   *)
(* while statement, with its blocks of code.                                 *)
Block(rest) == [kind |-> "block", rest |-> rest, to |-> <<>>]
Frame(kind, rest, to) == [kind |-> kind, rest |-> rest, to |-> to]
Top == tasks[Len(tasks)]
Popped == SubSeq(tasks, 1, Len(tasks) - 1)
Working == phase = "generate" /\ builder.failed = ""

Analysed(module) ==
  /\ phase' = IF module.verdict = "ok" THEN "generate" ELSE module.verdict
  /\ functions' = module.functions

AnalyseModule ==
  /\ phase = "analyse"
  /\ Analysed(AnalyseFunctions(program, <<>>))
  /\ UNCHANGED <<program, compiled, builder, tasks, returned>>

(* A function of another language is only declared. *)
DeclareExtern ==
  /\ Working /\ tasks = <<>> /\ Len(compiled) < Len(functions) /\ Current.external
  /\ compiled' = Append(compiled, [name |-> Current.name, code |-> <<>>])
  /\ UNCHANGED <<program, functions, phase, builder, tasks, returned>>

StartFunction ==
  /\ Working /\ tasks = <<>> /\ returned = "none" /\ Len(compiled) < Len(functions)
  /\ ~Current.external
  /\ LET f == Current
         slot == GetSlot(NewBuilder, f.result)
         g == IF IsUnit(f.result) THEN NewBuilder
              ELSE IF ReturnThroughArgument(f) THEN [NewBuilder EXCEPT !.result = Reg(-1)]
              ELSE [slot.g EXCEPT !.result = slot.value]
     IN /\ builder' = SetInsertPoint(CreateFunctionArguments(g, f, 1), ENTRY)
        /\ tasks' = <<Block(f.body)>>
  /\ UNCHANGED <<program, functions, phase, compiled, returned>>

FinishFunction ==
  /\ Working /\ tasks = <<>> /\ returned # "none"
  /\ LET f == Current
         g == IF returned = "true" /\ IsUnit(f.result) THEN Branch(builder, RETURN) ELSE builder
         h == SetInsertPoint(Branch(SetInsertPoint(g, ALLOCA), ENTRY), RETURN)
         load == Define(h, "load", <<h.result>>, f.result, "", FALSE)
         end == IF ReturnThroughArgument(f) \/ IsUnit(f.result)
                THEN EmitHere(h, Instr("ret", 0, <<>>, NoType, "", <<>>))
                ELSE EmitHere(load.g, Instr("ret", 0, <<load.value>>, NoType, "", <<>>))
     IN compiled' = Append(compiled, [name |-> f.name, code |-> end.code])
  /\ builder' = NewBuilder
  /\ returned' = "none"
  /\ UNCHANGED <<program, functions, phase, tasks>>

Finish ==
  /\ Working /\ Len(compiled) = Len(functions)
  /\ phase' = "done"
  /\ UNCHANGED <<program, functions, compiled, builder, tasks, returned>>

Abort ==
  /\ phase = "generate" /\ builder.failed # ""
  /\ phase' = "assertion"
  /\ UNCHANGED <<program, functions, compiled, builder, tasks, returned>>

(* The next statement of the innermost block. *)
NextIs(kind) ==
  /\ Working /\ tasks # <<>> /\ returned = "none"
  /\ Top.kind = "block" /\ Top.rest # <<>> /\ Top.rest[1].kind = kind
GoOn == Append(Popped, Block(Tail(Top.rest)))
Node == Top.rest[1]
Keeping == UNCHANGED <<program, functions, phase, compiled>>

TraverseReturnStatement ==
  /\ NextIs("RETURN")
  /\ builder' = Branch(CreateStore(builder.result, CompileExpr(builder, Node.of[1]), Node.of[1].type),
                       RETURN)
  /\ tasks' = Popped                     (* the rest of the block is not compiled *)
  /\ returned' = "false"
  /\ Keeping

TraverseVariableDeclaration ==
  /\ NextIs("VARIABLE")
  /\ LET variable == GetLocalVariableValue(builder, Node.name, Node.type)
     IN builder' = IF Node.of = <<>> THEN builder
                   ELSE CreateStore(variable.value, CompileExpr(variable.g, Node.of[1]),
                                    Node.of[1].type)
  /\ tasks' = GoOn
  /\ Keeping /\ UNCHANGED returned

Assigned(left, right, type) ==
  LET g == IF left.has_indirection THEN left.g ELSE Failed(left.g, "assignment")
  IN CreateStore(left.value, [right EXCEPT !.g = g], type)

TraverseAssignmentStatement ==
  /\ NextIs("ASSIGNMENT")
  /\ LET right == CompileExpr(builder, Node.of[2])
     IN builder' = Assigned(CompileExpr(right.g, Node.of[1]), right, Node.of[2].type)
  /\ tasks' = GoOn
  /\ Keeping /\ UNCHANGED returned

TraverseExpressionStatement ==
  /\ NextIs("EXPRESSION")
  /\ builder' = CompileExpr(builder, Node.of[1]).g
  /\ tasks' = GoOn
  /\ Keeping /\ UNCHANGED returned

(* Nothing is generated for break and continue. *)
TraverseJump ==
  /\ NextIs("BREAK") \/ NextIs("CONTINUE")
  /\ tasks' = GoOn
  /\ Keeping /\ UNCHANGED <<builder, returned>>

TraverseCompoundStatement ==
  /\ NextIs("COMPOUND")
  /\ tasks' = GoOn \o <<Block(Node.blocks[1])>>
  /\ Keeping /\ UNCHANGED <<builder, returned>>

(* The end of a condition, from where g goes on with the first target.       *)
BranchOn(condition, g, targets) ==
  SetInsertPoint(EmitHere(g, Instr("condbr", 0, <<condition.value>>, NoType, "", targets)),
                 targets[1])
ThreeBlocks(g) == NewBlock(NewBlock(NewBlock(g)))
BranchToNew(condition, true) ==
  BranchOn(condition, ThreeBlocks(condition.g), <<true, true + 1>>)

(* The blocks of an if statement are inserted into the function when their   *)
(* turn comes; the place of a block among the others changes nothing here.   *)
TraverseIfStatement ==
  /\ NextIs("IF")
  /\ LET true == Len(builder.code) + 1
         false == true + 1
         merge == true + 2
     IN /\ builder' = BranchToNew(RemoveIndirection(CompileExpr(builder, Node.of[1]),
                                                   Node.of[1].type), true)
        /\ tasks' = GoOn \o <<Frame("then", Node.blocks[2], <<false, merge>>),
                              Block(Node.blocks[1])>>
  /\ Keeping /\ UNCHANGED returned

(* Mutant: a branch that returned goes on as well. *)
BranchAlways(target) == Branch(builder, target)

BranchIfOpen(target) == IF returned = "true" THEN Branch(builder, target) ELSE builder

EndTrueBranch ==
  /\ Working /\ tasks # <<>> /\ returned # "none" /\ Top.kind = "then"
  /\ builder' = SetInsertPoint(BranchIfOpen(Top.to[2]), Top.to[1])
  /\ tasks' = Popped \o <<Frame("else", <<>>, Top.to), Block(Top.rest)>>
  /\ returned' = "none"
  /\ Keeping

EndFalseBranch ==
  /\ Working /\ tasks # <<>> /\ returned # "none" /\ Top.kind = "else"
  /\ builder' = SetInsertPoint(BranchIfOpen(Top.to[2]), Top.to[2])
  /\ tasks' = Popped
  /\ returned' = "none"                  (* the statement itself gives true *)
  /\ Keeping

TraverseWhileStatement ==
  /\ NextIs("WHILE")
  /\ LET condition == Len(builder.code) + 1
         loop == condition + 1
         after == condition + 2
         g == SetInsertPoint(Branch(ThreeBlocks(builder), condition), condition)
         value == RemoveIndirection(CompileExpr(g, Node.of[1]), Node.of[1].type)
     IN /\ builder' = BranchOn(value, value.g, <<loop, after>>)
        /\ tasks' = GoOn \o <<Frame("loop", <<>>, <<condition, after>>), Block(Node.blocks[1])>>
  /\ Keeping /\ UNCHANGED returned

EndLoopBody ==
  /\ Working /\ tasks # <<>> /\ returned # "none" /\ Top.kind = "loop"
  /\ builder' = SetInsertPoint(BranchIfOpen(Top.to[1]), Top.to[2])
  /\ tasks' = Popped
  /\ returned' = "none"
  /\ Keeping

(* A block that ended without a return gives true, and one inside another    *)
(* gives the outer one what it got.                                          *)
EndCompoundStatement ==
  /\ Working /\ tasks # <<>> /\ Top.kind = "block"
  /\ IF returned = "false" THEN UNCHANGED returned
     ELSE /\ Top.rest = <<>>
          /\ returned' = IF Len(tasks) > 1 /\ tasks[Len(tasks) - 1].kind = "block"
                         THEN "none" ELSE "true"
  /\ tasks' = Popped
  /\ Keeping /\ UNCHANGED builder

Next ==
  \/ AnalyseModule \/ DeclareExtern \/ StartFunction \/ FinishFunction \/ Finish \/ Abort
  \/ TraverseReturnStatement \/ TraverseVariableDeclaration \/ TraverseAssignmentStatement
  \/ TraverseExpressionStatement \/ TraverseJump \/ TraverseCompoundStatement
  \/ TraverseIfStatement \/ EndTrueBranch \/ EndFalseBranch
  \/ TraverseWhileStatement \/ EndLoopBody \/ EndCompoundStatement
=============================================================================
