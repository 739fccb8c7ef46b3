------------------------- MODULE ExpressionAnalysis -------------------------
(* The analysis of the bodies of functions, compilation/semantics: every     *)
(* expression gets its type and value category, and the nodes that convert   *)
(* an lvalue are put around it. names maps what is visible to its type; the  *)
(* names of the members of a class come with a class. An expression that is  *)
(* turned down keeps the first verdict instead of a category.                *)
EXTENDS SyntaxTree, TLC, SequencesExt

Verdicts == {"scolded", "crash"}
Verdict(e, verdict) == [e EXCEPT !.category = verdict]
Refused(e) == e.category \in Verdicts

Typed(e, type, category) == [e EXCEPT !.type = type, !.category = category]

(* Nothing is converted twice. *)
ConvertToRvalue(e) ==
  IF e.category = "RVALUE" THEN e ELSE Implicit("LVALUE_TO_RVALUE", e)

AsInitializer(e) ==
  IF e.category = "RVALUE" THEN e
  ELSE IF GetOriginal(e.type).kind = "TUPLE" THEN Implicit("TUPLE_COPY", e)
  ELSE ConvertToRvalue(e)

(* The operands of arithmetic are two integers of one kind and width, those  *)
(* of a comparison only numbers, and those of an equality of one type.       *)
VisitBinaryOperator(e) ==
  LET l == e.of[1].type
      r == e.of[2].type
      node == [e EXCEPT !.of = <<ConvertToRvalue(@[1]), ConvertToRvalue(@[2])>>]
      fits == \/ IsArithmeticOp(e) /\ IsPrimitive(l) /\ l = r
                   /\ l.kind \in {"SIGNED_INT", "UNSIGNED_INT"}
              \/ IsInequality(e) /\ IsArithmetic(l) /\ IsArithmetic(r)
              \/ IsEquality(e) /\ l = r
  IN IF fits THEN Typed(node, IF IsArithmeticOp(e) THEN l ELSE Bool, "RVALUE")
     ELSE Verdict(node, "scolded")

(* Of the unary operators only `not` is implemented. *)
VisitUnaryOperator(e) ==
  IF e.op # "NOT" THEN Verdict(e, "crash")
  ELSE IF e.of[1].type.kind # "BOOL" THEN Verdict(e, "scolded")
  ELSE Typed([e EXCEPT !.of[1] = ConvertToRvalue(@)], Bool, "RVALUE")

VisitCallExpression(e) ==
  LET type == e.of[1].type
      fits == /\ type.kind = "FUNCTION"
              /\ Len(type.of) = Len(e.of)
              /\ \A k \in 1..(Len(type.of) - 1) : type.of[k] = e.of[k + 1].type
  IN IF fits
     THEN Typed([e EXCEPT !.of = [k \in DOMAIN @ |-> IF k = 1 THEN @[1] ELSE AsInitializer(@[k])]],
                Result(type), "RVALUE")
     ELSE Verdict(e, "scolded")

VisitTupleExpression(e) ==
  LET of == [k \in DOMAIN e.of |-> AsInitializer(e.of[k])]
  IN Typed([e EXCEPT !.of = of], Tuple([k \in DOMAIN of |-> of[k].type]), "RVALUE")

(* The type is taken for a tuple whatever it is: of another kind the code    *)
(* reads what is not there.                                                  *)
VisitTupleIndexExpression(e) ==
  LET left == e.of[1] IN
  IF left.type.kind # "TUPLE" THEN Verdict(e, "crash")
  ELSE IF e.number >= Len(left.type.of) THEN Verdict(e, "scolded")
  ELSE Typed(e, left.type.of[e.number + 1], left.category)

(* The first member of the name; an alias of a class is read as a class.     *)
VisitMemberExpression(e, members) ==
  LET left == e.of[1]
      list == members[left.type.name]
      at == {k \in DOMAIN list : list[k][1] = e.name}
      first == CHOOSE k \in at : \A j \in at : k <= j
  IN IF GetOriginal(left.type).kind # "CLASS" THEN Verdict(e, "scolded")
     ELSE IF left.type.kind = "ALIAS" THEN Verdict(e, "crash")
     ELSE IF at = {} THEN Verdict(e, "scolded")
     ELSE Typed([e EXCEPT !.number = first - 1], list[first][2], left.category)

(* The children from the left to the right, then the node itself. *)
RECURSIVE Analyse(_, _, _)
Analyse(e, names, members) ==
  LET of == [k \in DOMAIN e.of |-> Analyse(e.of[k], names, members)]
      refused == {k \in DOMAIN of : Refused(of[k])}
      node == [e EXCEPT !.of = of]
  IN IF refused # {}
     THEN Verdict(e, of[CHOOSE k \in refused : \A j \in refused : k <= j].category)
     ELSE CASE e.kind = "INTEGER_LITERAL" -> Typed(node, I64, "RVALUE")
            [] e.kind = "BOOL_LITERAL" -> Typed(node, Bool, "RVALUE")
            [] e.kind = "STRING_LITERAL" -> Typed(node, Pointer(Primitive("CHAR", 8)), "RVALUE")
            [] e.kind = "ID" -> IF e.name \in DOMAIN names
                                THEN Typed(node, names[e.name], "LVALUE")
                                ELSE Verdict(node, "scolded")
            [] e.kind = "BINARY" -> VisitBinaryOperator(node)
            [] e.kind = "UNARY" -> VisitUnaryOperator(node)
            [] e.kind = "CALL" -> VisitCallExpression(node)
            [] e.kind = "TUPLE" -> VisitTupleExpression(node)
            [] e.kind = "TUPLE_INDEX" -> VisitTupleIndexExpression(node)
            [] e.kind = "MEMBER" -> VisitMemberExpression(node, members)

-----------------------------------------------------------------------------
(* Statements: [s, names, verdict] with the names visible behind it. *)

Passed(s, names) == [s |-> s, names |-> names, verdict |-> "ok"]
Turned(s, names, verdict) == [s |-> s, names |-> names, verdict |-> verdict]

(* A return without a value is dereferenced like one with it. *)
VisitReturnStatement(s, names, result) ==
  IF s.of = <<>> THEN Turned(s, names, "crash")
  ELSE IF s.of[1].type # result THEN Turned(s, names, "scolded")
  ELSE Passed([s EXCEPT !.of[1] = ConvertToRvalue(@)], names)

(* Mutant: a value may be assigned to. *)
AssignAnything(s, names) == Passed([s EXCEPT !.of[2] = ConvertToRvalue(@)], names)

(* The types of the two sides are not compared. *)
VisitAssignmentStatement(s, names) ==
  IF s.of[1].category # "LVALUE" THEN Turned(s, names, "scolded")
  ELSE Passed([s EXCEPT !.of[2] = ConvertToRvalue(@)], names)

(* Only the scope of the declaration is asked for its name. The variables of *)
(* a function have names of their own here, so any name in sight is one.     *)
VisitVariable(s, names) ==
  IF \/ s.name \in DOMAIN names
     \/ s.of # <<>> /\ s.of[1].type # s.type
  THEN Turned(s, names, "scolded")
  ELSE Passed([s EXCEPT !.of = [k \in DOMAIN @ |-> AsInitializer(@[k])]],
              s.name :> s.type @@ names)

First(ks) == CHOOSE k \in ks : \A j \in ks : k <= j

VisitNode(s, names, result) ==
  CASE s.kind = "RETURN" -> VisitReturnStatement(s, names, result)
    [] s.kind = "ASSIGNMENT" -> VisitAssignmentStatement(s, names)
    [] s.kind = "VARIABLE" -> VisitVariable(s, names)
    [] OTHER -> Passed(s, names)

(* A statement whose expressions and blocks were analysed. The condition of  *)
(* an if statement is of type bool; the one of a while statement may be      *)
(* anything.                                                                 *)
VisitStatement(s, of, blocks, names, result) ==
  LET refused == {k \in DOMAIN of : Refused(of[k])}
      turned == {k \in DOMAIN blocks : blocks[k].verdict # "ok"}
  IN IF refused # {} THEN Turned(s, names, of[First(refused)].category)
     ELSE IF s.kind = "IF" /\ of[1].type.kind # "BOOL" THEN Turned(s, names, "scolded")
     ELSE IF turned # {} THEN Turned(s, names, blocks[First(turned)].verdict)
     ELSE VisitNode([s EXCEPT !.of = of, !.blocks = [k \in DOMAIN blocks |-> blocks[k].s]],
                    names, result)

Together(first, rest, names) ==
  IF first.verdict # "ok" THEN first
  ELSE IF rest.verdict # "ok" THEN rest
  ELSE Passed(<<first.s>> \o rest.s, names)

RECURSIVE AnalyseStatement(_, _, _, _), AnalyseBlock(_, _, _, _)

(* The statements of a block in their order, each with what the ones before  *)
(* it declare.                                                               *)
AnalyseBlock(block, names, result, members) ==
  IF block = <<>> THEN Passed(<<>>, names)
  ELSE LET first == AnalyseStatement(block[1], names, result, members)
       IN Together(first, AnalyseBlock(Tail(block), first.names, result, members), names)

AnalyseStatement(s, names, result, members) ==
  VisitStatement(s, [k \in DOMAIN s.of |-> Analyse(s.of[k], names, members)],
                 [k \in DOMAIN s.blocks |-> AnalyseBlock(s.blocks[k], names, result, members)],
                 names, result)

AnalysedModule(functions, analysed) ==
  LET bad == {k \in DOMAIN functions : analysed[k].verdict # "ok"}
  IN IF bad # {} THEN [verdict |-> analysed[First(bad)].verdict, functions |-> <<>>]
     ELSE [verdict |-> "ok",
           functions |-> [k \in DOMAIN functions |->
                            [functions[k] EXCEPT !.body = analysed[k].s]]]

(* The functions of a module in their order; each sees itself and the ones   *)
(* before it.                                                                *)
AnalyseFunctions(functions, members) ==
  LET seen(k) == [n \in {functions[j].name : j \in 1..k} |->
                    FunctionTypeOf(functions[CHOOSE j \in 1..k : functions[j].name = n])]
      names(f) == [n \in {p[1] : p \in Range(f.parameters)} |->
                     LET p == CHOOSE q \in Range(f.parameters) : q[1] = n IN p[2]]
  IN AnalysedModule(functions,
       [k \in DOMAIN functions |->
          AnalyseBlock(functions[k].body, names(functions[k]) @@ seen(k),
                       functions[k].result, members)])
=============================================================================
