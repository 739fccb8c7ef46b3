----------------------------- MODULE MCCodegen -----------------------------
(* Small programs for TLC.                                                   *)
EXTENDS Codegen

Pair == Tuple(<<I64, I64>>)
N(n) == IntegerLiteral(n)
V(name) == IdExpr(name)
E0(e) == TupleIndexExpr(e, 0)
E1(e) == TupleIndexExpr(e, 1)
Less(l, r) == BinaryOperator("LESS", l, r)
Plus(l, r) == BinaryOperator("PLUS", l, r)
Minus(l, r) == BinaryOperator("MINUS", l, r)
Equal(l, r) == BinaryOperator("EQUALEQUAL", l, r)
Call(name, args) == CallExpr(V(name), args)
Show(e) == ExpressionStmt(Call("println", <<e>>))
Set(l, r) == AssignmentStmt(l, r)
Return(e) == ReturnStmt(<<e>>)

Println == ExternFunction("println", <<<<"value", I64>>>>, Unit)

(* a, t and u are the variables of main, i counts the turns of a loop. *)
MainDecl(body) ==
  FunctionDecl("main", <<<<"a", I64>>, <<"t", Pair>>>>, I64,
               <<VariableDecl("u", Pair, <<V("t")>>), VariableDecl("b", Bool, <<Less(V("a"), N(1))>>)>>
               \o body)

Simple ==
  {Set(V("a"), Plus(V("a"), E0(V("t")))), Set(V("t"), TupleExpr(<<E1(V("t")), V("a")>>)),
   Set(E1(V("u")), E0(V("t"))), Set(V("b"), UnaryOperator("NOT", V("b"))), Show(V("a"))}
Rare ==
  {Return(E1(V("u"))), BreakStmt, VariableDecl("x", Bool, <<V("a")>>), Set(V("u"), V("t")),
   Set(Plus(V("a"), N(1)), V("a")), ExpressionStmt(Equal(V("t"), V("u"))),
   VariableDecl("y", I64, <<>>)}
Inner == {<<s>> : s \in Simple} \cup {<<>>, <<Return(V("a"))>>, <<Show(V("a")), Return(N(3))>>}
Count == Set(V("a"), Plus(V("a"), N(1)))
Ifs ==
  {IfStmt(c, bs) : c \in {V("b"), Less(E0(V("t")), V("a"))},
                   bs \in {<<l, r>> : l, r \in Inner} \cup {<<l>> : l \in Inner}}
Whiles ==
  {WhileStmt(Less(V("a"), N(2)), body) :
     body \in {<<s, Count>> : s \in Simple} \cup
              {<<IfStmt(V("b"), <<l>>), Count>> : l \in Inner} \cup
              {<<Return(V("a"))>>, <<VariableDecl("z", I64, <<Plus(V("a"), N(1))>>), Set(V("a"), V("z"))>>}}
Nested_ ==
  {IfStmt(V("b"), <<<<IfStmt(c, <<l, <<Return(V("a"))>>>>)>>, r>>) :
     c \in {UnaryOperator("NOT", V("b")), Less(V("a"), E1(V("t")))},
     l \in {<<>>, <<Return(N(2))>>}, r \in {<<>>, <<Return(N(1))>>}}
  \cup {CompoundStmt(body) : body \in {<<>>, <<Return(N(1))>>, <<Show(V("a"))>>}}

Controls ==
  LET One == Simple \cup Rare \cup Ifs \cup Whiles \cup Nested_ IN
  {<<s1, Return(V("a"))>> : s1 \in One}
  \cup {<<s1, s2, Show(E0(V("u"))), Return(E1(V("u")))>> :
          s1 \in Ifs \cup Whiles \cup Nested_, s2 \in Simple \cup Nested_}
  \cup {<<s>> : s \in Ifs \cup Nested_}

(* Functions that change the tuple they are given, return one, call          *)
(* themselves, and return nothing.                                           *)
Turn ==
  FunctionDecl("turn", <<<<"p", Pair>>>>, Pair,
    <<VariableDecl("x", I64, <<E0(V("p"))>>), Set(E0(V("p")), E1(V("p"))),
      Set(E1(V("p")), V("x")), Return(V("p"))>>)
Down ==
  FunctionDecl("down", <<<<"n", I64>>>>, I64,
    <<IfStmt(Less(V("n"), N(1)), <<<<Return(V("n"))>>>>),
      VariableDecl("m", I64, <<Call("down", <<Minus(V("n"), N(1))>>)>>),
      Show(V("n")), Return(Plus(V("m"), V("n")))>>)
Tell ==
  FunctionDecl("tell", <<<<"f", Bool>>, <<"p", Pair>>>>, Unit,
    <<IfStmt(V("f"), <<<<Show(E0(V("p"))), Return(TupleExpr(<<>>))>>, <<Show(E1(V("p")))>>>>)>>)

Pairs ==
  {V("t"), Call("turn", <<V("t")>>), Call("turn", <<Call("turn", <<V("u")>>)>>),
   TupleExpr(<<E1(V("t")), Call("down", <<V("a")>>)>>), Call("down", <<N(1)>>),
   TupleExpr(<<V("a"), E0(Call("turn", <<V("t")>>))>>)}
Numbers ==
  {E0(Call("turn", <<V("t")>>)), Plus(Call("down", <<V("a")>>), Call("down", <<N(1)>>)),
   Call("down", <<E0(V("t"))>>), E1(TupleExpr(<<V("b"), V("a")>>)), V("t"),
   E0(E1(TupleExpr(<<V("b"), V("t")>>)))}
Calls ==
  {<<Set(V("u"), p), Show(n), Show(E0(V("t"))), Show(E0(V("u"))), Return(E1(V("u")))>> :
     p \in Pairs, n \in Numbers}
  \cup {<<ExpressionStmt(Call("tell", <<V("b"), p>>)), Return(n)>> : p \in Pairs, n \in Numbers}
  \cup {<<WhileStmt(Less(V("a"), N(2)), <<Set(V("t"), p), Set(V("a"), Plus(V("a"), N(1))), Show(n)>>),
           Return(E0(V("t")))>> : p \in Pairs, n \in Numbers}

(* What the analysis does not look at: the condition of a while statement,   *)
(* an alias of a tuple type, the name of a function as a value, the types of *)
(* an assignment.                                                            *)
Named == Alias(<<"P">>, Pair)
Take == FunctionDecl("take", <<<<"q", Named>>>>, Unit, <<Show(N(1))>>)
Give ==
  FunctionDecl("give", <<<<"q", Named>>>>, Named, <<Return(V("q"))>>)
Unchecked ==
  {WhileStmt(c, <<Return(V("a"))>>) :
     c \in {V("t"), V("p"), V("a"), V("take"), TupleExpr(<<V("a"), V("t")>>),
            E0(TupleExpr(<<V("t")>>)), E0(V("t")), Equal(V("p"), V("p")), Equal(V("a"), N(1))}}
  \cup {Set(V("u"), V("p")), Set(V("p"), V("t")), Set(V("a"), V("take")),
        ExpressionStmt(Equal(V("take"), V("take"))), VariableDecl("w", Named, <<V("p")>>),
        ExpressionStmt(Call("take", <<V("p")>>)), ExpressionStmt(TupleExpr(<<V("a"), V("p")>>)),
        ExpressionStmt(E0(TupleExpr(<<V("a"), V("t")>>))),
        IfStmt(V("b"), <<<<Return(N(2)), Set(V("u"), V("p"))>>>>), Set(E0(V("p")), V("a"))}
Odd ==
  {<<Println, Take, MainDecl(<<VariableDecl("p", Named, <<>>), s, Return(V("a"))>>)>> :
     s \in Unchecked}
  \cup {<<Println, Give, MainDecl(<<Return(V("a"))>>)>>}

MCPrograms ==
  Odd
  \cup {<<Println, MainDecl(body)>> : body \in Controls}
  \cup {<<Println, Turn, Down, Tell, MainDecl(body)>> : body \in Calls}
MCInputs ==
  {<<IntVal(a), Many(<<IntVal(n), IntVal(k)>>)>> : a \in {-1, 0, 3}, n \in {1, 2}, k \in {0, 1}}
=============================================================================
