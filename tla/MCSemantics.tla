---------------------------- MODULE MCSemantics ----------------------------
(* Small programs for TLC: menus of declarations for one to three modules.   *)
EXTENDS Semantics

Node(op, name, isExported, type, args, initial) ==
  [op |-> op, name |-> name, exported |-> isExported, type |-> type,
   args |-> args, initial |-> initial, external |-> FALSE]

User(path) == Type("USER", 0, path, <<>>)
Namespace(name, isExported) == Node("namespace", name, isExported, Unit, <<>>, <<>>)
Fun(name, isExported, args, result) == Node("function", name, isExported, result, args, <<>>)
Extern(name, isExported, args, result) ==
  [Fun(name, isExported, args, result) EXCEPT !.external = TRUE]
Var(name, isExported, type, initial) == Node("variable", name, isExported, type, <<>>, initial)
Named(name, isExported, type) == Node("alias", name, isExported, type, <<>>, <<>>)
Record(name, isExported) == Node("class", name, isExported, Unit, <<>>, <<>>)
Block == Node("block", "", FALSE, Unit, <<>>, <<>>)
Use(path) == Node("use", "", FALSE, Unit, <<>>, path)

Menus(menuA, menuB, menuC) == [A |-> menuA, B |-> menuB, C |-> menuC]
Budgets(a, b, c) == [A |-> a, B |-> b, C |-> c]
ImportsOf(b, c) == [A |-> <<>>, B |-> b, C |-> c]

(* One module: namespaces, functions with parameters, blocks and variables.  *)
Nested ==
  [order |-> <<"A">>, imports |-> ImportsOf(<<>>, <<>>), budget |-> Budgets(5, 0, 0),
   menu |-> Menus({Namespace("n", FALSE), Fun("f", FALSE, <<<<"x", I64>>>>, I64),
                   Var("x", FALSE, I64, <<>>), Var("n", FALSE, I64, <<"x">>),
                   Record("f", FALSE), Block, Use(<<"n", "x">>)}, {}, {})]

(* Namespaces opened again, exported or not, in two modules. *)
Shared ==
  [order |-> <<"A", "B">>, imports |-> ImportsOf(<<"A">>, <<>>), budget |-> Budgets(3, 3, 0),
   menu |-> Menus({Namespace("n", TRUE), Namespace("n", FALSE), Var("x", TRUE, I64, <<>>),
                   Var("x", FALSE, I64, <<>>), Extern("f", TRUE, <<>>, Unit)},
                  {Namespace("n", TRUE), Var("x", FALSE, I64, <<>>),
                   Fun("f", FALSE, <<>>, Unit)}, {})]

(* Two modules that export into one namespace, and one that imports both.    *)
Meeting ==
  [order |-> <<"A", "B", "C">>, imports |-> ImportsOf(<<>>, <<"B", "A">>),
   budget |-> Budgets(2, 3, 1),
   menu |-> Menus({Namespace("n", FALSE), Namespace("n", TRUE), Var("x", TRUE, I64, <<>>)},
                  {Namespace("n", FALSE), Namespace("n", TRUE), Var("y", TRUE, I64, <<>>),
                   Var("x", FALSE, I64, <<>>)},
                  {Namespace("n", TRUE), Var("y", FALSE, I64, <<>>)})]

(* Classes, aliases and functions that mention them, along a chain. *)
Classes ==
  [order |-> <<"A", "B", "C">>, imports |-> ImportsOf(<<"A">>, <<"B">>),
   budget |-> Budgets(4, 2, 1),
   menu |-> Menus({Record("R", TRUE), Var("x", FALSE, I64, <<>>), Var("y", FALSE, Bool, <<>>),
                   Var("z", FALSE, Pointer(User(<<"R">>)), <<>>),
                   Extern("f", TRUE, <<<<"p", User(<<"R">>)>>>>, User(<<"R">>))},
                  {Record("S", TRUE), Var("r", FALSE, User(<<"R">>), <<>>),
                   Named("T", TRUE, User(<<"R">>))},
                  {Extern("g", FALSE, <<<<"p", User(<<"T">>)>>>>, Unit)})]

(* Functions of one name that take the same types in different orders, in    *)
(* and out of a namespace.                                                   *)
F(types) ==
  Extern("f", FALSE, [k \in DOMAIN types |-> <<<<"p", "q", "r">>[k], types[k]>>], Unit)
R == User(<<"R">>)
Q == User(<<"Q">>)
Mangling ==
  [order |-> <<"A", "B">>, imports |-> ImportsOf(<<"A">>, <<>>), budget |-> Budgets(3, 2, 0),
   menu |-> Menus({Namespace("n", TRUE), Record("R", TRUE), Record("Q", TRUE),
                   Named("T", TRUE, Pointer(R)), F(<<R, Q, R>>), F(<<R, Pointer(R)>>)},
                  {Namespace("n", FALSE), F(<<R, Q, Q>>), F(<<Pointer(R), R>>),
                   F(<<R, User(<<"T">>)>>), F(<<Tuple(<<R, Q>>), Tuple(<<R, Q>>)>>),
                   F(<<User(<<"n", "R">>), User(<<"n", "Q">>)>>)}, {})]

MCModules == {"A", "B", "C"}
MCScenarios ==
  [nested |-> Nested, shared |-> Shared, meeting |-> Meeting, classes |-> Classes,
   mangling |-> Mangling]
=============================================================================
