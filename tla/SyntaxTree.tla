----------------------------- MODULE SyntaxTree -----------------------------
(* The nodes of the syntax tree that the bodies of functions are made of,    *)
(* ast/Nodes.h, and what the builders of the parser put into them. The       *)
(* ranges of the source text are left out.                                   *)
EXTENDS Types

(* An expression has a type and a value category once it is analysed.        *)
Expression(kind, op, name, number, of) ==
  [kind |-> kind, op |-> op, name |-> name, number |-> number, of |-> of,
   type |-> NoType, category |-> "UNKNOWN"]

IntegerLiteral(n) == Expression("INTEGER_LITERAL", "", "", n, <<>>)
BoolLiteral(n) == Expression("BOOL_LITERAL", "", "", n, <<>>)
StringLiteral(text) == Expression("STRING_LITERAL", "", text, 0, <<>>)
IdExpr(name) == Expression("ID", "", name, 0, <<>>)
TupleExpr(elements) == Expression("TUPLE", "", "", 0, elements)
TupleIndexExpr(left, index) == Expression("TUPLE_INDEX", "", "", index, <<left>>)
MemberExpr(left, member) == Expression("MEMBER", "", member, 0, <<left>>)
BinaryOperator(op, left, right) == Expression("BINARY", op, "", 0, <<left, right>>)
UnaryOperator(op, value) == Expression("UNARY", op, "", 0, <<value>>)
CallExpr(callee, arguments) == Expression("CALL", "", "", 0, <<callee>> \o arguments)

IsArithmeticOp(e) == e.op \in {"PLUS", "MINUS", "MULTIPLY", "REMAINDER"}
IsInequality(e) == e.op \in {"LESS", "LESS_EQ", "GREATER", "GREATER_EQ"}
IsEquality(e) == e.op \in {"EQUALEQUAL", "NOTEQUAL"}

(* A node around an expression that the analysis puts there. *)
Implicit(kind, e) ==
  [Expression(kind, "", "", 0, <<e>>) EXCEPT !.type = e.type, !.category = "RVALUE"]

(* A statement has expressions and blocks of statements in it. *)
Statement(kind, name, type, of, blocks) ==
  [kind |-> kind, name |-> name, type |-> type, of |-> of, blocks |-> blocks]

CompoundStmt(statements) == Statement("COMPOUND", "", NoType, <<>>, <<statements>>)
ReturnStmt(values) == Statement("RETURN", "", NoType, values, <<>>)
AssignmentStmt(left, right) == Statement("ASSIGNMENT", "", NoType, <<left, right>>, <<>>)
VariableDecl(name, type, initializer) == Statement("VARIABLE", name, type, initializer, <<>>)
ExpressionStmt(value) == Statement("EXPRESSION", "", NoType, <<value>>, <<>>)
WhileStmt(condition, body) == Statement("WHILE", "", NoType, <<condition>>, <<body>>)
BreakStmt == Statement("BREAK", "", NoType, <<>>, <<>>)
ContinueStmt == Statement("CONTINUE", "", NoType, <<>>, <<>>)

(* An if statement without an else gets an empty one. *)
IfStmt(condition, branches) ==
  Statement("IF", "", NoType, <<condition>>,
            IF Len(branches) = 1 THEN Append(branches, <<>>) ELSE branches)

(* parameters are names with their types. *)
FunctionDecl(name, parameters, result, body) ==
  [name |-> name, parameters |-> parameters, result |-> result, body |-> body, external |-> FALSE]
ExternFunction(name, parameters, result) ==
  [FunctionDecl(name, parameters, result, <<>>) EXCEPT !.external = TRUE]
FunctionTypeOf(f) == Function([k \in DOMAIN f.parameters |-> f.parameters[k][2]], f.result)
=============================================================================
