-------------------------- MODULE SemanticAnalyzer --------------------------
(* The semantic analysis of declarations, compilation/semantics: the modules *)
(* of a program are analysed one after the other, what a module imports      *)
(* before the module. An analysis first injects the exported symbols of the  *)
(* imported modules into the own scopes (NameLookup.cpp), then traverses the *)
(* syntax tree, one declaration, block or use of a name per action. The tree *)
(* is any walk that the grammar allows over a small menu of declarations.    *)
(* A StringId is <<module, string>>: equal strings of two modules are        *)
(* different until they are added to the pool of one module.                 *)
EXTENDS Scopes, FiniteSets, SequencesExt

CONSTANTS Modules,    \* names of modules
          Scenarios   \* functions from names: see ScenariosOK

VARIABLES
  scenario,    \* which of Scenarios this is
  done,        \* how many modules of the order are analysed
  todo,        \* symbols still to inject, one item per loop that runs
  scopes,      \* root_scope with its children, of every module
  exported,    \* exported_symbols: <<scope, key>> of every exported symbol
  members,     \* the members of the classes in types_storage
  current,     \* current_scope_
  ast,         \* the nodes traversed so far, with the names around them
  nesting,     \* the open declarations and blocks, [role, name], innermost last
  counter,     \* anonymous_namespace_counter_
  left,        \* how many nodes the module may still have (a bound)
  verdict      \* "ok", "scolded" (a message to the user), "thrown" (an
               \* exception nobody expects) or "endless" (a call without end)

vars == <<scenario, done, todo, scopes, exported, members, current, ast,
          nesting, counter, left, verdict>>

(* A scenario gives the order in which its modules are analysed, their       *)
(* imports in the order of the declarations, a menu of nodes and a bound on  *)
(* the nodes of each module.                                                 *)
ScenariosOK ==
  \A s \in DOMAIN Scenarios :
    LET order == Scenarios[s].order IN
    /\ Range(order) \subseteq Modules /\ IsInjective(order)
    /\ \A i \in DOMAIN order :
         Range(Scenarios[s].imports[order[i]]) \subseteq {order[j] : j \in 1..(i - 1)}
ASSUME ScenariosOK

Order == Scenarios[scenario].order
Imports(m) == Scenarios[scenario].imports[m]
Menu(m) == Scenarios[scenario].menu[m]
Budget(m) == Scenarios[scenario].budget[m]

(* The module under analysis, or the last one when all are analysed. *)
Busy == done < Len(Order)
Current == Order[IF Busy THEN done + 1 ELSE done]
Local(string) == <<Current, string>>
LocalId(strings) == [k \in DOMAIN strings |-> Local(strings[k])]

(* Mutant: the string stays the one of the other module. *)
KeptString(id) == id

(* The text of a string of another module, added to the own pool. *)
ImportString(id) == Local(id[2])
ImportId(id) == [k \in DOMAIN id |-> ImportString(id[k])]

-----------------------------------------------------------------------------
(* inject_type: the type with its strings and the types it is made of taken  *)
(* from the own storage. A class is visited wherever the type mentions it,   *)
(* and every visit appends its members once more.                            *)

RECURSIVE InjectType(_), ClassesIn(_), Visits(_, _)
InjectType(type) ==
  IF IsPrimitive(type) THEN type
  ELSE Type(type.kind, 0, ImportId(type.name),
            [k \in DOMAIN type.of |-> InjectType(type.of[k])])

ClassesIn(type) == IF type.kind = "CLASS" THEN {type.name}
                   ELSE UNION {ClassesIn(t) : t \in Range(type.of)}

(* A class that reaches itself through its members is copied without end. *)
Endless(type, external) ==
  LET next(names) == UNION {UNION {ClassesIn(external[c][k][2]) :
                                     k \in DOMAIN external[c]} : c \in names}
      reach[n \in 0..Cardinality(DOMAIN external), names \in SUBSET DOMAIN external] ==
        IF n = 0 THEN names ELSE reach[n - 1, names \cup next(names)]
      all == Cardinality(DOMAIN external)
  IN \E c \in reach[all, ClassesIn(type)] : c \in reach[all, next({c})]

(* The classes visited, one entry per visit. *)
Visits(type, external) ==
  IF type.kind = "CLASS"
  THEN <<type.name>> \o FlattenSeq([k \in DOMAIN external[type.name] |->
                                      Visits(external[type.name][k][2], external)])
  ELSE FlattenSeq([k \in DOMAIN type.of |-> Visits(type.of[k], external)])

(* The classes of the module after these visits. *)
CopyClasses(visited, external, into) ==
  LET copied(name) == [k \in DOMAIN external[name] |->
                         <<ImportString(external[name][k][1]),
                           InjectType(external[name][k][2])>>]
      all[k \in 0..Len(visited)] ==
        IF k = 0 THEN into
        ELSE LET name == ImportId(visited[k]) IN
             name :> (IF name \in DOMAIN all[k - 1] THEN all[k - 1][name] ELSE <<>>)
                       \o copied(visited[k])
               @@ all[k - 1]
  IN all[Len(visited)]

(* Mutant: a namespace that is there already is not entered. *)
ChainOutside(S, path, isExported) ==
  LET walk[k \in 0..Len(path)] ==
        IF k = 0 THEN [S |-> S, at |-> 1]
        ELSE LET w == walk[k - 1]
                 name == ImportString(path[k])
             IN IF w.at = 0 \/ Has(w.S, w.at, name) THEN w
                ELSE [S |-> AddSymbol(AddChild(w.S, w.at, name), w.at, name,
                              Symbol("namespace", w.at, Len(w.S) + 1, path[k],
                                     isExported[k], NoType)),
                      at |-> Len(w.S) + 1]
  IN walk[Len(path)]

(* The scope that a chain of namespaces leads to, made where it is missing;  *)
(* at is 0 when a name of the chain is taken by something else.              *)
Chain(S, path, isExported) ==
  LET walk[k \in 0..Len(path)] ==
        IF k = 0 THEN [S |-> S, at |-> 1]
        ELSE LET w == walk[k - 1]
                 name == ImportString(path[k])
                 known == w.S[w.at].symbols[name]
             IN IF w.at = 0 THEN w
                ELSE IF ~Has(w.S, w.at, name)
                THEN [S |-> AddSymbol(AddChild(w.S, w.at, name), w.at, name,
                              Symbol("namespace", w.at, Len(w.S) + 1, path[k],
                                     isExported[k], NoType)),
                      at |-> Len(w.S) + 1]
                ELSE [w EXCEPT !.at = IF known.kind = "namespace" THEN known.subscope ELSE 0]
  IN walk[Len(path)]

SymbolAt(m, ref) == scopes[m][ref[1]].symbols[ref[2]]
SymbolsIn(m, i) == {<<i, key>> : key \in DOMAIN scopes[m][i].symbols}

Fail(outcome) ==
  /\ verdict' = outcome
  /\ UNCHANGED <<scenario, done, todo, scopes, exported, members, current,
                 ast, nesting, counter, left>>

(* The next symbol of the innermost loop: the exported symbols of a module   *)
(* come in their order, the contents of a namespace in any order.            *)
InjectSymbol ==
  /\ verdict = "ok" /\ todo # <<>>
  /\ \E ref \in Head(todo).choices :
       LET from == Head(todo).from
           symbol == SymbolAt(from, ref)
           name == GetFullyQualifiedName(scopes[from], symbol)
           flags == [k \in DOMAIN Front(name) |->
                       NameLookup(scopes[from], 1, SubSeq(name, 1, k)).exported]
           chain == Chain(scopes[Current], Front(name), flags)
           local == ImportString(Last(name))
           rest == IF Head(todo).choices = {ref} THEN Tail(todo)
                   ELSE [todo EXCEPT ![1].choices = @ \ {ref}]
       IN IF chain.at = 0 THEN Fail("thrown")
          ELSE IF Has(chain.S, chain.at, local) THEN Fail("scolded")
          ELSE IF symbol.kind = "namespace"
          THEN LET contents == SymbolsIn(from, symbol.subscope) IN
               /\ todo' = IF contents = {} THEN rest
                          ELSE <<[from |-> from, choices |-> contents]>> \o rest
               /\ scopes' = [scopes EXCEPT ![Current] = chain.S]
               /\ UNCHANGED <<scenario, done, exported, members, current,
                              ast, nesting, counter, left, verdict>>
          ELSE IF Endless(symbol.type, members[from]) THEN Fail("endless")
          ELSE /\ todo' = rest
               /\ members' = [members EXCEPT ![Current] =
                    CopyClasses(Visits(symbol.type, members[from]), members[from], @)]
               /\ scopes' = [scopes EXCEPT ![Current] =
                    AddSymbol(chain.S, chain.at, local,
                      [symbol EXCEPT !.scope = chain.at, !.type = InjectType(@)])]
               /\ UNCHANGED <<scenario, done, exported, current, ast,
                              nesting, counter, left, verdict>>
(* All symbols are injected, the syntax tree is traversed.                   *)
EndInjection == verdict = "ok" /\ todo = <<>>

-----------------------------------------------------------------------------
(* The traversal. A declaration of a menu is a record: op, name, exported,   *)
(* type (a type node; the kind "USER" is a name still to be looked up), args *)
(* (names and type nodes of parameters), initial (the name that initialises  *)
(* a variable, or none) and external.                                        *)

Scope == scopes[Current][current]
Innermost == IF nesting = <<>> THEN "program" ELSE Last(nesting).role
Within == [k \in DOMAIN nesting |-> nesting[k].name]
Open(role, name) == nesting' = Append(nesting, [role |-> role, name |-> name])

NamedType(symbol) ==
  [type |-> GetType(symbol),
   verdict |-> IF symbol.kind = "thrown" THEN "thrown"
               ELSE IF GetType(symbol) = NoType THEN "scolded" ELSE "ok"]

RECURSIVE TypeValue(_, _, _)
(* The type that a node stands for in scope i, or why it has none. *)
TypeValue(S, i, node) ==
  IF IsPrimitive(node) THEN [type |-> node, verdict |-> "ok"]
  ELSE IF node.kind = "USER"
  THEN NamedType(NameLookup(S, i, LocalId(node.name)))
  ELSE LET of == [k \in DOMAIN node.of |-> TypeValue(S, i, node.of[k])]
           bad == {k \in DOMAIN of : of[k].verdict # "ok"}
       IN IF bad = {} THEN [type |-> [node EXCEPT !.of = [k \in DOMAIN of |-> of[k].type]],
                            verdict |-> "ok"]
          ELSE of[CHOOSE k \in bad : \A j \in bad : k <= j]

(* visit_id_expression: the type of a variable or a function. *)
SymbolValue(symbol) ==
  [type |-> symbol.type,
   verdict |-> CASE symbol.kind = "thrown" -> "thrown"
                 [] symbol.kind \in {"variable", "function"} -> "ok"
                 [] OTHER -> "scolded"]
IdExpression(id) == SymbolValue(NameLookup(scopes[Current], current, LocalId(id)))

Visited(d) ==
  /\ ast' = [ast EXCEPT ![Current] = Append(@, [within |-> Within, node |-> d])]
  /\ left' = left - 1

(* One node of the tree that fits here. *)
Traverse(d, places) ==
  /\ EndInjection /\ Busy
  /\ Innermost \in places
  /\ d.exported => Innermost \in {"program", "namespace"}
  /\ left > 0

Unchanged == UNCHANGED <<scenario, done, todo, counter, verdict>>

(* add_to_exported_if_necessary: the declaration the symbol has decides. *)
Export(S, key) ==
  exported' = [exported EXCEPT ![Current] =
    IF S[current].symbols[key].exported THEN Append(@, <<current, key>>) ELSE @]

TraverseNamespaceDeclaration(d) ==
  LET key == Local(d.name)
      S == scopes[Current]
      child == Len(S) + 1
      made == AddSymbol(AddChild(S, current, key), current, key,
                Symbol("namespace", current, child, key, d.exported, NoType))
  IN /\ Traverse(d, {"program", "namespace"}) /\ d.op = "namespace"
     /\ IF Has(S, current, key) /\ S[current].symbols[key].kind # "namespace"
        THEN Fail("scolded")
        ELSE /\ IF Has(S, current, key)
                THEN /\ current' = S[current].symbols[key].subscope
                     /\ UNCHANGED <<scopes, exported>>
                ELSE /\ scopes' = [scopes EXCEPT ![Current] = made]
                     /\ Export(made, key)
                     /\ current' = child
             /\ Open("namespace", d.name)
             /\ Visited(d) /\ Unchanged /\ UNCHANGED members

AddParameter(before, inner, key, type) ==
  IF type.verdict # "ok" THEN [before EXCEPT !.verdict = type.verdict]
  ELSE IF Has(before.S, inner, key) THEN [before EXCEPT !.verdict = "scolded"]
  ELSE [S |-> AddSymbol(before.S, inner, key,
                        Symbol("variable", inner, 0, key, FALSE, type.type)),
        types |-> Append(before.types, type.type), verdict |-> "ok"]

(* The parameters are declared in the new scope one by one, so the types of  *)
(* the later ones and of the result are looked up with the earlier in sight. *)
Parameters(S, args, inner) ==
  LET add[k \in 0..Len(args)] ==
        IF k = 0 THEN [S |-> S, types |-> <<>>, verdict |-> "ok"]
        ELSE LET before == add[k - 1]
             IN IF before.verdict # "ok" THEN before
                ELSE AddParameter(before, inner, Local(args[k][1]),
                                  TypeValue(before.S, inner, args[k][2]))
  IN add[Len(args)]

FunctionDeclared(d, inner, S) ==
  /\ scopes' = [scopes EXCEPT ![Current] = S]
  /\ Export(S, Local(d.name))
  /\ IF d.external THEN UNCHANGED <<current, nesting>>
     ELSE current' = inner /\ Open("function", d.name)
  /\ Visited(d) /\ Unchanged /\ UNCHANGED members

DeclareFunction(d, inner, parameters, result) ==
  IF parameters.verdict # "ok" THEN Fail(parameters.verdict)
  ELSE IF result.verdict # "ok" THEN Fail(result.verdict)
  ELSE FunctionDeclared(d, inner,
         [parameters.S EXCEPT ![current].symbols[Local(d.name)].type =
            Function(parameters.types, result.type)])

(* The scope opens, the parameters and the result get their types, the       *)
(* symbol gets the type of the function and is exported; the body follows.   *)
TraverseFunctionDeclaration(d) ==
  LET key == Local(d.name)
      S == scopes[Current]
      inner == Len(S) + 1
      opened == [AddSymbol(AddChild(S, current, key), current, key,
                   Symbol("function", current, inner, key, d.exported, NoType))
                   EXCEPT ![inner].parentSymbol = <<current, key>>]
      parameters == Parameters(opened, d.args, inner)
  IN /\ Traverse(d, {"program", "namespace"}) /\ d.op = "function"
     /\ IF Has(S, current, key) THEN Fail("scolded")
        ELSE DeclareFunction(d, inner, parameters, TypeValue(parameters.S, inner, d.type))

DeclareVariable(d, key, type, initial) ==
  LET S == scopes[Current]
      parent == GetParentSymbol(S, current)
      inClass == parent # <<>> /\ S[parent[1]].symbols[parent[2]].kind = "class"
      made == AddSymbol(S, current, key,
                Symbol("variable", current, 0, key, d.exported, type.type))
  IN IF type.verdict # "ok" THEN Fail(type.verdict)
     ELSE IF initial.verdict # "ok" THEN Fail(initial.verdict)
     ELSE IF Has(S, current, key) \/ initial.type # type.type THEN Fail("scolded")
     ELSE /\ scopes' = [scopes EXCEPT ![Current] = made]
          /\ Export(made, key)
          /\ members' =
               IF ~inClass THEN members
               ELSE [members EXCEPT ![Current][S[parent[1]].symbols[parent[2]].type.name]
                       = Append(@, <<key, type.type>>)]
          /\ Visited(d) /\ Unchanged /\ UNCHANGED <<current, nesting>>

(* A variable inside a class becomes a member. Its initial value is looked   *)
(* up before the variable is declared and compared after that.               *)
VisitVariableDeclaration(d) ==
  LET type == TypeValue(scopes[Current], current, d.type)
  IN /\ Traverse(d, {"program", "namespace", "class", "function", "block"})
     /\ d.op = "variable"
     /\ DeclareVariable(d, Local(d.name), type,
                        IF d.initial = <<>> THEN type ELSE IdExpression(d.initial))

(* An alias of an alias refers to what is behind it. A second alias of the   *)
(* name replaces the type of the first, and anything else under the name     *)
(* makes std::get throw.                                                     *)
VisitTypeAliasDeclaration(d) ==
  LET key == Local(d.name)
      S == scopes[Current]
      original == TypeValue(S, current, d.type)
      first == AddSymbol(S, current, key,
                 Symbol("alias", current, 0, key, d.exported, NoType))
      symbol == first[current].symbols[key]
      type == Alias(GetFullyQualifiedName(first, symbol), GetOriginal(original.type))
      made == [first EXCEPT ![current].symbols[key].type = type]
  IN /\ Traverse(d, {"program", "namespace"}) /\ d.op = "alias"
     /\ IF original.verdict # "ok" THEN Fail(original.verdict)
        ELSE IF symbol.kind # "alias" THEN Fail("thrown")
        ELSE /\ scopes' = [scopes EXCEPT ![Current] = made]
             /\ Export(made, key)
             /\ Visited(d) /\ Unchanged /\ UNCHANGED <<current, nesting, members>>

(* What the scope has under the name of a class stays, and the variables in  *)
(* the body belong to it; the class is exported as its own declaration says. *)
TraverseClassDeclaration(d) ==
  LET key == Local(d.name)
      S == scopes[Current]
      inner == Len(S) + 1
      symbol == Symbol("class", current, inner, key, d.exported, NoType)
      type == Class(GetFullyQualifiedName(S, symbol))
      made == [AddSymbol(AddChild(S, current, key), current, key,
                         [symbol EXCEPT !.type = type])
                 EXCEPT ![inner].parentSymbol = <<current, key>>]
  IN /\ Traverse(d, {"program", "namespace"}) /\ d.op = "class"
     /\ scopes' = [scopes EXCEPT ![Current] = made]
     /\ members' = [members EXCEPT ![Current] =
          IF type.name \in DOMAIN @ THEN @ ELSE type.name :> <<>> @@ @]
     /\ exported' = [exported EXCEPT ![Current] =
          IF d.exported THEN Append(@, <<current, key>>) ELSE @]
     /\ current' = inner /\ Open("class", d.name)
     /\ Visited(d) /\ Unchanged

TraverseCompoundStatement(d) ==
  /\ Traverse(d, {"function", "block"}) /\ d.op = "block"
  /\ scopes' = [scopes EXCEPT ![Current] =
       AddChild(@, current, Local(ToString(counter)))]
  /\ current' = Len(scopes[Current]) + 1
  /\ counter' = counter + 1
  /\ Open("block", ToString(counter))
  /\ Visited(d) /\ UNCHANGED <<scenario, done, todo, exported, members, verdict>>

VisitIdExpression(d) ==
  /\ Traverse(d, {"function", "block"}) /\ d.op = "use"
  /\ IF IdExpression(d.initial).verdict # "ok"
     THEN Fail(IdExpression(d.initial).verdict)
     ELSE /\ Visited(d) /\ Unchanged
          /\ UNCHANGED <<scopes, exported, members, current, nesting>>

(* The end of the innermost declaration or block: ~NestedScopeRAII. *)
Close ==
  /\ EndInjection /\ Busy /\ nesting # <<>>
  /\ current' = Scope.parent
  /\ nesting' = Front(nesting)
  /\ UNCHANGED <<scenario, done, todo, scopes, exported, members, ast,
                 counter, left, verdict>>

-----------------------------------------------------------------------------

(* What analyze() goes through first for module m. *)
Injections(m) ==
  LET ofModule(from) == [k \in DOMAIN exported[from] |->
                           [from |-> from, choices |-> {exported[from][k]}]]
  IN FlattenSeq([k \in DOMAIN Imports(m) |-> ofModule(Imports(m)[k])])

Init ==
  /\ scenario \in DOMAIN Scenarios
  /\ done = 0 /\ todo = <<>>
  /\ scopes = [m \in Modules |-> Root(<<m, "module">>)]
  /\ exported = [m \in Modules |-> <<>>]
  /\ members = [m \in Modules |-> <<>>]
  /\ ast = [m \in Modules |-> <<>>]
  /\ current = 1 /\ nesting = <<>> /\ counter = 0
  /\ left = Budget(Order[1])
  /\ verdict = "ok"

(* The module is analysed, the next one begins. *)
EndModule ==
  /\ EndInjection /\ Busy /\ nesting = <<>>
  /\ done' = done + 1
  /\ current' = 1 /\ counter' = 0
  /\ IF done + 1 < Len(Order)
     THEN todo' = Injections(Order[done + 2]) /\ left' = Budget(Order[done + 2])
     ELSE todo' = <<>> /\ left' = 0
  /\ UNCHANGED <<scenario, scopes, exported, members, ast, nesting, verdict>>

TraverseDeclaration(d) ==
  \/ TraverseNamespaceDeclaration(d)
  \/ TraverseFunctionDeclaration(d)
  \/ VisitVariableDeclaration(d)
  \/ VisitTypeAliasDeclaration(d)
  \/ TraverseClassDeclaration(d)
  \/ TraverseCompoundStatement(d)
  \/ VisitIdExpression(d)

Next ==
  \/ InjectSymbol
  \/ \E d \in Menu(Current) : TraverseDeclaration(d)
  \/ Close
  \/ EndModule

Spec == Init /\ [][Next]_vars
=============================================================================
