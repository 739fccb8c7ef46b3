----------------------------- MODULE Semantics -----------------------------
(* What the analysis of declarations promises, stated over the syntax trees  *)
(* alone: which names a module sees, what a name means at a place, which     *)
(* functions the linker takes for the same, and which members a class has.   *)
EXTENDS SemanticAnalyzer, Mangler

Strings(id) == [k \in DOMAIN id |-> id[k][2]]

Here == Current
Begun == {Order[k] : k \in 1..(IF Busy THEN done + 1 ELSE done)}

Seen(path, kind, from) == [path |-> path, kind |-> kind, from |-> from]

-----------------------------------------------------------------------------
(* The declarations of a module, from its syntax tree. *)

Kinds == {"namespace", "function", "variable", "alias", "class"}
DeclaredIn(m) == {k \in DOMAIN ast[m] : ast[m][k].node.op \in Kinds}
Path(e) == Append(e.within, e.node.name)
Around(e) == {SubSeq(e.within, 1, k) : k \in DOMAIN e.within}

Namespaces(m) == {Path(ast[m][k]) : k \in {j \in DeclaredIn(m) : ast[m][j].node.op = "namespace"}}

(* What can be named from outside: only namespaces are around it. *)
Outer(m) == {k \in DeclaredIn(m) : Around(ast[m][k]) \subseteq Namespaces(m)}
SeenAt(m, ks) == {Seen(Path(ast[m][k]), ast[m][k].node.op, m) : k \in ks}
Leaves(seen) == {s \in seen : s.kind # "namespace"}
Enclosing(seen) == UNION {{SubSeq(s.path, 1, k) : k \in 1..(Len(s.path) - 1)} : s \in seen}

RECURSIVE Exports(_)
Imported(m) == UNION {Exports(i) : i \in Range(Imports(m))}

(* A declaration is exported if it says so or a namespace around it is: the  *)
(* first declaration of a namespace decides, if no import made it before.    *)
Exports(m) ==
  LET shared == Enclosing(Imported(m))
      first(path) == CHOOSE k \in DeclaredIn(m) :
                       /\ Path(ast[m][k]) = path
                       /\ \A j \in DeclaredIn(m) : Path(ast[m][j]) = path => k <= j
      exportedSpace(path) == path \notin shared /\ ast[m][first(path)].node.exported
      isExported(k) ==
        \/ ast[m][k].node.op = "namespace" /\ exportedSpace(Path(ast[m][k]))
        \/ ast[m][k].node.op # "namespace" /\ ast[m][k].node.exported
        \/ \E path \in Around(ast[m][k]) : exportedSpace(path)
  IN SeenAt(m, {k \in Outer(m) : isExported(k)})

(* A class or an alias that takes the place of something else is left out:   *)
(* the analysis keeps the first and does not say so.                         *)
Clean ==
  \A m \in Begun : \A k \in DeclaredIn(m) :
    ast[m][k].node.op \in {"class", "alias"} =>
      /\ \A j \in DeclaredIn(m) \ {k} : Path(ast[m][j]) # Path(ast[m][k])
      /\ \A l \in Imported(m) : ~IsPrefix(Path(ast[m][k]), l.path)

-----------------------------------------------------------------------------
(* The scopes from the root through namespaces, with the names to them. *)
Reached(S) ==
  LET to[j \in DOMAIN S] ==
        IF j = 1 THEN <<TRUE, <<>>>>
        ELSE LET up == to[S[j].parent] IN
             <<up[1] /\ Has(S, S[j].parent, S[j].name)
                 /\ S[S[j].parent].symbols[S[j].name].kind = "namespace",
               Append(up[2], S[j].name)>>
  IN {<<j, to[j][2]>> : j \in {i \in DOMAIN S : to[i][1]}}

Reachable(S) ==
  UNION {{Seen(Strings(Append(r[2], key)), S[r[1]].symbols[key].kind,
               S[r[1]].symbols[key].name[1]) :
            key \in {x \in DOMAIN S[r[1]].symbols : S[r[1]].symbols[x].kind # "namespace"}} :
         r \in Reached(S)}

(* A module sees its own declarations and exactly what the modules it        *)
(* imports export, under the names they have there and not a second time:    *)
(* no name is lost, none leaks (inject_symbol, add_to_exported_if_necessary).*)
NamesVisible ==
  (EndInjection /\ Clean) =>
    Reachable(scopes[Here]) = Leaves(SeenAt(Here, Outer(Here)) \cup Imported(Here))

-----------------------------------------------------------------------------
(* Everything the module declares or sees, in any scope. *)
Known ==
  LET parameters(e) == {Seen(Append(Path(e), e.node.args[k][1]), "variable", Here) :
                          k \in DOMAIN e.node.args}
      functions == {k \in DeclaredIn(Here) : ast[Here][k].node.op = "function"}
  IN SeenAt(Here, DeclaredIn(Here)) \cup Leaves(Imported(Here))
       \cup UNION {parameters(ast[Here][k]) : k \in functions}
       \cup {Seen(path, "namespace", Here) : path \in Enclosing(Imported(Here))}

Ids == UNION {[1..n -> {d.name : d \in Menu(Here)} \ {""}] : n \in 1..2}

NamesNamespace(known, path) == \E s \in known : s.path = path /\ s.kind = "namespace"

(* What a name means that stands for the path whole. *)
Means(symbol, known, whole, qualified) ==
  IF \/ ~\E s \in known : s.path = whole
     \/ qualified /\ ~NamesNamespace(known, Front(whole))
  THEN symbol = ThrownSymbol
  ELSE IF symbol.kind = "namespace" THEN NamesNamespace(known, whole)
  ELSE Seen(whole, symbol.kind, symbol.name[1]) \in known

(* The innermost of the places 0 to Len(Within) decides. *)
MeansInnermost(symbol, known, places, id) ==
  IF places = {} THEN symbol = NoSymbol
  ELSE Means(symbol, known, SubSeq(Within, 1, CHOOSE n \in places : \A k \in places : k <= n) \o id,
             Len(id) = 2)

InnermostIn(known) ==
  \A id \in Ids :
    MeansInnermost(NameLookup(scopes[Here], current, LocalId(id)), known,
                   {n \in 0..Len(Within) :
                      \E s \in known : s.path = Append(SubSeq(Within, 1, n), id[1])}, id)

(* A name means the declaration in the innermost place around it that knows  *)
(* its first part, wherever declarations and injected symbols came in        *)
(* between; it is unknown exactly when no place does (name_lookup).          *)
ResolvesInnermost == (EndInjection /\ Clean) => InnermostIn(Known)

-----------------------------------------------------------------------------
RECURSIVE Plain(_)
(* A type without aliases, its names as texts. *)
Plain(alias) ==
  LET type == GetOriginal(alias)
  IN Type(type.kind, type.width, Strings(type.name),
          [k \in DOMAIN type.of |-> Plain(type.of[k])])

(* The functions that the modules so far call or define: every symbol, own   *)
(* or injected, with its path as the object file knows it.                   *)
Linked ==
  UNION {UNION {{[name |-> GetFullyQualifiedName(scopes[m], scopes[m][i].symbols[key]),
                  type |-> scopes[m][i].symbols[key].type] :
                   key \in {x \in DOMAIN scopes[m][i].symbols :
                              scopes[m][i].symbols[x].kind = "function"}} :
                i \in DOMAIN scopes[m]} : m \in Begun}

(* Two function symbols of any modules get the same name for the linker      *)
(* exactly when their qualified names and the types of their arguments are   *)
(* the same: a call in one module finds the definition of another however    *)
(* its types were injected, and no two functions are taken for one.          *)
NamesMatch ==
  LET linked == {[path |-> Strings(f.name),
                  arguments |-> [k \in DOMAIN Arguments(f.type) |->
                                   Plain(Arguments(f.type)[k])],
                  text |-> Mangle(f.name, f.type)] : f \in Linked}
  IN \A f, g \in {l \in linked : l.path # <<"main">>} :
       f.text = g.text <=> f.path = g.path /\ f.arguments = g.arguments

-----------------------------------------------------------------------------
(* The classes that the modules so far declare once and under no name of     *)
(* another class.                                                            *)
ClassAt == {<<m, k>> \in UNION {{m} \X DeclaredIn(m) : m \in Begun} :
              ast[m][k].node.op = "class"}
OwnClasses ==
  {c \in ClassAt : \A d \in ClassAt \ {c} :
     Path(ast[d[1]][d[2]]) # Path(ast[c[1]][c[2]])}

FirstMember(list, string) ==
  LET at == {k \in DOMAIN list : list[k][1][2] = string}
  IN IF at = {} THEN 0 ELSE CHOOSE k \in at : \A j \in at : k <= j

Copies(m, path) == {id \in DOMAIN members[m] : Strings(id) = path}

(* In every module that knows a class, the class is known under strings of   *)
(* that module, and a member is at the place and has the type that the class *)
(* was declared with: an access compiled there hits the same bytes           *)
(* (inject_type, import_external_string).                                    *)
MembersFound ==
  Clean => \A c \in OwnClasses :
    LET path == Path(ast[c[1]][c[2]])
        declared == members[c[1]][[k \in DOMAIN path |-> <<c[1], path[k]>>]]
    IN \A m \in Begun \ {c[1]} : \A id \in Copies(m, path) :
         /\ \A k \in DOMAIN id : id[k][1] = m
         /\ \A k \in DOMAIN declared :
              /\ FirstMember(members[m][id], declared[k][1][2]) = k
              /\ members[m][id][k][1][1] = m
              /\ Plain(members[m][id][k][2]) = Plain(declared[k][2])
=============================================================================
