------------------------------- MODULE Scopes -------------------------------
(* The tree of scopes of one module, compilation/Scope.h, as a sequence S of *)
(* scopes that refer to each other by position; the root is the first. A     *)
(* scope maps a StringId to a SymbolInfo, here a record of one shape for the *)
(* five kinds of symbol:                                                     *)
(*   kind, scope     what it is, and the position of the scope it lives in   *)
(*   subscope        the position of the scope it opens (0 if none), in the  *)
(*                   module that declared it for functions and classes       *)
(*   name, exported  of its declaration, which an injected symbol shares     *)
(*                   with the module it comes from                           *)
(*   type            of a variable, function, alias or class                 *)
EXTENDS Types, TLC

Symbol(kind, scope, subscope, name, exported, type) ==
  [kind |-> kind, scope |-> scope, subscope |-> subscope, name |-> name,
   exported |-> exported, type |-> type]
NoSymbol == Symbol("none", 0, 0, <<>>, FALSE, NoType)
ThrownSymbol == Symbol("thrown", 0, 0, <<>>, FALSE, NoType)

Root(name) == <<[name |-> name, parent |-> 0, parentSymbol |-> <<>>, symbols |-> <<>>]>>

Has(S, i, key) == key \in DOMAIN S[i].symbols

AddChild(S, i, name) ==
  Append(S, [name |-> name, parent |-> i, parentSymbol |-> <<>>, symbols |-> <<>>])

(* emplace: what the scope has under this name stays. *)
AddSymbol(S, i, key, symbol) ==
  IF Has(S, i, key) THEN S
  ELSE [S EXCEPT ![i].symbols = key :> symbol @@ @]

(* The scope and key of the symbol that the innermost scope belongs to.      *)
GetParentSymbol(S, i) ==
  LET up[j \in 0..Len(S)] == IF j = 0 \/ S[j].parentSymbol # <<>> THEN j
                             ELSE up[S[j].parent]
  IN IF up[i] = 0 THEN <<>> ELSE S[up[i]].parentSymbol

(* The name of a symbol behind the names of the scopes around it, without    *)
(* the root.                                                                 *)
GetFullyQualifiedName(S, symbol) ==
  LET path[j \in 1..Len(S)] == IF S[j].parent = 0 THEN <<>>
                               ELSE Append(path[S[j].parent], S[j].name)
  IN Append(path[symbol.scope], symbol.name)

(* Mutant: the scope is chosen by the last part of the name. *)
NameLookupLast(S, i, id) ==
  LET up[j \in 0..Len(S)] == IF j = 0 \/ Has(S, j, id[Len(id)]) THEN j
                             ELSE up[S[j].parent]
  IN IF up[i] = 0 THEN NoSymbol ELSE S[up[i]].symbols[id[Len(id)]]

(* The first part is looked for in this scope and the ones around it; from   *)
(* there on every part but the last must name a namespace (std::get and at   *)
(* throw otherwise), and the last must exist.                                *)
NameLookup(S, i, id) ==
  LET up[j \in 0..Len(S)] == IF j = 0 \/ Has(S, j, id[1]) THEN j
                             ELSE up[S[j].parent]
      down[k \in 1..Len(id)] ==
        IF k = 1 THEN up[i]
        ELSE LET j == down[k - 1] IN
             IF j = 0 THEN 0
             ELSE IF ~Has(S, j, id[k - 1]) THEN 0
             ELSE IF S[j].symbols[id[k - 1]].kind # "namespace" THEN 0
             ELSE S[j].symbols[id[k - 1]].subscope
      last == down[Len(id)]
  IN IF up[i] = 0 THEN NoSymbol
     ELSE IF last = 0 THEN ThrownSymbol
     ELSE IF ~Has(S, last, id[Len(id)]) THEN ThrownSymbol
     ELSE S[last].symbols[id[Len(id)]]

(* A class or an alias names a type. *)
GetType(symbol) ==
  IF symbol.kind \in {"class", "alias"} THEN symbol.type ELSE NoType
=============================================================================
