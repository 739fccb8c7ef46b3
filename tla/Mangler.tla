------------------------------ MODULE Mangler ------------------------------
(* The names that functions have in the object files, mangling/Mangler.cpp.  *)
(* A text is a sequence of pieces: <<"id", s>> is mangle_source_name(s), the *)
(* length of s and s, <<"S", i>> the name of a substitution, and <<"is", x>> *)
(* a fixed code. Every step returns the text and the substitutions so far.   *)
EXTENDS Types, TLC

Code(x) == <<<<"is", x>>>>
SourceName(id) == <<<<"id", id[2]>>>>
Mangled(text, subs) == [text |-> text, subs |-> subs]

(* Mutant: the second substitution has the name of the first. *)
SameSubstitutionName(index) == <<"S", IF index <= 1 THEN "" ELSE ToString(index - 2)>>

(* S_, S0_, S1_ and so on. *)
SubstitutionName(index) == <<"S", IF index = 0 THEN "" ELSE ToString(index - 1)>>

(* A text seen before is replaced by the name of its first place in the list *)
(* of substitutions, a new one is added to the list.                         *)
Substitutable(m) ==
  IF \E i \in DOMAIN m.subs : m.subs[i] = m.text
  THEN LET first == CHOOSE i \in DOMAIN m.subs :
                      /\ m.subs[i] = m.text
                      /\ \A j \in 1..(i - 1) : m.subs[j] # m.text
       IN Mangled(<<SubstitutionName(first - 1)>>, m.subs)
  ELSE Mangled(m.text, Append(m.subs, m.text))

(* Every prefix of a nested name can be replaced, the last part cannot.      *)
MangleName(name, subs) ==
  LET prefix[k \in 0..(Len(name) - 1)] ==
        IF k = 0 THEN Mangled(<<>>, subs)
        ELSE LET before == prefix[k - 1]
             IN Substitutable(Mangled(before.text \o SourceName(name[k]), before.subs))
      last == SourceName(name[Len(name)])
  IN IF Len(name) = 1 THEN Mangled(last, subs)
     ELSE LET p == prefix[Len(name) - 1]
          IN Mangled(Code("N") \o p.text \o last \o Code("E"), p.subs)

PrimitiveCode(type) ==
  IF type.kind = "BOOL" THEN "b"
  ELSE LET codes == CASE type.kind = "SIGNED_INT" -> <<"a", "s", "i", "x">>
                      [] type.kind = "UNSIGNED_INT" -> <<"h", "t", "j", "y">>
                      [] type.kind = "CHAR" -> <<"c", "Ds", "Di">>
       IN codes[CASE type.width = 8 -> 1 [] type.width = 16 -> 2
                  [] type.width = 32 -> 3 [] type.width = 64 -> 4]

RECURSIVE MangleType(_, _), MangleTypes(_, _)

(* An alias has the name of the type behind it. *)
MangleType(alias, subs) ==
  LET type == GetOriginal(alias)
      Around(before, types, after) ==
        LET m == MangleTypes(types, subs)
        IN Substitutable(Mangled(before \o m.text \o after, m.subs))
  IN CASE IsPrimitive(type) -> Mangled(Code(PrimitiveCode(type)), subs)
       [] IsUnit(type) -> Mangled(Code("v"), subs)
       [] type.kind = "TUPLE" ->
            Around(Code("u") \o SourceName(<<"", "tuple">>) \o Code("I"),
                   type.of, Code("E"))
       [] type.kind = "POINTER" -> Around(Code("P"), type.of, <<>>)
       [] type.kind = "CLASS" -> Substitutable(MangleName(type.name, subs))
       [] type.kind = "FUNCTION" ->
            LET arguments == Arguments(type)
            IN Around(Code("F") \o IF arguments = <<>> THEN Code("v") ELSE <<>>,
                      arguments, <<>>)

MangleTypes(types, subs) ==
  IF types = <<>> THEN Mangled(<<>>, subs)
  ELSE LET first == MangleType(types[1], subs)
           rest == MangleTypes(Tail(types), first.subs)
       IN Mangled(first.text \o rest.text, rest.subs)

(* The name of a function: its qualified name and its arguments; what it     *)
(* returns is not in the name. `main` keeps its name.                        *)
Mangle(name, type) ==
  IF Len(name) = 1 /\ name[1][2] = "main" THEN Code("main")
  ELSE LET m == MangleName(name, <<>>)
           arguments == Arguments(type)
       IN Code("_Z") \o m.text
            \o IF arguments = <<>> THEN Code("v")
               ELSE MangleTypes(arguments, m.subs).text
=============================================================================
