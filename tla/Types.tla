------------------------------- MODULE Types -------------------------------
(* The types of the language, compilation/types. PointersStorage keeps one   *)
(* instance of every type, compared by value, so a Type* is its value here   *)
(* and two pointers are the same exactly when the values are. A class is     *)
(* compared by its name alone; its members are kept where they are declared. *)
EXTENDS Integers, Sequences

(* Every type is one record: the width of a primitive type, the name of an   *)
(* alias or a class, and the types it is made of.                            *)
Type(kind, width, name, of) ==
  [kind |-> kind, width |-> width, name |-> name, of |-> of]

Primitive(kind, width) == Type(kind, width, <<>>, <<>>)
Pointer(child) == Type("POINTER", 0, <<>>, <<child>>)
Tuple(elements) == Type("TUPLE", 0, <<>>, elements)
Function(arguments, result) == Type("FUNCTION", 0, <<>>, Append(arguments, result))
Alias(name, original) == Type("ALIAS", 0, name, <<original>>)
Class(name) == Type("CLASS", 0, name, <<>>)

NoType == Type("NONE", 0, <<>>, <<>>)      (* a null pointer *)

Unit == Tuple(<<>>)
I64 == Primitive("SIGNED_INT", 64)
Bool == Primitive("BOOL", 8)

Arguments(type) == SubSeq(type.of, 1, Len(type.of) - 1)
Result(type) == type.of[Len(type.of)]

IsPrimitive(type) == type.kind \in {"SIGNED_INT", "UNSIGNED_INT", "BOOL", "CHAR"}
IsArithmetic(type) == type.kind \in {"SIGNED_INT", "UNSIGNED_INT", "CHAR"}

GetOriginal(type) == IF type.kind = "ALIAS" THEN type.of[1] ELSE type

(* An alias of the unit type is not the unit type, and an alias of a pointer *)
(* is not a pointer.                                                         *)
IsUnit(type) == type.kind = "TUPLE" /\ type.of = <<>>
IsPassedByValue(type) ==
  IsPrimitive(GetOriginal(type)) \/ type.kind = "POINTER" \/ IsUnit(type)
IsStructural(type) == GetOriginal(type).kind \in {"TUPLE", "CLASS"}
=============================================================================
