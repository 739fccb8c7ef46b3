---------------------------- MODULE LexicalTable ----------------------------
(* What the table of the lexer is made of: the characters, Charset.h, and    *)
(* the jumps of the automaton on them, LexicalAutomatonState.h; and how a    *)
(* table is written to a file and read back, LexicalTableSerializer.cpp.  A  *)
(* file is a sequence of numbers.  With what the stages before the table     *)
(* hand on when there is no expression or no node.                           *)
EXTENDS Integers, Sequences, SequencesExt

(* The characters the automata know, in the order of their codes.  The first *)
(* is the null character, which also stands for the end of file.             *)
CONSTANT Characters

ASSUME CharactersAssumption ==
  /\ Characters \in Seq(ToSet(Characters)) /\ Characters # <<>>
  /\ IsInjective(Characters)

Symbols == ToSet(Characters)
Eof == Characters[1]
Code(c) == CHOOSE i \in DOMAIN Characters : Characters[i] = c

(* Why a text has no expression, and the jump that leads to no node.         *)
Invalid == <<"invalid">>
Undefined == <<"undefined">>
NoNode == -1

(* Nodes are numbered from 0 on, in the order of a list.                     *)
IndexIn(list, x) == (CHOOSE i \in DOMAIN list : list[i] = x) - 1

-----------------------------------------------------------------------------

NextState(state) == [kind |-> "next", state |-> state]
Finish(shift, token) == [kind |-> "finish", shift |-> shift, token |-> token]
Reject == [kind |-> "reject"]

Written(jump) ==
  CASE jump.kind = "next" -> <<0, jump.state>>
    [] jump.kind = "finish" -> <<1, jump.shift, jump.token>>
    [] jump.kind = "reject" -> <<2>>

(* A table is a sequence of rows, a row has a jump for each symbol. *)
RowWritten(row) == FlattenSeq([i \in DOMAIN Characters |-> Written(row[Characters[i]])])
Serialized(rows) == <<Len(rows)>> \o FlattenSeq([i \in DOMAIN rows |-> RowWritten(rows[i])])

(* How many numbers the jump takes that starts at an index, and the jump. *)
Size(numbers, at) == CASE numbers[at] = 0 -> 2 [] numbers[at] = 1 -> 3 [] OTHER -> 1
JumpRead(numbers, at) ==
  CASE numbers[at] = 0 -> NextState(numbers[at + 1])
    [] numbers[at] = 1 -> Finish(numbers[at + 1], numbers[at + 2])
    [] numbers[at] = 2 -> Reject

(* The index behind a number of jumps, by the index of the first.            *)
BehindJumps(numbers) ==
  LET behind[count \in Nat] ==
        [at \in Nat |->
           IF count = 0 THEN at
           ELSE LET last == behind[count - 1][at] IN last + Size(numbers, last)]
  IN  behind

(* The index behind a number of rows. *)
BehindRows(numbers) ==
  LET behind[count \in Nat] ==
        IF count = 0 THEN 2 ELSE BehindJumps(numbers)[Len(Characters)][behind[count - 1]]
  IN  behind

Deserialized(numbers) ==
  [i \in 1..numbers[1] |->
     LET row == BehindRows(numbers)[i - 1]
     IN  [c \in Symbols |-> JumpRead(numbers, BehindJumps(numbers)[Code(c) - 1][row])]]
=============================================================================
