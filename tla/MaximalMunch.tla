---------------------------- MODULE MaximalMunch ----------------------------
(* What the parser may rely on: the tokens follow each other without gaps,   *)
(* each is the longest text that some token may still begin with, and the    *)
(* last token wins, which only weak ones may match as well.  Only bytes      *)
(* outside the character set lead astray.                                    *)
EXTENDS Integers, Sequences

CONSTANTS
  Symbols,          \* the character set
  Matches(_, _),    \* whether an expression matches a word,
  CanStart(_, _)    \* and whether it matches one that starts with the word

VARIABLES lexicon, regexes, source, location, current

Token(type, begin, end) == [type |-> type, begin |-> begin, end |-> end]
ERROR == -1
END == -2
NoToken == Token(-3, 0, 0)

Word(n) == SubSeq(source, location + 1, location + n)
Viable(n) == \E t \in DOMAIN regexes : CanStart(regexes[t], Word(n))

(* Viable prefixes are closed under prefixes. *)
Longest ==
  CHOOSE n \in 0..(Len(source) - location) :
    /\ Viable(n)
    /\ location + n < Len(source) => ~Viable(n + 1)

Candidates == {t \in DOMAIN regexes : Matches(regexes[t], Word(Longest))}
Winner ==
  CHOOSE t \in Candidates : \A u \in Candidates \ {t} : u < t /\ lexicon[u].weak

(* A byte outside the set is seen when a longer text was still possible. *)
StopsAtWideByte ==
  /\ location + Longest < Len(source)
  /\ source[location + Longest + 1] \notin Symbols
  /\ \E t \in DOMAIN regexes : \E c \in Symbols :
       CanStart(regexes[t], Append(Word(Longest), c))

Open ==
  /\ current.type \in {NoToken.type, END}
  /\ location' = 0
  /\ UNCHANGED current

Munch ==
  /\ location < Len(source)
  /\ ~StopsAtWideByte
  /\ current' = IF Candidates = {} THEN Token(ERROR, location, location + 1)
                ELSE Token(Winner, location, location + Longest)
  /\ location' = current'.end
  /\ UNCHANGED source

AtEnd ==
  /\ location = Len(source)
  /\ current' = Token(END, location, location)
  /\ UNCHANGED <<source, location>>

Astray ==
  /\ \/ location < Len(source) /\ StopsAtWideByte /\ current'.type = ERROR
     \/ location > Len(source)
  /\ location' > location
  /\ UNCHANGED source

Init == location = 0 /\ current = NoToken
Next == Open \/ Munch \/ AtEnd \/ Astray
Spec == Init /\ [][Next]_<<source, location, current>>
=============================================================================
