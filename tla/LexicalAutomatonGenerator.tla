--------------------- MODULE LexicalAutomatonGenerator ---------------------
(* LexicalAutomatonGenerator::build_and_save: the automata of the tokens are *)
(* merged into one, whose states are tuples of theirs.                       *)
EXTENDS LexicalTable

(* The parts it calls, which are modules of their own: RegexParser (Regex),  *)
(* and the automata made from expressions (FiniteAutomata).                  *)
CONSTANTS
  RegexOf(_), NonDeterministicOf(_), DeterministicOf(_), GetMinimal(_), RemovedDeadEnds(_)

CONSTANTS
  Lexicons,   \* the sequences of tokens, in the order of TokenType, that may be asked for
  Helpers     \* the helpers by name, each the text that replaces it

ASSUME LexiconsAssumption == \A l \in Lexicons : l \in Seq(ToSet(l))
VARIABLES
  lexicon,      \* the tokens: [text, weak], where a text may have names of helpers in it
  regexes,      \* what the texts were parsed to
  automata,     \* tokens_automata
  newStates,    \* the keys of new_states, in the order of their numbers
  jumps,        \* the rows of the merged automaton
  waiting,      \* queue, of numbers of states
  phase,        \* where build_and_save is
  file          \* what was saved, <<>> when nothing was

buildVars == <<regexes, automata, newStates, jumps, waiting>>
generatorVars == <<lexicon, phase, file, regexes, automata, newStates, jumps, waiting>>

(* Every helper is replaced by its value in parentheses. *)
Replaced(text) ==
  FoldLeft(LAMBDA out, c :
             out \o (IF c \in DOMAIN Helpers THEN <<"(">> \o Helpers[c] \o <<")">> ELSE <<c>>),
           <<>>, text)

GeneratorInit ==
  /\ lexicon \in Lexicons
  /\ phase = "regexes"
  /\ file = <<>>
  /\ regexes = <<>> /\ automata = <<>> /\ newStates = <<>> /\ jumps = <<>> /\ waiting = <<>>

-----------------------------------------------------------------------------
(* The loop over the tokens: their automata, made minimal and freed of dead  *)
(* ends.  The tokens do not depend on each other, so the order of tokens_    *)
(* does not matter.                                                          *)

ParseRegexes ==
  LET nodes == [t \in DOMAIN lexicon |-> RegexOf(Replaced(lexicon[t].text))]
  IN  /\ phase = "regexes"
      /\ regexes' = nodes
      /\ phase' = CASE Undefined \in ToSet(nodes) -> "undefined"
                    [] Invalid \in ToSet(nodes) -> "invalid"
                    [] OTHER -> "expressions"
      /\ UNCHANGED <<lexicon, file, automata, newStates, jumps, waiting>>

BuildDeterministic ==
  /\ phase = "expressions"
  /\ automata' = [t \in DOMAIN regexes |-> DeterministicOf(NonDeterministicOf(regexes[t]))]
  /\ phase' = "deterministic"
  /\ UNCHANGED <<lexicon, file, regexes, newStates, jumps, waiting>>

Minimise ==
  /\ phase = "deterministic"
  /\ automata' = [t \in DOMAIN automata |-> GetMinimal(automata[t])]
  /\ phase' = "minimal"
  /\ UNCHANGED <<lexicon, file, regexes, newStates, jumps, waiting>>

NoJumps == [c \in Symbols |-> NextState(0)]

(* remove_dead_ends, and the first state of the merged automaton. *)
RemoveDeadEnds ==
  /\ phase = "minimal"
  /\ automata' = [t \in DOMAIN automata |-> RemovedDeadEnds(automata[t])]
  /\ newStates' = <<[t \in DOMAIN automata |-> 0]>>
  /\ jumps' = <<NoJumps>>
  /\ waiting' = <<0>>
  /\ phase' = "merge"
  /\ UNCHANGED <<lexicon, file, regexes>>

-----------------------------------------------------------------------------
(* The loop that merges.                                                     *)

FinalTokens(mapping) ==
  {t \in DOMAIN mapping : mapping[t] # NoNode /\ automata[t][mapping[t]].is_final}

(* Mutant: the weak mark of the token that overrides is asked for. *)
OverlapOfStrong(mapping) ==
  \E t, u \in FinalTokens(mapping) : t < u /\ ~lexicon[u].weak

(* Two final tokens overlap unless all but the last of them are weak. *)
Overlap(mapping) ==
  \E t, u \in FinalTokens(mapping) : t < u /\ ~lexicon[t].weak

Target(mapping, c) ==
  [t \in DOMAIN mapping |->
     IF mapping[t] # NoNode THEN automata[t][mapping[t]].jumps[c] ELSE NoNode]

NoTarget(mapping) == \A t \in DOMAIN mapping : mapping[t] = NoNode

(* The number of an element of a set of numbers, and the set in its order.   *)
Rank(numbers, n) == Cardinality({m \in numbers : m <= n})
Ordered(numbers) ==
  [k \in 1..Cardinality(numbers) |-> CHOOSE n \in numbers : Rank(numbers, n) = k]

(* The symbols that are the first to lead to a state without a number.       *)
Discovering(mapping) ==
  {i \in DOMAIN Characters :
     LET next == Target(mapping, Characters[i])
     IN  /\ ~NoTarget(next)
         /\ next \notin ToSet(newStates)
         /\ \A j \in 1..(i - 1) : Target(mapping, Characters[j]) # next}

(* The states with numbers, those that the symbols lead to included.         *)
Discovered(mapping) ==
  LET symbols == Ordered(Discovering(mapping))
  IN  newStates \o [k \in DOMAIN symbols |-> Target(mapping, Characters[symbols[k]])]

(* Mutant: the first of the final tokens wins. *)
RowOfFirst(mapping, known) ==
  [c \in Symbols |->
     LET next == Target(mapping, c)
     IN  CASE ~NoTarget(next) -> NextState(IndexIn(known, next))
           [] NoTarget(next) /\ FinalTokens(mapping) # {} -> Finish(1, Min(FinalTokens(mapping)))
           [] OTHER -> Reject]

Row(mapping, known) ==
  [c \in Symbols |->
     LET next == Target(mapping, c)
     IN  CASE ~NoTarget(next) -> NextState(IndexIn(known, next))
           [] NoTarget(next) /\ FinalTokens(mapping) # {} -> Finish(1, Max(FinalTokens(mapping)))
           [] OTHER -> Reject]

Unrecognizable(mapping) ==
  FinalTokens(mapping) # {} /\ \A c \in Symbols : ~NoTarget(Target(mapping, c))

(* The exceptions end the call. *)
MergeThrows ==
  LET mapping == newStates[Last(waiting) + 1]
  IN  /\ phase = "merge"
      /\ waiting # <<>>
      /\ Overlap(mapping) \/ Unrecognizable(mapping)
      /\ phase' = IF Overlap(mapping) THEN "overlap" ELSE "unrecognizable"
      /\ UNCHANGED <<lexicon, file, regexes, automata, newStates, jumps, waiting>>

MergeNext ==
  LET index == Last(waiting)
      mapping == newStates[index + 1]
      known == Discovered(mapping)
      fresh == [k \in 1..(Len(known) - Len(newStates)) |-> Len(newStates) + k - 1]
  IN  /\ phase = "merge"
      /\ waiting # <<>>
      /\ ~Overlap(mapping) /\ ~Unrecognizable(mapping)
      /\ newStates' = known
      /\ jumps' = [k \in 1..Len(known) |->
                     IF k = index + 1 THEN Row(mapping, known)
                     ELSE IF k \in DOMAIN jumps THEN jumps[k] ELSE NoJumps]
      /\ waiting' = Front(waiting) \o fresh
      /\ UNCHANGED <<lexicon, phase, file, regexes, automata>>

-----------------------------------------------------------------------------
(* A state from which every symbol leads to the same finish is left out, and *)
(* the jumps to it finish at once.                                           *)

CanCompactNode(row) ==
  /\ row[Eof].kind = "finish"
  /\ \A c \in Symbols : row[c] = row[Eof]
  /\ row[Eof].shift # 0

Kept(rows) == {k \in DOMAIN rows : ~CanCompactNode(rows[k])}

(* Mutant: the shift is not reduced. *)
MappedUnshifted(rows, state) ==
  LET row == rows[state + 1]
  IN  IF CanCompactNode(row) THEN row[Eof] ELSE NextState(Rank(Kept(rows), state))

(* Where a jump to a state of the rows goes afterwards. *)
Mapped(rows, state) ==
  LET row == rows[state + 1]
  IN  IF CanCompactNode(row) THEN Finish(row[Eof].shift - 1, row[Eof].token)
      ELSE NextState(Rank(Kept(rows), state))

Compacted(rows) ==
  LET kept == Ordered(Kept(rows))
  IN  [i \in DOMAIN kept |->
         [c \in Symbols |->
            LET jump == rows[kept[i]][c]
            IN  IF jump.kind = "next" THEN Mapped(rows, jump.state) ELSE jump]]

Compact ==
  /\ phase = "merge"
  /\ waiting = <<>>
  /\ jumps' = Compacted(jumps)
  /\ newStates' = <<>>
  /\ phase' = "compacted"
  /\ UNCHANGED <<lexicon, file, regexes, automata, waiting>>

(* The locals of build_and_save end with it; regexes and automata are kept   *)
(* for the properties.                                                       *)
Save ==
  /\ phase = "compacted"
  /\ file' = Serialized(jumps)
  /\ jumps' = <<>>
  /\ phase' = "saved"
  /\ UNCHANGED <<lexicon, regexes, automata, newStates, waiting>>

GeneratorNext ==
  \/ ParseRegexes \/ BuildDeterministic \/ Minimise \/ RemoveDeadEnds
  \/ MergeThrows \/ MergeNext \/ Compact \/ Save
=============================================================================
