------------------------------ MODULE LRParser ------------------------------
(* The parser and its error recovery (syntax/lr/LRParser.cpp).  A source     *)
(* file is its sequence of tokens; a syntax tree is its root symbol and the  *)
(* range of tokens it covers.  The tables are those that LRTableBuilder made *)
(* from a grammar.                                                           *)
EXTENDS LRTables, FiniteSets

CONSTANTS
  Grammars,                          \* names of the grammars considered
  Inputs,                            \* grammar -> the token sequences considered
  Sentences,                         \* grammar -> those of them that it derives
  OpenBrace, CloseBrace, Semicolon   \* the tokens RecoveryTree knows

ASSUME RulesAssumption ==
  \A g \in Grammars : /\ \A r \in Rules[g] : r.from \notin Tokens
                      /\ StartSymbol[g] \notin Tokens

(* The tables are such as LRTableBuilder makes. *)
ASSUME TablesAssumption == \A g \in Grammars : TablesFit(g)

(* Braces pair in a sequence of symbols.                                     *)
Opened(tokens, k) == Cardinality({i \in 1..k : tokens[i] = OpenBrace})
Closed(tokens, k) == Cardinality({i \in 1..k : tokens[i] = CloseBrace})
BracesPair(tokens) ==
  /\ Opened(tokens, Len(tokens)) = Closed(tokens, Len(tokens))
  /\ \A k \in 1..Len(tokens) : Closed(tokens, k) <= Opened(tokens, k)

(* No rule of the grammar opens a block that it does not close: grammar.txt  *)
(* has a closing brace for each opening one in the same rule.                *)
ASSUME BracesAssumption == \A g \in Grammars : \A r \in Rules[g] : BracesPair(r.to)

ASSUME InputsAssumption ==
  /\ End \in Tokens /\ {OpenBrace, CloseBrace} \subseteq Tokens
  /\ OpenBrace # CloseBrace /\ {End, Semicolon} \cap {OpenBrace, CloseBrace} = {}
  /\ \A g \in Grammars : Inputs[g] \subseteq Seq(Tokens \ {End})

VARIABLES
  grammar,      \* the grammar the tables were made from
  input,        \* the tokens of the file
  pos,          \* index of current_token; Len(input) + 1 at the end
  states,       \* states_stack
  nodes,        \* nodes_stack
  tree,         \* RecoveryTree::nodes_, each by its prev_states_count
  isBroken,     \* RecoveryTree::is_broken_
  prunePoint,   \* prune_point of the running prune_subtree
  errors,       \* positions of the tokens reported as unexpected
  phase,        \* "parse", "prune", or the way parse() ended
  ast           \* context.ast_root, or NoTree

vars == <<grammar, input, pos, states, nodes, tree, isBroken, prunePoint, errors,
          phase, ast>>

Node(symbol, begin, end) == [symbol |-> symbol, begin |-> begin, end |-> end]
NoTree == Node("none", 0, 0)

Actions == Tables[grammar].actions
StateNumbers == DOMAIN Actions
CurrentToken == IF pos <= Len(input) THEN input[pos] ELSE End
NextPos == IF pos <= Len(input) THEN pos + 1 ELSE pos

Init ==
  /\ grammar \in Grammars
  /\ input \in Inputs[grammar]
  /\ pos = 1
  /\ states = <<0>>
  /\ nodes = <<>>
  /\ tree = <<1>>
  /\ isBroken = FALSE
  /\ prunePoint = 0
  /\ errors = {}
  /\ phase = "parse"
  /\ ast = NoTree

-----------------------------------------------------------------------------
(* RecoveryTree.                                                             *)

(* swallow_token: a brace opens or closes a node. *)
Swallow(token, count) ==
  IF isBroken THEN UNCHANGED <<tree, isBroken>>
  ELSE /\ tree' = CASE token = OpenBrace -> Append(tree, count)
                    [] token = CloseBrace -> SubSeq(tree, 1, Len(tree) - 1)
                    [] OTHER -> tree
       /\ isBroken' = (tree' = <<>>)

(* vector::resize: a longer stack is filled with zeros. *)
Resize(stack, size) ==
  [i \in 1..size |-> IF i <= Len(stack) THEN stack[i] ELSE 0]

(* prune_subtree is over: the errors are thrown or the parser goes on. *)
Resume == phase' = IF isBroken THEN "rejected" ELSE "parse"

(* Mutant: the token where pruning stops is consumed. *)
StopBehind ==
  /\ phase = "prune"
  /\ \/ CurrentToken = End
     \/ Len(tree) = prunePoint /\ CurrentToken = CloseBrace
  /\ pos' = pos + 1
  /\ Resume
  /\ UNCHANGED <<grammar, input, states, nodes, tree, isBroken, prunePoint, errors, ast>>

(* The place where prune_subtree stops: the end, or the brace that closes    *)
(* the block of the error, both left to the parser ...                       *)
StopBefore ==
  /\ phase = "prune"
  /\ \/ CurrentToken = End
     \/ Len(tree) = prunePoint /\ CurrentToken = CloseBrace
  /\ Resume
  /\ UNCHANGED <<grammar, input, pos, states, nodes, tree, isBroken, prunePoint,
                 errors, ast>>

(* Mutant: the semicolon is left to the parser. *)
StopAtSemicolon ==
  /\ phase = "prune"
  /\ Len(tree) = prunePoint
  /\ CurrentToken = Semicolon
  /\ Resume
  /\ UNCHANGED <<grammar, input, pos, states, nodes, tree, isBroken, prunePoint,
                 errors, ast>>

(* ... or a semicolon of the block, which is skipped. *)
StopAfter ==
  /\ phase = "prune"
  /\ Len(tree) = prunePoint
  /\ CurrentToken = Semicolon
  /\ pos' = NextPos
  /\ Resume
  /\ UNCHANGED <<grammar, input, states, nodes, tree, isBroken, prunePoint, errors,
                 ast>>

(* Mutant: the tokens skipped are not shown to the tree. *)
SkipSilently ==
  /\ phase = "prune"
  /\ CurrentToken # End
  /\ ~(Len(tree) = prunePoint /\ CurrentToken \in {CloseBrace, Semicolon})
  /\ pos' = NextPos
  /\ UNCHANGED <<grammar, input, states, nodes, tree, isBroken, prunePoint, errors,
                 phase, ast>>

(* Mutant: the brace that closes the block of the error is skipped too. *)
SkipPastBlock ==
  /\ phase = "prune"
  /\ CurrentToken # End
  /\ ~(Len(tree) = prunePoint /\ CurrentToken = Semicolon)
  /\ Swallow(CurrentToken, 0)
  /\ pos' = NextPos
  /\ UNCHANGED <<grammar, input, states, nodes, prunePoint, errors, phase, ast>>

Skip ==
  /\ phase = "prune"
  /\ CurrentToken # End
  /\ ~(Len(tree) = prunePoint /\ CurrentToken \in {CloseBrace, Semicolon})
  /\ Swallow(CurrentToken, 0)
  /\ pos' = NextPos
  /\ UNCHANGED <<grammar, input, states, nodes, prunePoint, errors, phase, ast>>

-----------------------------------------------------------------------------
(* LRParser::parse.                                                          *)

(* states_stack.back().  The back of an empty vector is whatever lies there. *)
Back(stack) == IF stack = <<>> THEN StateNumbers ELSE {stack[Len(stack)]}

Choice(kind) == {a \in {Actions[s][CurrentToken] : s \in Back(states)} : a.kind = kind}

(* The end of the file.  The builders of the nodes have errors of their own  *)
(* (a number that does not fit), which reject a file after its tree is kept. *)
AcceptInput ==
  /\ phase = "parse"
  /\ Choice("accept") # {}
  /\ IF errors = {}
       THEN phase' \in {"accepted", "rejected"} /\ ast' = nodes[1]
       ELSE phase' = "rejected" /\ ast' = ast
  /\ UNCHANGED <<grammar, input, pos, states, nodes, tree, isBroken, prunePoint, errors>>

(* An unexpected token: back to where the innermost open block started. *)
RejectToken ==
  /\ phase = "parse"
  /\ Choice("reject") # {}
  /\ errors' = errors \cup {pos}
  /\ IF isBroken
       THEN phase' = "rejected" /\ UNCHANGED <<states, nodes, prunePoint>>
       ELSE /\ phase' = "prune"
            /\ states' = Resize(states, tree[Len(tree)])
            /\ nodes' = <<>>
            /\ prunePoint' = Len(tree)
  /\ UNCHANGED <<grammar, input, pos, tree, isBroken, ast>>

(* Mutant: the tree counts the states before the shift. *)
ShiftAfterSwallow ==
  /\ phase = "parse"
  /\ \E a \in Choice("shift") : states' = Append(states, a.next)
  /\ nodes' = IF errors = {} THEN Append(nodes, Node(CurrentToken, pos - 1, pos)) ELSE nodes
  /\ Swallow(CurrentToken, Len(states))
  /\ pos' = NextPos
  /\ UNCHANGED <<grammar, input, prunePoint, errors, phase, ast>>

ShiftToken ==
  /\ phase = "parse"
  /\ \E a \in Choice("shift") : states' = Append(states, a.next)
  /\ nodes' = IF errors = {} THEN Append(nodes, Node(CurrentToken, pos - 1, pos)) ELSE nodes
  /\ Swallow(CurrentToken, Len(states'))
  /\ pos' = NextPos
  /\ UNCHANGED <<grammar, input, prunePoint, errors, phase, ast>>

(* Mutant: a reduced node ends where its first part ends. *)
MergedFirst(symbol, parts) ==
  IF parts = <<>> THEN Node(symbol, pos - 1, pos - 1)
  ELSE Node(symbol, parts[1].begin, parts[1].end)

(* The node of a reduction covers those of the body, or nothing. *)
Merged(symbol, parts) ==
  IF parts = <<>> THEN Node(symbol, pos - 1, pos - 1)
  ELSE Node(symbol, parts[1].begin, parts[Len(parts)].end)

ReduceRule ==
  /\ phase = "parse"
  /\ \E a \in Choice("reduce") :
       /\ a.count <= Len(states)
       /\ nodes' = IF errors # {} THEN nodes
                   ELSE LET rest == Len(nodes) - a.count IN
                        Append(SubSeq(nodes, 1, rest),
                               Merged(a.next, SubSeq(nodes, rest + 1, Len(nodes))))
       /\ LET below == SubSeq(states, 1, Len(states) - a.count) IN
          \E s \in Back(below) :
            states' = Append(below, Tables[grammar].goto[s][a.next])
  /\ UNCHANGED <<grammar, input, pos, tree, isBroken, prunePoint, errors, phase, ast>>

(* Reading below an empty stack ends the process, or the number of states    *)
(* to remove exceeds those there are and resize throws.                      *)
Crash ==
  /\ phase = "parse"
  /\ \/ states = <<>>
     \/ \E a \in Choice("reduce") : a.count > Len(states)
  /\ phase' = "crashed"
  /\ UNCHANGED <<grammar, input, pos, states, nodes, tree, isBroken, prunePoint,
                 errors, ast>>

Ended == phase \in {"accepted", "rejected", "crashed"}
Terminated == Ended /\ UNCHANGED vars

Next ==
  \/ AcceptInput \/ RejectToken \/ ShiftToken \/ ReduceRule \/ Crash
  \/ StopBefore \/ StopAfter \/ Skip
  \/ Terminated

(* The parser is a loop of one thread: it takes its next step. *)
Spec == Init /\ [][Next]_vars /\ WF_vars(Next)

-----------------------------------------------------------------------------
(* Properties.                                                               *)

TypeOK ==
  /\ grammar \in Grammars
  /\ input \in Inputs[grammar]
  /\ pos \in 1..(Len(input) + 1)
  /\ states \in Seq(StateNumbers)
  /\ tree \in Seq(Nat)
  /\ isBroken \in BOOLEAN
  /\ prunePoint \in Nat
  /\ errors \subseteq 1..(Len(input) + 1)
  /\ phase \in {"parse", "prune", "accepted", "rejected", "crashed"}

(* The generated tables parse the language of the grammar: a file without    *)
(* errors is a sentence, and no sentence is reported as an error.            *)
SentencesAccepted ==
  /\ phase = "accepted" => input \in Sentences[grammar]
  /\ errors # {} => input \notin Sentences[grammar]

(* The nodes on the stack cover the tokens read so far, one for every state  *)
(* but the first.                                                            *)
NodesTile ==
  /\ Len(nodes) + 1 = Len(states)
  /\ \A i \in 1..Len(nodes) : nodes[i].begin = IF i = 1 THEN 0 ELSE nodes[i - 1].end
  /\ pos - 1 = IF nodes = <<>> THEN 0 ELSE nodes[Len(nodes)].end

(* Until the first error there is a node for every state but the first, and  *)
(* the nodes cover the tokens read so far without gap or overlap; the tree   *)
(* that parse() leaves is the start symbol over the whole file.              *)
NodesCoverInput ==
  /\ errors = {} /\ phase = "parse" => NodesTile
  /\ phase = "accepted" => ast = Node(StartSymbol[grammar], 0, Len(input))

Balanced == BracesPair(input)

(* The recovery tree follows the tokens consumed, by the parser or skipped:  *)
(* it has one node for every block that is open.                             *)
TreeFollowsBlocks ==
  Len(tree) + Closed(input, pos - 1) = 1 + Opened(input, pos - 1)

(* swallow_token gives up on unbalanced braces, but it never sees any: the   *)
(* tables shift no brace that closes nothing, and prune_subtree stops before *)
(* it.  The exits of parse() for a broken tree are never taken.              *)
NeverBroken == ~isBroken

AfterOpenBrace ==
  {t \in StateNumbers :
     \E s \in StateNumbers :
       Actions[s][OpenBrace].kind = "shift" /\ Actions[s][OpenBrace].next = t}

(* A file that leaves blocks open is skipped to its end while the tree has   *)
(* nodes that lead nowhere; before that the tree can be trusted.             *)
Recoverable == Balanced \/ CurrentToken # End

(* Where recovery returns to: while a file is parsed, up to its end if its   *)
(* braces do not pair, the node of an open block marks a place of the stack, *)
(* inside that of the enclosing block, where the parser stood right after    *)
(* the opening brace.                                                        *)
RecoveryPointsOnStack ==
  Recoverable /\ phase = "parse" =>
    /\ tree[1] = 1 /\ tree[Len(tree)] <= Len(states)
    /\ \A i \in 2..Len(tree) :
         tree[i - 1] < tree[i] /\ states[tree[i]] \in AfterOpenBrace

(* Recovery leaves a program without the rest, or a block without its        *)
(* contents, which the grammar has to allow.                                 *)
RemaindersAllowed ==
  /\ Actions[0][End].kind # "reject"
  /\ \A s \in AfterOpenBrace : Actions[s][CloseBrace].kind # "reject"

(* When it does, a file whose braces are balanced is parsed to the end,      *)
(* errors or not.                                                            *)
BalancedEnds == Balanced /\ RemaindersAllowed => <>Ended

(* The comment in prune_subtree: the counts of the nodes made while tokens   *)
(* are skipped do not matter.  Only such a count, zero, empties the stack.   *)
DummyCountsUnused == phase = "parse" => states # <<>>

(* The comments on RecoveryTree: when the braces are not balanced there is   *)
(* nothing to recover and the parser stops with the errors found.            *)
ParserEnds == <>Ended
=============================================================================
