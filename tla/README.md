# Verification of the Tea compiler

This directory holds TLA+ models of the compiler in `src/` (RecursiveFunctions), the TLC
configurations that check them, and proofs about them. Paths below are relative to the
repository; `compilation/...` and the like are under `src/src/`.

## The system

The program is a batch compiler of one thread. `cli` reads the arguments, `TeaFrontend` drives
everything else, and two generators that run at build time make the tables the front end reads.

| Component | State | Operations | Talks to |
|---|---|---|---|
| Driver, `compilation/TeaFrontend.*`, `GlobalContext.h`, `ModuleContext.h` | the map of module contexts (state, dependencies, dependents, tree), the work queue, the llvm modules | `build_ast`, `find_loops`, `build_symbols_table_and_compile`, linking and output | parser, analyser, generator, source manager |
| LR parser, `syntax/lr/LRParser.*` | stack of states, stack of nodes, `RecoveryTree`, list of errors | shift, reduce, accept, reject and recover | lexer, tables, tree builders |
| LR table generator, `syntax/lr/LRTableBuilder.*`, `syntax/grammar/*` | FIRST table, states, goto and action tables | grammar checks, closure, table construction, conflict detection | serializer |
| Lexer, `lexis/LexicalAnalyzer.*` | location, current token | `set_source_view`, `next_token`, `current_token` | driver, parser, source view, lexical table |
| Lexical table generator, `lexis/table`, `lexis/automata`, `lexis/regex` | automata per token, merged automaton | parse a regular expression, determinise, minimise, remove dead ends, merge, compact | serializer |
| Source manager, `sources/` | loaded files, annotations | load, line lookup, annotate, print | driver |
| Scopes and semantic analysis, `compilation/semantics`, `Scope.h`, `SymbolInfo.*` | tree of scopes, symbols, exported symbols | declare, look up, inject the exports of an imported module, check types | module contexts of the imports, types, strings |
| Types, `compilation/types`, `utils/PointersStorage.h` | one instance per type | get or create, inject | analyser, generator |
| IR generator and mangler, `compilation/ir`, `compilation/mangling` | current function, block, value; substitutions | one method per kind of node | LLVM |
| Tree, `ast/` | nodes | build, visit, print | parser, analyser, generator |
| Utilities, `utils/`, `filesystem/`, `log/`, `errors/`, `cli/` | string pool, temporary files | | all |
| Former back end, `passes/`, `intermediate_representation/`, `assembly/`, `pipeline/` | IR program, analyses, pass manager | SSA passes, register allocation | not built any more (`src/src/CMakeLists.txt`, README.md:6) |

Nothing in it is concurrent or persistent. What is hard is of another kind: the driver's work
list and graph search over user-supplied import graphs; error recovery, which restarts a
push-down automaton from bookkeeping kept beside it; tables that are generated by fixpoint
algorithms and interpreted elsewhere; and tables of symbols and types that are copied between
modules. `PROJECT.json` lists the hazards, each at its line, with the properties that cover it.

What makes each component correct:

* Driver: compilation starts only on an acyclic program, a reported loop is real, a module is
  compiled after its imports, none is forgotten, a syntax error of one file does not hide those of
  another as long as errors can be printed, success means a complete program, and the work loop ends.
* Parser: it accepts the language of the grammar, its tree covers the file, recovery returns to
  a point that is still on the stack, errors of different functions do not disturb each other,
  and it ends.
* Lexer and its tables: the tokens tile the file, each is the longest match, keywords win over
  identifiers, and the generated automaton accepts what the regular expressions say.
* Scopes: a name resolves to the innermost declaration; injection copies exactly the exports, and
  what it copies belongs to the module that imports.
* Mangler: two modules name a function alike exactly when it is the same function.
* Generator: the code does what the source means, every block ends in one terminator, and what
  the analysis lets through keeps the assertions of the generator.
* Former back end: a pass keeps what a function returns, and no pass works on an analysis or a
  block of a function that has changed since; the properties name the cases in which the code
  does otherwise.

## Modules

`ModuleBuild.tla` is the abstract specification of the driver: a build is an import map, the set
of modules built and a verdict; a module is built once, after its imports; `program` needs all of
them; a verdict is final.

`TeaFrontend.tla` is the driver itself. One action is one turn of one of its loops:

| Actions | Code (`compilation/TeaFrontend.cpp`) |
|---|---|
| `LoadFails`, `ParseFails`, `PrintFails`, `ParseSucceeds` | the loop over `files_` in `build_ast` (95-117) |
| `ParseHangs`, `Recovering` | the call of `parse()` that never returns (102; `LRParser.cpp:131`) |
| `Import`, `ImportsEnd`, `FilesEnd` | the loop over the import declarations and the end of `build_ast` (119-148) |
| `SearchFrom`, `VisitChild`, `Leave`, `NoLoop` | `find_loops` and the activations of `has_loops_recursive` (40-80), `stack` being the call stack; the early exit of `compile` for syntax trees |
| `Seed`, `SeedEnd` | the first loop of `build_symbols_table_and_compile` (154-158) |
| `PutBack`, `AnalysisFails`, `Compile`, `Notify`, `NotifyEnd`, `QueueEmpty` | its work loop (160-202) |
| `Link`, `LinkFails` | the end of `compile` (264-276) |

`files_` is an `unordered_map`, so parsing takes the files in any order, while `GlobalContext`
keeps a `std::map`, so `Names` is the fixed order of the other loops. The contents of a file are
its import list and whether it parses; whether analysis succeeds is a free choice each time,
which covers every program. A malformed file has three ends: its errors are printed and the loop
goes on (`ParseFails`); `print_annotations` throws at an error it cannot underline, over two lines
or behind the end of one (`SourceManager.cpp:127`, `:137`), and the exception leaves `build_ast` at
once (`PrintFails`); or `parse()` never returns (`ParseHangs`, finding 2), where the model stays for
ever and the code until its list of errors has used up the memory. Duplicate symbols at the link step are
external: LLVM may report them.

`TeaFrontendInv.tla` states the inductive invariants: `LinksInv` (the two lists against the
imports), `SearchInv` (the depth-first search), `WorkInv` (the queue), `ReportInv` (the annotations) and
`OnceInv` (how often a module can still be queued).

The table generator is in two modules. `LRItems.tla` has what needs no recursion: items, one per
follower (`TokensBitset` groups them), what closure adds to them (it follows `closure` in looking at
one symbol only behind a nonterminal), what makes a list of item sets and their gotos the states of
a grammar (`Canonical`), and the tables made of them (`TablesOf`). `LRTableBuilder.tla` finds the
states: the loops that add until nothing is new are least fixpoints, and `Build` gives the tables and
whether there was a conflict. TLC evaluates on every grammar that what it finds is `Canonical`
(`GeneratedStates` in `MCLRParser`).

`LRTables.tla` says what the tables are to the parser. Beside the two arrays of the code the tables
keep, for each state, the positions in rules that it stands for, which the code has only while it
makes them. `TablesFit` is what the parser needs: a step between states passes the symbol before
every dot that is not at the start of a rule (`Leads`), a rule begins only where its nonterminal leads
on, and is reduced only where it ends, and the file is accepted only at `END` after the start symbol.

`LRParser.tla` is `parse()` with `RecoveryTree`: `AcceptInput`, `RejectToken`, `ShiftToken` and
`ReduceRule` are the branches of its loop; `Skip`, `StopBefore` and `StopAfter` are the loop of
`prune_subtree`; `Crash` is the read of an empty vector, whose result, when it does not end the
process, is any state number. A node is its symbol and source range. The
errors of the node builders (a number that does not fit, `ast/ASTBuildExpressions.cpp:19`) are
a free choice at the end. The tables are a constant, so the module does not depend on how they are
made: `TablesAssumption` says that they fit, `RulesAssumption` that nonterminals are no tokens, and
`BracesAssumption` that no rule opens a block without closing it, as in `grammar.txt`. `MCLRParser`
makes the tables with `LRTableBuilder`, and TLC evaluates the assumptions on them; that they fit for
every grammar is proved (`LRTables_proofs`).

The tables of the lexer are modelled from the texts of the tokens to the file, in the order of
`LexicalAutomatonGenerator::build_and_save`, with one module per part:

| Module | Code (`lexis/`) |
|---|---|
| `Regex` | `RegexParser` and its nodes; a scan that leaves the text (an escape at its end, a class that is not closed) gives `Undefined`, an exception `Invalid`, and neither is followed further |
| `FiniteAutomata` | the visitor that makes nondeterministic automata, the conversion to deterministic ones, `get_minimal`, `remove_dead_ends` |
| `LexicalTable` | the characters in the order of their codes, of which the first is the null character, which also stands for the end of the file; the jumps, and `LexicalTableSerializer` |
| `LexicalAutomatonGenerator` | `build_and_save`: `ParseRegexes`, `BuildDeterministic`, `Minimise`, `RemoveDeadEnds` are the stages of the loop over the tokens, `MergeNext` and `MergeThrows` one turn of the loop that merges, `Compact` and `Save` the rest |
| `LexicalAnalyzer` | the lexer: `Start`, `Jump`, `FinishToken`, `RejectSymbol`, `WideSymbol` and `AtEnd` are the branches of `get_token_internal`, `Take` the loop of `next_token` around it, `Construct` and `SetSourceView` what the driver calls |

The tokens are a sequence in the order of `TokenType`; `tokens_` is a hash table, but the tokens
do not depend on each other, so the loop over them is done a stage at a time. A helper is one
character of a text that `Replaced` replaces. `regexes` and `automata` outlive the call in the
model, so that the properties can speak of them. Behind the end of a text the lexer may read any
byte. The parsing of expressions and the algorithms on single automata are recursive, so
`LexicalAutomatonGenerator` takes them as constants (`RegexOf`, `NonDeterministicOf`,
`DeterministicOf`, `GetMinimal`, `RemovedDeadEnds`), and `Lexis` likewise the meaning of
expressions (`Readings`, `Matches`, `CanStart`): what comes after them can be proved about
whatever they are, and the configurations of `MCLexis` give them the operators of
`FiniteAutomata` and `RegexLanguage`.

Two modules say what these should do without their algorithms. `RegexLanguage` has the meaning of
an expression by derivatives, and the grammar of the texts as the set of all readings of a text.
`MaximalMunch` is the abstract specification of the lexer: a token is the longest text that some
token may still begin with, the last token that matches it wins, and it is an error of one symbol
when none does; nothing is promised where a byte outside the character set is met in the middle of
a token. `Lexis` states the properties; `AutomataSound` in it is what the loop that merges needs of
the automata it is given.

The analysis of declarations has a module per part of the code:

| Module | Code (`compilation/`) |
|---|---|
| `Types` | `types/Type.h` as records: the storage keeps one instance of equal types, so pointers are equal when records are; `get_original` follows aliases |
| `Scopes` | `Scope.h`, `SymbolInfo.*`: the tree of scopes as a sequence with the number of each parent, `NameLookup`, qualified names |
| `Mangler` | `mangling/Mangler.*`: a mangled name with its substitutions, parts instead of characters |
| `SemanticAnalyzer` | `semantics/`: `InjectSymbol` and `EndInjection` for the imports of a module, then one action per kind of declaration: `TraverseNamespaceDeclaration`, `TraverseFunctionDeclaration`, `VisitVariableDeclaration`, `VisitTypeAliasDeclaration`, `TraverseClassDeclaration`, `TraverseCompoundStatement`, `VisitIdExpression`; `Close` leaves a scope, `EndModule` goes to the next module |
| `Semantics` | the properties |

The syntax tree of a module is chosen while it is analysed: `TraverseDeclaration` puts the next
declaration of a menu at the place where the analysis is, so that every program of the menu is
analysed, including those that are turned down. A string is a pair of the module it belongs to and
its text; comparing strings of two modules is then false as in the code. Modules come in the
order in which the driver compiles them, each once.

Expressions and statements are trees (`SyntaxTree`) that are analysed and compiled whole:

| Module | Code |
|---|---|
| `SyntaxTree` | `ast/Nodes.h` and what `ast/ASTBuild*.cpp` make of the parts |
| `ExpressionAnalysis` | the types and value categories that `semantics/*Analysis.cpp` give expressions, the conversions they insert, and what they turn down; a scope is a map of names to types |
| `IRGenerator` | `ir/*.cpp`: `AnalyseModule` and `DeclareExtern`, then one statement, branch end or loop end per action, with `tasks` for what the C++ stack has still to do |
| `LLVM` | external: the machine that runs the instructions the generator makes; a value is an integer, a bit, an address or a tuple, and memory holds whole variables |
| `Codegen` | the meaning of a program as it is written, by its own interpreter, and the properties |

The former back end is in `passes/`, `intermediate_representation/` and `assembly/`. It is not
built any more: the globs of `src/src/CMakeLists.txt` leave these directories out, and the passes
were written for an older `Value` of a type and a number, which is the one modelled.

| Module | Code |
|---|---|
| `IR` | `Function.cpp`, `BasicBlock.h`, `Instruction.h`: blocks, `finalize`, `simplify_blocks`, replacement of values; and the meaning of a function on an input |
| `Analyses` | `analysis/`: dominators, natural loops, liveness over `BackwardDFA`, equalities |
| `Passes`, `LoopRotation`, `RegisterAllocation` | what each pass does to a function and whether it reports a change; the `Disentangler` |
| `AssemblyPrinter` | the order of the blocks and the lines printed for moves, sums, calls, branches and selects; and a machine for them |
| `PassManager` | `PassManager.*`, `pass_types/*`, `verification/*`: `StartPass`, `ApplyToBlock`, `VisitErasedBlock` and `FinishBlocks` for the passes over blocks, `ApplyToFunction` and `AllocateRegisters` for those over functions, `Verify`, `PrintAssembly` |

The pipelines were registered in code that is no longer in the repository, so `PassManager`
takes every pass in every order, and stops, as `apply` does, only where `require_ssa` is not met.
What the passes take for granted beyond that is not checked by the code, so it is not a guard of the
model: the properties name the cases in which a function loses its meaning. Verification after every
pass is that of the debug build. Where the code goes on with a block that is gone (a pending block that
a change erased, a loop whose header was erased, a function whose first block was joined to another),
its behaviour is undefined; the model ends there, in the phase `undefined`, and `NothingStale`
says when that may be. An exception of a pass, of the verification or of the printer ends in the
phase `stopped`.

The modules `MC...` give small instances. Definitions marked `Mutant` are the faulty variants of
the definition after them that the properties were tried against.

## Runs

| Run | Instance | Shows |
|---|---|---|
| `driver` | three modules with at most two different imports each, and two modules with lists of at most two imports out of themselves, each other and an unknown name; any of them malformed, both output kinds | `TypeOK`, the inductive invariants; a malformed file does not hide the errors of another, unless printing them throws or the parser does not return (`SyntaxErrorsReported`); loops are found (`CompileOnlyAcyclic`) and reported as real chains (`LoopReported`); `DependenciesFirst`, `WorkIsQueued`, `ChainsCompiledOnce`, `OutputComplete`; the driver ends or is for ever in `parse()` of a malformed file (`Termination`), and implements `ModuleBuild` (`BuildSpec`) |
| `once` | a diamond of four modules | violation of `CompiledOnce` (finding) |
| `parser` | grammars for blocks, expressions and LR(1) look-ahead; every token sequence up to length 5 (4 for the last) and pairs of functions up to length 11 | the language is accepted exactly (`SentencesAccepted`), the tree covers the file (`NodesCoverInput`), recovery (`TreeFollowsBlocks`, `NeverBroken`, `RecoveryPointsOnStack`, `FunctionsIndependent`, `BalancedEnds`) |
| `parser_hang` | the same blocks grammar | violation of `ParserEnds` (finding) |
| `parser_skipped` | the same | violation of `DummyCountsUnused` (finding) |
| `parser_optional` | a grammar with an optional symbol | violation of `SentencesAccepted` (finding) |
| `lexis` | 13 tokens of the compiler's lexicon over 20 characters, 36 pairs of rivals, and about 1700 single expressions (every text up to length 3 and every row of three parts); sources up to length 3, then another file | `TypeOK` with `AutomataSound`, parsing (`TextsParsed`), automata (`AutomataExact`, `AutomataSmallest`, `NothingInvented`), `OverlapsRejected`, `StaysInside`, that the lexer implements `MaximalMunch` (`MunchSpec`), and `ReachesEnd` |
| `semantics` | five menus of declarations for one to three modules: nested scopes, namespaces opened twice, two modules that export into one namespace, classes along a chain of imports, overloads that share components | a module sees exactly what it declares and what is exported to it (`NamesVisible`), lookup (`ResolvesInnermost`), names for the linker (`NamesMatch`), classes of other modules (`MembersFound`) |
| `codegen` | some 2,900 programs, with bodies of `main` out of assignments, `if`, `while`, blocks, returns, tuples and calls, each on twelve inputs, and programs that use tuples, functions and an alias of a tuple type where the analysis does not look | the code does what the source means (`MeaningKept`), `BlocksEnd`, and which assertions of the generator fail (`AssertionsHold`) |
| `passes` | straight code, diamonds and loops with a choice of a few instructions; two loops that share a header or touch, a loop the function begins with, and functions with blocks still to be joined or erased; through every pipeline of up to four passes in any order, each on three inputs | a step of a pass keeps what the function returns, but for named cases, and so does the assembly (`MeaningKept`), SSA (`SsaKept`), caches and blocks that are gone (`NothingStale`) |
| `lexis_dead` | two expressions that branch | violation of `KeepsLanguage` (finding) |
| `lexis_wide` | the 13 tokens | violation of `OneSymbolPerError` (finding) |

Bounds. Three modules are the fewest in which a module waits for two others, a put-back happens
and a loop has a lead-in; a second copy of an import needs only two. The abstract
import map and the choice of failures cover every program with that import graph. In the blocks
grammar five tokens hold every prefix of a function with one statement, and the function pairs
add nested blocks, several errors and errors on both sides of a boundary. The sentences that the
parser is compared with are computed from the rules alone, up to the length of the inputs.
The characters of `lexis` are all operators of expressions and one or two of every class the tokens
tell apart; the tokens have every relation of the full lexicon: keywords that are identifiers, an
operator that begins another (`>` and `>=`), one that begins two others (`-`), tokens that run to
a delimiter or to the end, and skipped ones. A source of three bytes holds a token, its delimiter
and a beginning of the next. Sources are cut with the tables of the 13 tokens and of the rivals;
those of the single expressions are only built. `MaxOverrun` bounds
how far behind the end of a text the lexer is followed. Automata are compared with meanings on
all words up to length 2, and up to 3 and 6 over the letters that the expressions use most.

The budgets of `semantics` are the declarations per module: five nest a scope three deep and leave
two names to look up in it, and a chain of three modules copies a class twice. In `codegen` two
statements in a row suffice for a branch that ends open, closed or half closed and a statement
after it; `Fuel` bounds the turns of loops and calls of a run, and inputs for which the source
needs more have no meaning in the model; integers wrap at `Width` bits, three, so that sums do
overflow. In `passes` four passes are the fewest that bring a rotated loop to assembly (rotate,
remove what is unused, phi, registers). `MaxRegisters` is the 16 of the code; no function of the
instance needs more, so allocation does not fail there. `Fuel` bounds the blocks one run enters.
Sums wrap at 2^16 (`Wrapped`), far above what the runs reach otherwise, in place of the 2^64 of a register.
The hash map that orders the allocation of registers is represented by two orders.

What the analysis of declarations promises holds with one restriction, `Clean`: a class or an alias
whose name is already taken is silently left out, and neither that nor a class with the name of an
imported one is counted. `MeaningKept` of `codegen` leaves out programs that assign a value of one
type to a place of another, which nothing turns down. `AssertionsHold` allows the two cases in
which the generator stops: a value that is not passed by value is the operand of an equality or
the condition of a `while`, which the analysis does not visit (`IRHelpers.cpp:54`); and a value of such
a type that is not written as a tuple is copied, an alias of a tuple type or a function
(`IRHelpers.cpp:20`).

The properties of `passes` have these exceptions, each a case in which the code does go wrong.
`MeaningKept` speaks of one step of a pass, or of the printing, whatever was applied before; it
leaves out, by name (`LosesMeaning`):

* common elimination of a function with calls of two different functions (`CallsConfused`):
  `operator==` of a call does not compare the name (`Instruction.h:278`);
* a select made of a branch when the phi names its parents in another order than the branch
  (`BranchTurned`, `ReplaceBranchWithSelect.cpp:107`);
* allocation while a result is unused (`ResultUnused`): it depends on nothing and may get the
  register of a live value (`RegisterAllocationPass.cpp:248`). Once registers are allocated every
  result counts as unused, so this includes a second allocation, and the elimination of unused results after
  one (`Allocated`);
* allocation with a call that takes a value twice (`ArgumentRepeated`, `Disentangler.cpp:80`).

A step after which the verification refuses the function counts as safe, because `apply` throws
then. `NothingStale` allows the phase `undefined` only for functions that came with blocks to join
or erase, and for the rotation of loops whose headers are one block, touch, or are the first block
(`HeadersMeet`); of the dominators it speaks when the first block has no parents, since otherwise
`find_dominators` overwrites the set of that block (`DominatorsAnalysis.cpp:86`) and takes it to be
dominated by every block. Loops with two back edges to one header are in the instance; a rotation of
one ends in `undefined`, so `SsaKept` is not shown for what would come after it.

Fairness. `WF_vars(Next)` in both machines: one thread that never waits for anything, so it takes
its next step. Termination thus speaks of the loops, not of a scheduler. Every choice left open
(parse or analysis fails) may go either way for ever. `WF_vars(Lexing)` in the lexer: `next_token`
is one call of one thread, and the parser asks for tokens until `END`; nothing is assumed about the
generator or about another file being loaded.

## Findings

1. A module that imports two others is compiled once per import (`once`): `TeaFrontend.cpp:197`
   queues it for each of them and nothing asks later whether it was compiled meanwhile. When no
   module has two imports it cannot happen (`ChainsCompiledOnce`).
2. `parse()` does not end on a file whose braces do not match (`parser_hang`), although the
   comments describe an exit for that case, which is never taken (`NeverBroken`, proved for every
   file). With matching braces it always ends (`BalancedEnds`).
3. The counts of nodes made while tokens are skipped are used after all (`parser_skipped`): the
   error after the end of the file empties the stack of states and reads below it.
4. With a symbol that may be empty in the middle of a rule the generated tables reject sentences
   without reporting a conflict (`parser_optional`). `grammar.txt` has only `program` as such a
   symbol, where it does no harm.
5. `remove_dead_ends` leaves its scan for predecessors at the first live node (`FiniteAutomata.cpp:26`
   has `break` where `continue` is meant), so it removes nodes from which words are accepted
   (`lexis_dead`): `(if)*` no longer matches `if`. It never adds a word or leaves a dead end
   (`NothingInvented`). No token of `compile_lexis_table.cpp` has such a node; for the 13 that are
   modelled `MunchSpec` shows that nothing is lost.
6. A byte outside the character set makes the lexer skip more than the one symbol its comment
   promises (`lexis_wide`): the error begins behind the byte, so what was scanned before it is lost,
   and at the end of a file the location passes the end.

## Proofs

TLAPS proves, for every set of modules, order of names and import maps (`NamesAssumption`: the
names enumerate the modules without repetition; `ProjectsAssumption`: imports are sequences of
names):

* `TeaFrontend_proofs`: `TypeCorrect`, and `LinksCorrect`: once a module's imports were processed
  `dependencies` holds exactly them, and `dependents` is the converse relation. The invariant has
  to speak of the import being processed (`ImportingInv`) and of the modules whose imports were
  skipped because of syntax errors.
* `TeaFrontendSearch_proofs`: `SearchCorrect`, with `OnlyAcyclicCompiled` and `LoopsAreReal`. The
  argument is that of depth-first search: the modules marked VISITING are those of the active
  calls, once each, each called for a dependent of its caller (`VisitingInv`, `CallsInv`); what is
  VISITED is closed under dependents (`ClosedInv`) and every nonempty set of it has a module that
  imports none of the set (`VisitedAcyclicInv`), because a module is marked only after all its
  dependents; and every name before the cursor is visited (`RootsInv`).
* `TeaFrontendWork_proofs`: `WorkCorrect`, with `ImportsEmittedFirst`, `NoModuleForgotten` and
  `SuccessIsComplete`. A module whose dependencies are compiled is compiled, queued, or among the
  dependents still to be notified (`NotifyInv`); when the queue is empty the set of modules not
  compiled would have a member without imports in the set, by acyclicity, which contradicts it.
  `DriverImplementsBuild` maps every step to a step of `ModuleBuild` or to a stutter: compiling a
  module for the first time is `Build`, linking is `Emit`.
  In the same module: `SyntaxErrorsShown`, from the invariant that while files are parsed the
  annotations are those of the malformed files so far and all of them are printed, and that loops are
  searched for only when no file is malformed (`ReportsCorrect`). What stops the loop over the files early
  is named in the property, as `SyntaxErrorsReported`: a file that cannot be loaded, an unknown
  import, an exception of `print_annotations` (`PrintFailsReports`), or a `parse()` that does not
  return; whatever comes after `build_ast` has nothing left to report (`LaterReports`). `ChainsOnce`: when no module has two imports, a module is in the queue
  at most once, or still ahead of the loop that will put it there once, and never both, and not at
  all once it is compiled (`OnceCorrect`); a dependent with one import is complete when it is
  queued, so nothing is put back.

About the parser, for all tables that fit, all grammars under the assumptions above and all files
(`InputsAssumption`: files are sequences of tokens without `END`, and the two braces, the semicolon
and `END` differ):

* `LRParser_proofs`: `TypeCorrect` (recovery and `resize`, which fills with zeros, leave states of
  the tables on the stack), and what the others rest on. The stack is a path through the tables
  from state 0 (`Based`), which recovery keeps, as `resize` leaves a beginning of the stack. On a
  path every position has the body before its dot right below it (`BodyBelow`), so a rule
  is never longer than the stack, and the goto after it leads on (`ReducePath`). The tree has one
  node more than there are blocks open, by counting braces up to the current token (`TreeInv`).
* `LRParserPoints_proofs`: each place of the stack has a height, the number of blocks it lies in,
  which only braces on the stack change (`Heights`), and each node of the tree marks where its block
  was entered (`Marks`). As the braces of every rule pair, the height is the same before and after
  a nonterminal, and never lower inside it (`PassedHeights`, `BodyHeights`): a reduction does not reach
  below the mark of an open block, and no brace is shifted that closes none
  (`NoStrayBrace`). So the recovery tree is never given up, in any file (`TreeNeverBroken`), follows
  the blocks (`TreeFollows`), and recovery returns to the inside of the innermost block on the stack
  (`RecoveryPoints`). The last holds up to the end of the file, and there if its braces pair
  (`Recoverable`); `NeverCrashesBefore` says under the same condition that the parser does not crash,
  and the run `parser_skipped` shows that the condition is needed.
  Also in `LRParser_proofs`: before the first error the nodes tile the tokens read, one for each step of the
  path and with its symbol (`CoverInv`, `NodesLead`). The nodes of a rule's body are then neighbours,
  and when the file is accepted the one node left is the start symbol over all of it
  (`NodesCover`), because only the first state begins the rule that is accepted. `AcceptedDerived`
  adds that every node is derived by the rules: the parser is sound for any tables that fit.
  `FaultlessNeverCrashes`: a file without an error is read to its end.
* `LRTables_proofs`: `BuiltTablesFit`, for every grammar whose rules do not name `END`: the tables made
  of canonical states fit. What closure adds to a kernel are the starts of rules (`KernelItems`), what
  a kernel holds comes from the item one symbol before (`AdvancedItems`), and no rule names the start
  symbol that the builder adds, so only the first state begins its rule, and `END` follows it (`StartItems`,
  `StartDone`). Conflicts and the sets of first tokens play no part: what goes wrong in finding 4 makes
  the parser reject more, never leave the path.

About the lexer and its tables, for any characters without repetition, any lexicons, helpers and
texts (`CharactersAssumption`, `LexiconsAssumption`, `BytesAssumption`, `SourcesAssumption`), any bound
`MaxOverrun`, and whatever the constants are that stand for the recursive parts:

* `LexicalAutomatonGenerator_proofs`: `RoundTrip`, a table that is written is read back: the numbers
  of a jump say where the next one starts, for every jump of every row (`FlattenLayout`). The loop
  that merges keeps `Merging`: the row of a state that was taken from the queue leads, for each
  symbol, to the row of the state that the symbol leads to, or ends the token with the last of the
  final ones (`MergeTurn`); a row that was not taken yet is in the queue. Compaction leaves rows for
  which there is a `label`, the state that each stands for (`Labelled`, `CompactedIs`): a jump leads to the row
  labelled with the state that the symbol leads to, or finishes at once, with a shift one
  smaller, if from that state every symbol leads nowhere.
* `Lexis_proofs`: the invariant is `LexisInv`. It has three parts: that of the generator (`GeneratorInv`, with
  `Merging`, then `Labelled`, and that every state is `Reached` by a word and every word reaches one),
  the types, and `TableRead`: the table that was read back is `Labelled`, and while a token is scanned the
  row is labelled with what the bytes since the location lead to (`Scanning`). `TypeOK` alone is not
  inductive, as it says nothing of what the rows stand for. From it follow `TypeCorrect`;
  `StaysInsideHolds`, for texts of the character set, because no state goes on at the null character,
  which is read at the end;
  `OverlapsRejectedHolds`, because the loop looks at exactly the states that words lead to; and `Munches`,
  the refinement of `MaximalMunch`: the word scanned when a token ends is the longest that a token may
  begin with (`LongestIs`, `MunchAt`), the final tokens there are those that match it
  (`FinalTokensMatch`), and the last of them is the one that wins (`WinnerIs`). One step of the lexer is one of
  `MaximalMunch` or does not change the tokens (`StepMunches`).

These theorems have hypotheses where the recursive parts come in, each a property of the run
`lexis` or of a finding: all assume `AutomataSound`, which is itself a part of `TypeOK`, so that
`TypeCorrect` shows the rest of it; `Munches` assumes `AutomataExact` and `NothingInvented`, and of the meaning of
expressions what `LanguageIsMeant` says: `CanStart` means that some continuation `Matches`, and
matches are in the character set. `OverlapsRejectedHolds` assumes `NothingInvented` and `KeepsLanguage`,
which is false only for expressions like those of finding 5. There and in `Munches` `Words` are all
words, while the run takes the short ones.

The induction theorems of the library cannot be used, since they take a predicate. Where a proof needs
induction on a number, the set of the numbers for which it fails has a least element
(`SetInduction`, from well-foundedness).

Only model-checked: `Termination` and the other liveness properties, which need fairness; of the
parser `SentencesAccepted`, whose other half, that no sentence is rejected, depends on the tables
being complete, and `FunctionsIndependent`, which compares two runs; that the fixpoints of
`LRTableBuilder` are canonical; of the lexer what the recursive parts compute (`TextsParsed`,
`AutomataSound`, `AutomataExact`, `AutomataSmallest`, `NothingInvented`); and everything about the analysis, the
generator of code and the passes, whose trees, types and fixpoints come from recursive operators.

## Seen while modelling

What follows is not a finding of a run, since no text of the repository says otherwise, but a
reader of the code should know it.

* Analysis: a class with a pointer to itself makes the injection of its type endless
  (`NameLookup.cpp:130`); the model ends such an import with the verdict `endless`. A class that reaches a module on two
  ways is copied twice into the same instance, which then has every member twice; the first of
  each is found (`MembersFound`). Compound types that come back are not substituted a second time
  by the mangler, which only makes names longer. A value whose type is an
  alias of a tuple or of a pointer is not passed by value (`Type.h:44`), and copying it is not
  implemented in the generator (`IRHelpers.cpp:20`). The condition of a `while` is not visited: it may
  be of any type. Assignments of different types are accepted
  (`AssignmentStatementAnalysis.cpp:4`).
* Generator: `break` and `continue` generate nothing. The right side of an operator is loaded with
  the type of the left one (`IRExpressions.cpp:50`), comparisons are signed and the remainder unsigned
  whatever the types. The block after an `if` that returns on both sides has no terminator; it
  cannot be reached, but LLVM's verifier would refuse it.
* Passes: the cases in which a function loses its meaning, or a block that is gone is read, are
  listed with the bounds above. The disentangler goes wrong when an argument is repeated
  within a cycle, for which a call needs three arguments. Register 15 is its temporary and also may
  be allocated. The comment of `SillyMoveErasurePass.h:4` claims more than the code does: of the pair
  "mov x0, x1; mov x1, x0" the second move stays, because what is known of `x1` is forgotten before the
  values are compared (`SillyMoveErasurePass.cpp:62`). `simplify_blocks` may join the first
  block of a function to its only parent (`Function.cpp:18`), and `begin_block` then points to nothing.
  Verification turns down every phi whose argument is still live after it, which also keeps the
  single parent of `phi_values` in `LivenessAnalysis.cpp` from doing harm. Rotating a loop whose
  exit block has other parents leaves a phi with too few of them, which verification finds.

## Plan

1. Done: driver, parser, LR tables, and the proofs about the driver.
2. Done: lexer and lexical tables.
3. Done: scopes, name lookup, injection of exports and types, mangler.
4. Done: analysis of expressions and the generator, against the meaning of the source.
5. Done: pass manager, analyses and nine passes of the former back end, register allocation and
   assembly.
6. Done: proofs about the driver, about the parser and its recovery for any tables, and that the
   tables that are built are such.
7. Done: the lexer split from the recursive operators that make its automata, as the parser is from
   its tables; that it stays inside the text, refuses what overlaps, and implements longest match.
8. Left: the same split for name lookup and injection, whose types are trees, so that `NamesVisible`
   and `ResolvesInnermost` can be proved; that the tables of a grammar without conflicts are
   complete (`SentencesAccepted`).

## Not modelled

* Command line, logging, printing of trees and messages, colours and source excerpts: reading of
  arguments by a library, and layout.
* `GrammarGenerator` and the serialisation of the LR tables: parsing of one fixed file at build
  time, and a plain write and read. `FilesystemManager`: files on a disk that the model does not
  have.
* Of the front end: pointers, strings and members of classes in the generator (their analysis is
  modelled as far as declarations go), positions in source files, LLVM itself.
* Of the former back end: inlining, removal of unused functions, recursion to loop, the symbolic
  analysis of loops, the forward data-flow framework and the spiller (no modelled pass calls
  them), loads and stores, the frame and link registers, and the spelling of the assembly. Allocation is
  given up, as in the code, when a value gets no register.
