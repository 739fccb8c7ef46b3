---------------------------- MODULE TeaFrontend ----------------------------
(* The driver of the compiler (compilation/TeaFrontend.cpp): it parses every *)
(* source file, links the modules by their imports, looks for import loops,  *)
(* analyses and compiles the modules through a work queue, and links the     *)
(* results.  One action is one turn of one of its loops.  The contents of a  *)
(* module are its list of imports and whether its text parses; whether a     *)
(* module passes semantic analysis is left open at every analysis.           *)
EXTENDS Naturals, Sequences, Functions

CONSTANTS
  Modules,     \* module names: the keys of files_
  Names,       \* Modules in the order of the std::map of GlobalContext
  Foreign,     \* imported names that no source file has
  Projects     \* the import maps considered, each [Modules -> Seq(Modules \cup Foreign)]

ASSUME NamesAssumption ==
  /\ Names \in Seq(Modules)
  /\ \A m \in Modules : \E i \in 1..Len(Names) : Names[i] = m
  /\ \A i, j \in 1..Len(Names) : Names[i] = Names[j] => i = j

ASSUME ProjectsAssumption ==
  /\ Projects \subseteq [Modules -> Seq(Modules \cup Foreign)]
  /\ Modules \cap Foreign = {}

VARIABLES
  imports,       \* module -> the names its import declarations mention, in order
  malformed,     \* modules whose text has syntax errors
  emitType,      \* emit_type_: "AST" or "IR"
  phase,         \* the loop the driver is in, "recovery" while a parse()
                 \* that never returns runs, or "done" / "failed"
  error,         \* why it failed
  state,         \* ModuleContext::state
  dependencies,  \* ModuleContext::dependencies
  dependents,    \* ModuleContext::dependents
  current,       \* the module whose list a loop walks over
  cursor,        \* position of the loop in that list (or in Names)
  hasSyntaxErrors,
  annotations,   \* modules with annotations in the source manager, as added
  printed,       \* what print_annotations has shown
  colors,        \* DFSState of every module
  stack,         \* activations of has_loops_recursive: module and next child
  loop,          \* the loop that find_loops returned
  queue,         \* work queue of build_symbols_table_and_compile
  llvmModules,   \* llvm_modules_, each named by the module it was made from
  program        \* modules linked into main_module

inputs == <<imports, malformed, emitType>>
links == <<dependencies, dependents>>
diagnostics == <<hasSyntaxErrors, annotations, printed>>
dfs == <<colors, stack, loop>>
products == <<queue, llvmModules, program>>
vars == <<inputs, phase, error, state, links, current, cursor, diagnostics,
          dfs, products>>

None == "none"

Frames == [module : Modules, next : Nat]
Compiled == {m \in Modules : state[m] = "AFTER_IR_COMPILER"}
Importable == Modules \cup Foreign

InputsOK ==
  /\ imports \in [Modules -> Seq(Importable)]
  /\ malformed \subseteq Modules
  /\ emitType \in {"AST", "IR"}

ControlOK ==
  /\ phase \in {"parse", "recovery", "imports", "loops", "seed", "queue",
                "dependents", "link", "done", "failed"}
  /\ error \in {None, "load", "annotations", "unknown module", "syntax", "loop",
                "semantic", "link"}
  /\ phase \in {"recovery", "imports", "dependents"} => current \in Modules
  /\ cursor \in Nat

ContextsOK ==
  /\ state \in [Modules -> {"UNPROCESSED", "AFTER_PARSER", "AFTER_IR_COMPILER"}]
  /\ dependencies \in [Modules -> Seq(Modules)]
  /\ dependents \in [Modules -> Seq(Modules)]

DiagnosticsOK ==
  /\ hasSyntaxErrors \in BOOLEAN
  /\ annotations \in Seq(Modules)
  /\ printed \in Seq(Modules)

SearchOK ==
  /\ colors \in [Modules -> {"UNVISITED", "VISITING", "VISITED"}]
  /\ stack \in Seq(Frames)
  /\ loop \in Seq(Modules)

ProductsOK ==
  /\ queue \in Seq(Modules)
  /\ llvmModules \in Seq(Modules)
  /\ program \subseteq Modules

TypeOK ==
  InputsOK /\ ControlOK /\ ContextsOK /\ DiagnosticsOK /\ SearchOK /\ ProductsOK

Init ==
  /\ imports \in Projects
  /\ malformed \in SUBSET Modules
  /\ emitType \in {"AST", "IR"}
  /\ phase = "parse"
  /\ error = None
  /\ state = [m \in Modules |-> "UNPROCESSED"]
  /\ dependencies = [m \in Modules |-> <<>>]
  /\ dependents = [m \in Modules |-> <<>>]
  /\ current = None
  /\ cursor = 1
  /\ hasSyntaxErrors = FALSE
  /\ annotations = <<>>
  /\ printed = <<>>
  /\ colors = [m \in Modules |-> "UNVISITED"]
  /\ stack = <<>>
  /\ loop = <<>>
  /\ queue = <<>>
  /\ llvmModules = <<>>
  /\ program = {}

Goto(p) ==
  /\ phase' = p
  /\ cursor' = 1
  /\ UNCHANGED error

Throw(e) ==
  /\ phase' = "failed"
  /\ error' = e
  /\ UNCHANGED cursor

-----------------------------------------------------------------------------
(* build_ast.  files_ is an unordered_map: its order is any order.           *)

Pick(m) == phase = "parse" /\ state[m] = "UNPROCESSED"

(* The file cannot be loaded, or the parser throws something that is not a   *)
(* ParserException.                                                          *)
LoadFails(m) ==
  /\ Pick(m)
  /\ Throw("load")
  /\ UNCHANGED <<inputs, state, links, current, diagnostics, dfs, products>>

(* Mutant: the first file with syntax errors ends the build. *)
ParseFailsAndStops(m) ==
  /\ Pick(m)
  /\ m \in malformed
  /\ state' = [state EXCEPT ![m] = "AFTER_PARSER"]
  /\ hasSyntaxErrors' = TRUE
  /\ annotations' = Append(annotations, m)
  /\ printed' = printed \o annotations'
  /\ Throw("syntax")
  /\ UNCHANGED <<inputs, links, current, dfs, products>>

ParseFails(m) ==
  /\ Pick(m)
  /\ m \in malformed
  /\ state' = [state EXCEPT ![m] = "AFTER_PARSER"]
  /\ hasSyntaxErrors' = TRUE
  /\ annotations' = Append(annotations, m)
  /\ printed' = printed \o annotations'
  /\ UNCHANGED <<inputs, phase, error, links, current, cursor, dfs, products>>

(* print_annotations throws at an error that it cannot underline: one over   *)
(* two lines, or one that ends behind its line.  The exception leaves        *)
(* build_ast at once.  What was annotated before is shown again, and the     *)
(* errors of this file down to the bad one.                                  *)
PrintFails(m) ==
  /\ Pick(m)
  /\ m \in malformed
  /\ hasSyntaxErrors' = TRUE
  /\ annotations' = Append(annotations, m)
  /\ printed' \in {printed \o annotations, printed \o annotations'}
  /\ Throw("annotations")
  /\ UNCHANGED <<inputs, state, links, current, dfs, products>>

(* A file with a closing brace too many: parse() rejects the brace for ever. *)
ParseHangs(m) ==
  /\ Pick(m)
  /\ m \in malformed
  /\ Goto("recovery")
  /\ current' = m
  /\ UNCHANGED <<inputs, state, links, diagnostics, dfs, products>>

Recovering == phase = "recovery" /\ UNCHANGED vars

(* Once a file had syntax errors the imports of later files are skipped. *)
ParseSucceeds(m) ==
  /\ Pick(m)
  /\ m \notin malformed
  /\ state' = [state EXCEPT ![m] = "AFTER_PARSER"]
  /\ IF hasSyntaxErrors
       THEN UNCHANGED <<phase, error, current, cursor>>
       ELSE Goto("imports") /\ current' = m
  /\ UNCHANGED <<inputs, links, diagnostics, dfs, products>>

(* Mutant: nobody asks whether a file has that name. *)
ImportUnchecked(name) ==
  /\ phase = "imports"
  /\ cursor <= Len(imports[current])
  /\ name = imports[current][cursor]
  /\ dependencies' = [dependencies EXCEPT ![current] = Append(@, name)]
  /\ dependents' = [m \in Modules |-> IF m = name THEN Append(dependents[m], current)
                                                 ELSE dependents[m]]
  /\ cursor' = cursor + 1
  /\ UNCHANGED <<inputs, phase, error, state, current, diagnostics, dfs, products>>

(* One import declaration of the current file. *)
Import(name) ==
  /\ phase = "imports"
  /\ cursor <= Len(imports[current])
  /\ name = imports[current][cursor]
  /\ IF name \in Modules
       THEN /\ dependencies' =
                 [dependencies EXCEPT ![current] = Append(@, name)]
            /\ dependents' = [dependents EXCEPT ![name] = Append(@, current)]
            /\ cursor' = cursor + 1
            /\ UNCHANGED <<phase, error>>
       ELSE Throw("unknown module") /\ UNCHANGED links
  /\ UNCHANGED <<inputs, state, current, diagnostics, dfs, products>>

ImportsEnd ==
  /\ phase = "imports"
  /\ cursor > Len(imports[current])
  /\ Goto("parse")
  /\ UNCHANGED <<inputs, state, links, current, diagnostics, dfs, products>>

FilesEnd ==
  /\ phase = "parse"
  /\ \A m \in Modules : state[m] # "UNPROCESSED"
  /\ IF hasSyntaxErrors THEN Throw("syntax") ELSE Goto("loops")
  /\ UNCHANGED <<inputs, state, links, current, diagnostics, dfs, products>>

-----------------------------------------------------------------------------
(* find_loops and has_loops_recursive.                                       *)

Top == stack[Len(stack)]

(* The next module of the map, skipped when an earlier search visited it. *)
SearchFrom(m) ==
  /\ phase = "loops"
  /\ stack = <<>>
  /\ cursor <= Len(Names)
  /\ m = Names[cursor]
  /\ cursor' = cursor + 1
  /\ IF colors[m] = "VISITED"
       THEN UNCHANGED <<colors, stack>>
       ELSE /\ colors' = [colors EXCEPT ![m] = "VISITING"]
            /\ stack' = <<[module |-> m, next |-> 1]>>
  /\ UNCHANGED <<inputs, phase, error, state, links, current, diagnostics,
                 loop, products>>

(* Mutant: the active modules from the outermost one inwards. *)
ReportReversed(child) ==
  [i \in 1..(Len(stack) + 1) |-> IF i = 1 THEN child ELSE stack[i - 1].module]

(* The child where the search met a module it is visiting, followed by the   *)
(* active modules from the innermost one outwards.                           *)
ReportFrom(child) ==
  [i \in 1..(Len(stack) + 1) |->
     IF i = 1 THEN child ELSE stack[Len(stack) + 2 - i].module]

(* Mutant: a module that is being visited counts as visited. *)
VisitChildWithoutLoops(child) ==
  /\ phase = "loops"
  /\ stack # <<>>
  /\ Top.next <= Len(dependents[Top.module])
  /\ child = dependents[Top.module][Top.next]
  /\ LET passed == [stack EXCEPT ![Len(stack)].next = @ + 1] IN
     IF colors[child] = "UNVISITED"
       THEN /\ colors' = [colors EXCEPT ![child] = "VISITING"]
            /\ stack' = Append(passed, [module |-> child, next |-> 1])
       ELSE stack' = passed /\ UNCHANGED colors
  /\ UNCHANGED <<inputs, phase, error, state, links, current, cursor, diagnostics,
                 loop, products>>

(* The recursive call for the next dependent of the innermost module. *)
VisitChild(child) ==
  /\ phase = "loops"
  /\ stack # <<>>
  /\ Top.next <= Len(dependents[Top.module])
  /\ child = dependents[Top.module][Top.next]
  /\ \/ /\ colors[child] = "VISITING"
        /\ loop' = ReportFrom(child)
        /\ Throw("loop")
        /\ UNCHANGED <<colors, stack>>
     \/ /\ colors[child] = "VISITED"
        /\ stack' = [stack EXCEPT ![Len(stack)].next = @ + 1]
        /\ UNCHANGED <<colors, loop, phase, error, cursor>>
     \/ /\ colors[child] = "UNVISITED"
        /\ colors' = [colors EXCEPT ![child] = "VISITING"]
        /\ stack' = Append([stack EXCEPT ![Len(stack)].next = @ + 1],
                           [module |-> child, next |-> 1])
        /\ UNCHANGED <<loop, phase, error, cursor>>
  /\ UNCHANGED <<inputs, state, links, current, diagnostics, products>>

Leave ==
  /\ phase = "loops"
  /\ stack # <<>>
  /\ Top.next > Len(dependents[Top.module])
  /\ colors' = [colors EXCEPT ![Top.module] = "VISITED"]
  /\ stack' = SubSeq(stack, 1, Len(stack) - 1)
  /\ UNCHANGED <<inputs, phase, error, state, links, current, cursor,
                 diagnostics, loop, products>>

(* No loop: the trees are printed, or compilation starts. *)
NoLoop ==
  /\ phase = "loops"
  /\ stack = <<>>
  /\ cursor > Len(Names)
  /\ Goto(IF emitType = "AST" THEN "done" ELSE "seed")
  /\ UNCHANGED <<inputs, state, links, current, diagnostics, dfs, products>>

-----------------------------------------------------------------------------
(* build_symbols_table_and_compile.                                          *)

(* Mutant: every module is queued at the start. *)
SeedEvery(m) ==
  /\ phase = "seed"
  /\ cursor <= Len(Names)
  /\ m = Names[cursor]
  /\ cursor' = cursor + 1
  /\ queue' = Append(queue, m)
  /\ UNCHANGED <<inputs, phase, error, state, links, current, diagnostics,
                 dfs, llvmModules, program>>

Seed(m) ==
  /\ phase = "seed"
  /\ cursor <= Len(Names)
  /\ m = Names[cursor]
  /\ cursor' = cursor + 1
  /\ queue' = IF dependencies[m] = <<>> THEN Append(queue, m) ELSE queue
  /\ UNCHANGED <<inputs, phase, error, state, links, current, diagnostics,
                 dfs, llvmModules, program>>

SeedEnd ==
  /\ phase = "seed"
  /\ cursor > Len(Names)
  /\ Goto("queue")
  /\ UNCHANGED <<inputs, state, links, current, diagnostics, dfs, products>>

(* Mutant: the first dependency alone is looked at. *)
FirstProcessed(m) ==
  \A i \in 1..Len(dependencies[m]) : i = 1 => dependencies[m][i] \in Compiled

Processed(m) == \A i \in 1..Len(dependencies[m]) : dependencies[m][i] \in Compiled

PutBack ==
  /\ phase = "queue"
  /\ queue # <<>>
  /\ ~Processed(Head(queue))
  /\ queue' = Append(Tail(queue), Head(queue))
  /\ UNCHANGED <<inputs, phase, error, state, links, current, cursor,
                 diagnostics, dfs, llvmModules, program>>

(* Analysis or code generation throws.  A semantic error is annotated, and   *)
(* printed unless it spans several lines, which print_annotations refuses;   *)
(* any other exception leaves no annotation.                                 *)
AnalysisFails ==
  /\ phase = "queue"
  /\ queue # <<>>
  /\ Processed(Head(queue))
  /\ queue' = Tail(queue)
  /\ \/ /\ annotations' = Append(annotations, Head(queue))
        /\ printed' \in {printed \o annotations', printed \o annotations}
     \/ UNCHANGED <<annotations, printed>>
  /\ Throw("semantic")
  /\ UNCHANGED <<inputs, state, links, current, hasSyntaxErrors, dfs,
                 llvmModules, program>>

Compile ==
  /\ phase = "queue"
  /\ queue # <<>>
  /\ Processed(Head(queue))
  /\ queue' = Tail(queue)
  /\ llvmModules' = Append(llvmModules, Head(queue))
  /\ state' = [state EXCEPT ![Head(queue)] = "AFTER_IR_COMPILER"]
  /\ current' = Head(queue)
  /\ Goto("dependents")
  /\ UNCHANGED <<inputs, links, diagnostics, dfs, program>>

(* One dependent of the module just compiled. *)
Notify(d) ==
  /\ phase = "dependents"
  /\ cursor <= Len(dependents[current])
  /\ d = dependents[current][cursor]
  /\ cursor' = cursor + 1
  /\ queue' = IF d \in Compiled THEN queue ELSE Append(queue, d)
  /\ UNCHANGED <<inputs, phase, error, state, links, current, diagnostics,
                 dfs, llvmModules, program>>

(* Mutant: the loop may end before the last dependent. *)
NotifyEndEarly ==
  /\ phase = "dependents"
  /\ cursor >= Len(dependents[current])
  /\ Goto("queue")
  /\ UNCHANGED <<inputs, state, links, current, diagnostics, dfs, products>>

NotifyEnd ==
  /\ phase = "dependents"
  /\ cursor > Len(dependents[current])
  /\ Goto("queue")
  /\ UNCHANGED <<inputs, state, links, current, diagnostics, dfs, products>>

QueueEmpty ==
  /\ phase = "queue"
  /\ queue = <<>>
  /\ Goto("link")
  /\ UNCHANGED <<inputs, state, links, current, diagnostics, dfs, products>>

-----------------------------------------------------------------------------
(* compile(): linking and output.                                            *)

Repeated == \E i, j \in 1..Len(llvmModules) :
              i # j /\ llvmModules[i] = llvmModules[j]

Link ==
  /\ phase = "link"
  /\ program' = Range(llvmModules)
  /\ llvmModules' = <<>>
  /\ Goto("done")
  /\ UNCHANGED <<inputs, state, links, current, diagnostics, dfs, queue>>

(* Two llvm modules that define the same symbols make the linker report an   *)
(* error, which ends the process.                                            *)
LinkFails ==
  /\ phase = "link"
  /\ Repeated
  /\ Throw("link")
  /\ UNCHANGED <<inputs, state, links, current, diagnostics, dfs, products>>

Terminated == phase \in {"done", "failed"} /\ UNCHANGED vars

Parsing ==
  \E m \in Modules :
    LoadFails(m) \/ ParseFails(m) \/ PrintFails(m) \/ ParseHangs(m)
      \/ ParseSucceeds(m)
Importing == (\E name \in Importable : Import(name)) \/ ImportsEnd \/ FilesEnd
Searching ==
  (\E m \in Modules : SearchFrom(m) \/ VisitChild(m)) \/ Leave \/ NoLoop
Seeding == (\E m \in Modules : Seed(m)) \/ SeedEnd
Processing ==
  \/ PutBack \/ AnalysisFails \/ Compile
  \/ (\E d \in Modules : Notify(d)) \/ NotifyEnd \/ QueueEmpty
Linking == Link \/ LinkFails

Next ==
  Parsing \/ Importing \/ Searching \/ Seeding \/ Processing \/ Linking
    \/ Recovering \/ Terminated

(* The driver is one thread that never blocks: it takes its next step. *)
Spec == Init /\ [][Next]_vars /\ WF_vars(Next)

-----------------------------------------------------------------------------
(* Properties.                                                               *)

Imports(m) == Range(imports[m])
Compiling == phase \in {"seed", "queue", "dependents", "link"}

(* Every nonempty set of modules has one that imports none of the set. *)
Acyclic ==
  \A S \in SUBSET Modules :
    S # {} => \E m \in S : Imports(m) \cap S = {}

(* find_loops is complete: compilation starts only on an acyclic program     *)
(* whose imports all name source files.                                      *)
CompileOnlyAcyclic ==
  Compiling => Acyclic /\ \A m \in Modules : Imports(m) \subseteq Modules

(* find_loops is sound: the reported chain is made of imports (each name is  *)
(* imported by the one before it) and comes back to its first module.        *)
LoopReported ==
  error = "loop" =>
    /\ \A i \in 1..(Len(loop) - 1) : loop[i + 1] \in Imports(loop[i])
    /\ \E i \in 2..Len(loop) : loop[i] = loop[1]

(* The README promises that the dependencies of a module are analysed before *)
(* it: every import of an emitted module was emitted earlier.                *)
DependenciesFirst ==
  \A i \in 1..Len(llvmModules) :
    \A name \in Imports(llvmModules[i]) :
      \E j \in 1..(i - 1) : llvmModules[j] = name

(* No module is forgotten: between two turns of the work loop a module whose *)
(* dependencies are compiled is compiled itself or still in the queue.       *)
WorkIsQueued ==
  phase = "queue" =>
    \A m \in Modules : Processed(m) => m \in Compiled \cup Range(queue)

(* A build that succeeds with IR output has linked every module. *)
OutputComplete == phase = "done" /\ emitType = "IR" => program = Modules

(* A syntax error in one file does not hide those of the others: every bad   *)
(* file that was parsed is shown at once, and once parsing has ended all of  *)
(* them are, unless a file that cannot be loaded, an unknown import or an    *)
(* error that print_annotations cannot underline ended it early.  Only       *)
(* well-formed programs are searched for loops and compiled.                 *)
SyntaxErrorsReported ==
  /\ \A m \in malformed : state[m] # "UNPROCESSED" => m \in Range(printed)
  /\ \/ phase \in {"parse", "recovery", "imports"}
     \/ error \in {"load", "annotations", "unknown module"}
     \/ malformed \subseteq Range(printed) /\ (error = "syntax" <=> malformed # {})

CompiledOnce ==
  \A i, j \in 1..Len(llvmModules) : llvmModules[i] = llvmModules[j] => i = j

(* When no module imports more than one other, each is compiled once and the *)
(* link step has nothing to complain about.                                  *)
ChainsCompiledOnce ==
  (\A m \in Modules : Len(imports[m]) <= 1) => CompiledOnce

(* The compiler comes to an end, the put-back loop included, unless it is    *)
(* for ever in parse() of a malformed file.                                  *)
Termination ==
  <>(\/ phase \in {"done", "failed"}
     \/ phase = "recovery" /\ current \in malformed)

(* How the build ended, as ModuleBuild sees it. *)
ShownVerdict ==
  CASE phase = "failed" -> "error"
    [] phase = "done" -> IF emitType = "AST" THEN "trees" ELSE "program"
    [] OTHER -> "building"

(* The driver keeps the promises of ModuleBuild: recompiling a module, the   *)
(* put-backs and the search are steps that its user does not see.            *)
Build ==
  INSTANCE ModuleBuild WITH
    built <- Compiled,
    verdict <- ShownVerdict
BuildSpec == Build!Spec
=============================================================================
