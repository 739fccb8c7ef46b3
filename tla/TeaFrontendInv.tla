-------------------------- MODULE TeaFrontendInv ---------------------------
(* The inductive invariants behind the safety properties of TeaFrontend, in  *)
(* the order in which they are proved: each part may use the earlier ones.   *)
EXTENDS TeaFrontend

DependsOn(m, n) ==
  \E i \in 1..Len(dependencies[m]) : dependencies[m][i] = n

HasDependent(n, m) ==
  \E i \in 1..Len(dependents[n]) : dependents[n][i] = m

Parsed(m) == state[m] # "UNPROCESSED"
Linked == phase \notin {"parse", "recovery", "imports", "failed"}

-----------------------------------------------------------------------------
(* build_ast: the lists of a module whose imports were processed hold its    *)
(* imports, and dependents is the converse of dependencies.                  *)

CursorInv == cursor >= 1

ConverseInv ==
  \A m, n \in Modules : HasDependent(n, m) <=> DependsOn(m, n)

UntouchedInv ==
  \A m \in Modules : ~Parsed(m) => dependencies[m] = <<>>

(* The part of the current import list that the loop is past. *)
ImportingInv ==
  phase = "imports" =>
    /\ Parsed(current)
    /\ ~hasSyntaxErrors
    /\ \A i \in 1..Len(imports[current]) :
         i < cursor => imports[current][i] \in Modules
    /\ \A n \in Modules :
         DependsOn(current, n) <=>
           \E i \in 1..Len(imports[current]) : i < cursor /\ imports[current][i] = n

SettledInv ==
  phase # "failed" /\ ~hasSyntaxErrors =>
    \A m \in Modules :
      Parsed(m) /\ ~(phase = "imports" /\ current = m) =>
        /\ Imports(m) \subseteq Modules
        /\ \A n \in Modules : DependsOn(m, n) <=> n \in Imports(m)

LinkedInv == Linked => ~hasSyntaxErrors /\ \A m \in Modules : Parsed(m)

LinksInv ==
  /\ CursorInv /\ ConverseInv /\ UntouchedInv /\ ImportingInv /\ SettledInv
  /\ LinkedInv

-----------------------------------------------------------------------------
(* find_loops.                                                               *)

Visited == {m \in Modules : colors[m] = "VISITED"}

NotSearchedInv ==
  phase \in {"parse", "recovery", "imports"} =>
    stack = <<>> /\ \A m \in Modules : colors[m] = "UNVISITED"

(* The modules being visited are those of the active calls, once each. *)
VisitingInv ==
  /\ \A m \in Modules :
       colors[m] = "VISITING" <=> \E i \in 1..Len(stack) : stack[i].module = m
  /\ \A i, j \in 1..Len(stack) : stack[i].module = stack[j].module => i = j

(* Every active call was made for a dependent of the caller, which is past   *)
(* the children whose visit is complete.                                     *)
CallsInv ==
  /\ \A i \in 1..Len(stack) :
       i < Len(stack) => HasDependent(stack[i].module, stack[i + 1].module)
  /\ \A i \in 1..Len(stack) :
       /\ stack[i].next >= 1
       /\ \A k \in 1..Len(dependents[stack[i].module]) :
            k < stack[i].next =>
              \/ dependents[stack[i].module][k] \in Visited
              \/ i < Len(stack) /\ dependents[stack[i].module][k] = stack[i + 1].module

(* What was visited is closed under dependents and has no import loop. *)
ClosedInv ==
  \A m \in Visited : \A n \in Modules : HasDependent(m, n) => n \in Visited

VisitedAcyclicInv ==
  Linked =>
    \A S \in SUBSET Visited : S # {} => \E m \in S : Imports(m) \cap S = {}

RootsInv ==
  phase = "loops" =>
    \A i \in 1..Len(Names) :
      i < cursor => \/ Names[i] \in Visited
                    \/ stack # <<>> /\ stack[1].module = Names[i]

SearchInv ==
  /\ NotSearchedInv /\ VisitingInv /\ CallsInv /\ ClosedInv
  /\ VisitedAcyclicInv /\ RootsInv /\ CompileOnlyAcyclic /\ LoopReported

-----------------------------------------------------------------------------
(* build_symbols_table_and_compile.                                          *)

NotCompiledInv ==
  phase \in {"parse", "recovery", "imports", "loops", "seed"} => Compiled = {}

(* llvm_modules_ holds exactly the compiled modules, until it is linked. *)
CompiledInv ==
  phase \notin {"done", "failed"} =>
    \A m \in Modules : m \in Compiled <=> \E i \in 1..Len(llvmModules) : llvmModules[i] = m

SeedInv ==
  phase = "seed" =>
    \A i \in 1..Len(Names) :
      i < cursor /\ dependencies[Names[i]] = <<>> => Names[i] \in Range(queue)

(* While the dependents of a module are notified, those to come will still   *)
(* be queued.                                                                *)
NotifyInv ==
  phase = "dependents" =>
    \A m \in Modules :
      Processed(m) =>
        \/ m \in Compiled \cup Range(queue)
        \/ \E k \in 1..Len(dependents[current]) :
             cursor <= k /\ dependents[current][k] = m

FinishedInv ==
  /\ Compiling => emitType = "IR"
  /\ phase = "link" => Compiled = Modules
  /\ phase = "done" /\ emitType = "IR" => Compiled = Modules
  /\ phase = "done" /\ emitType = "AST" => Compiled = {}

WorkInv ==
  /\ NotCompiledInv /\ CompiledInv /\ SeedInv /\ NotifyInv /\ WorkIsQueued
  /\ FinishedInv /\ DependenciesFirst /\ OutputComplete

-----------------------------------------------------------------------------
(* Syntax errors.                                                            *)

(* While files are parsed, the bad ones among those parsed are annotated,    *)
(* and what is annotated is printed.                                         *)
AnnotatedInv ==
  phase \in {"parse", "imports"} =>
    /\ Range(annotations) = {m \in malformed : Parsed(m)}
    /\ Range(printed) = Range(annotations)
    /\ hasSyntaxErrors <=> annotations # <<>>

(* The search for loops and the compilation see well-formed files only. *)
WellFormedInv ==
  Linked \/ error \in {"loop", "semantic", "link"} => malformed = {}

ReportInv ==
  /\ phase # "failed" => error = None
  /\ AnnotatedInv /\ WellFormedInv /\ SyntaxErrorsReported

-----------------------------------------------------------------------------
(* The queue when no module imports more than one other.                     *)

Distinct(list) == \A i, j \in 1..Len(list) : list[i] = list[j] => i = j

DistinctInv == \A m \in Modules : Distinct(dependents[m])

(* A module is queued once, before it is compiled and after its dependency.  *)
QueuedOnceInv ==
  /\ phase \in {"parse", "recovery", "imports", "loops"} => queue = <<>>
  /\ Distinct(queue)
  /\ Range(queue) \cap Compiled = {}
  /\ Linked => \A m \in Compiled \cup Range(queue) : Processed(m)

(* In the seed loop what is queued lies behind the cursor; while dependents  *)
(* are notified those to come are neither compiled nor queued.               *)
AheadInv ==
  /\ phase = "seed" =>
       \A i \in 1..Len(Names) : Names[i] \in Range(queue) => i < cursor
  /\ phase = "dependents" =>
       /\ current \in Compiled
       /\ \A k \in 1..Len(dependents[current]) :
            cursor <= k => dependents[current][k] \notin Compiled \cup Range(queue)

OnceInv ==
  (\A m \in Modules : Len(imports[m]) <= 1) =>
    DistinctInv /\ QueuedOnceInv /\ AheadInv /\ CompiledOnce
=============================================================================
