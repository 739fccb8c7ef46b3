---------------------- MODULE TeaFrontendSearch_proofs ----------------------
(* The import-loop search is sound and complete: find_loops reports a chain  *)
(* of imports that closes on itself, and lets only acyclic programs through. *)
EXTENDS TeaFrontend_proofs

(* Once the modules are linked, dependents is the converse of Imports. *)
LEMMA LinkedEdges ==
  ASSUME LinksInv, Linked
  PROVE  \A m \in Modules :
           /\ Imports(m) \subseteq Modules
           /\ \A n \in Modules : HasDependent(n, m) <=> n \in Imports(m)
BY DEF LinksInv, Linked, LinkedInv, SettledInv, ConverseInv

(* A step outside find_loops leaves the search and its result alone. *)
LEMMA OtherSteps ==
  ASSUME TypeOK, LinksInv, SearchInv,
         UNCHANGED <<imports, dependents, colors, stack, loop>>,
         Linked, phase' \notin {"parse", "recovery", "imports", "loops"},
         Compiling' => Compiling,
         error' = "loop" => error = "loop"
  PROVE  SearchInv'
<1>. USE DEF SearchInv
<1>1. NotSearchedInv' /\ RootsInv'
  BY DEF NotSearchedInv, RootsInv
<1>2. VisitingInv'
  BY DEF VisitingInv
<1>3. CallsInv'
  BY DEF CallsInv, HasDependent, Visited
<1>4. ClosedInv'
  BY DEF ClosedInv, HasDependent, Visited
<1>5. VisitedAcyclicInv'
  BY DEF VisitedAcyclicInv, Visited, Imports, Linked
<1>6. CompileOnlyAcyclic'
  BY DEF CompileOnlyAcyclic, Acyclic, Imports
<1>7. LoopReported'
  BY DEF LoopReported, Imports
<1>. QED  BY <1>1, <1>2, <1>3, <1>4, <1>5, <1>6, <1>7

LEMMA OtherLaterSteps ==
  ASSUME TypeOK, Seeding \/ Processing \/ Linking
  PROVE  /\ UNCHANGED <<colors, stack, loop>>
         /\ phase' # "loops"
         /\ Compiling' => Compiling
         /\ error' = "loop" => error = "loop"
<1>. USE DEF Compiling, dfs
<1>1. ASSUME NEW m \in Modules, Seed(m) \/ Notify(m)
      PROVE  /\ phase \in {"seed", "dependents"} /\ phase' = phase
             /\ UNCHANGED <<dfs, error>>
  BY <1>1 DEF Seed, Notify
<1>2. ASSUME SeedEnd \/ NotifyEnd \/ QueueEmpty \/ Link \/ Compile
      PROVE  /\ phase \in {"seed", "dependents", "queue", "link"}
             /\ phase' \in {"done", "queue", "link", "dependents"}
             /\ UNCHANGED <<dfs, error>>
  BY <1>2 DEF SeedEnd, NotifyEnd, QueueEmpty, Link, Compile, Goto
<1>3. ASSUME PutBack
      PROVE  phase = "queue" /\ phase' = phase /\ UNCHANGED <<dfs, error>>
  BY <1>3 DEF PutBack
<1>4. ASSUME AnalysisFails \/ LinkFails
      PROVE  phase' = "failed" /\ error' # "loop" /\ UNCHANGED dfs
  BY <1>4 DEF AnalysisFails, LinkFails, Throw
<1>. QED
  BY <1>1, <1>2, <1>3, <1>4 DEF Seeding, Processing, Linking

(* Before the search: nothing is visited, so there is nothing to disturb. *)
LEMMA EarlySteps ==
  ASSUME TypeOK, LinksInv, SearchInv,
         phase \in {"parse", "imports"},
         UNCHANGED <<colors, stack, loop>>,
         phase' = "loops" => cursor' = 1,
         phase' \in {"parse", "recovery", "imports", "loops", "failed"},
         imports' = imports,
         error' = "loop" => error = "loop"
  PROVE  SearchInv'
<1>. USE DEF SearchInv
<1>1. stack' = <<>> /\ \A m \in Modules : colors'[m] = "UNVISITED"
  BY DEF NotSearchedInv
<1>2. NotSearchedInv'
  BY <1>1 DEF NotSearchedInv
<1>3. VisitingInv' /\ CallsInv'
  BY <1>1 DEF VisitingInv, CallsInv
<1>4. Visited' = {}
  BY <1>1 DEF Visited
<1>5. ClosedInv' /\ VisitedAcyclicInv'
  BY <1>4 DEF ClosedInv, VisitedAcyclicInv
<1>6. RootsInv'
  <2>1. Len(Names) \in Nat
    BY NamesAssumption DEF NamesAssumption
  <2>2. phase' = "loops" => \A i \in 1..Len(Names) : ~(i < cursor')
    BY <2>1
  <2>. QED  BY <2>2 DEF RootsInv
<1>7. CompileOnlyAcyclic'
  BY DEF CompileOnlyAcyclic, Compiling
<1>8. LoopReported'
  BY DEF LoopReported, Imports
<1>. QED  BY <1>2, <1>3, <1>5, <1>6, <1>7, <1>8

LEMMA EarlyActions ==
  ASSUME TypeOK, Parsing \/ Importing
  PROVE  /\ phase \in {"parse", "imports"}
         /\ UNCHANGED <<colors, stack, loop, imports>>
         /\ phase' = "loops" => cursor' = 1
         /\ phase' \in {"parse", "recovery", "imports", "loops", "failed"}
         /\ error' = "loop" => error = "loop"
<1>. USE DEF dfs, inputs
<1>1. ASSUME NEW m \in Modules, LoadFails(m)
      PROVE  phase = "parse" /\ phase' = "failed" /\ error' = "load" /\ UNCHANGED <<dfs, imports>>
  BY <1>1 DEF LoadFails, Pick, Throw
<1>2. ASSUME NEW m \in Modules, ParseFails(m)
      PROVE  phase = "parse" /\ UNCHANGED <<phase, error, dfs, imports>>
  BY <1>2 DEF ParseFails, Pick
<1>7. ASSUME NEW m \in Modules, PrintFails(m)
      PROVE  /\ phase = "parse" /\ phase' = "failed" /\ error' = "annotations"
             /\ UNCHANGED <<dfs, imports>>
  BY <1>7 DEF PrintFails, Pick, Throw
<1>8. ASSUME NEW m \in Modules, ParseHangs(m)
      PROVE  phase = "parse" /\ phase' = "recovery" /\ UNCHANGED <<error, dfs, imports>>
  BY <1>8 DEF ParseHangs, Pick, Goto
<1>3. ASSUME NEW m \in Modules, ParseSucceeds(m)
      PROVE  /\ phase = "parse" /\ phase' \in {"parse", "imports"}
             /\ UNCHANGED <<error, dfs, imports>>
  BY <1>3 DEF ParseSucceeds, Pick, Goto
<1>4. ASSUME NEW name \in Importable, Import(name)
      PROVE  /\ phase = "imports" /\ UNCHANGED <<dfs, imports>>
             /\ \/ phase' = "imports" /\ error' = error
                \/ phase' = "failed" /\ error' = "unknown module"
  BY <1>4 DEF Import, Throw
<1>5. ASSUME ImportsEnd
      PROVE  phase = "imports" /\ phase' = "parse" /\ UNCHANGED <<error, dfs, imports>>
  BY <1>5 DEF ImportsEnd, Goto
<1>6. ASSUME FilesEnd
      PROVE  /\ phase = "parse" /\ UNCHANGED <<dfs, imports>>
             /\ \/ phase' = "failed" /\ error' = "syntax"
                \/ phase' = "loops" /\ cursor' = 1 /\ error' = error
  BY <1>6 DEF FilesEnd, Throw, Goto
<1>. QED
  BY <1>1, <1>2, <1>3, <1>4, <1>5, <1>6, <1>7, <1>8 DEF Parsing, Importing

-----------------------------------------------------------------------------
(* The steps of the search.                                                  *)

(* What the type invariant says of the active calls. *)
LEMMA StackTyped ==
  ASSUME TypeOK
  PROVE  /\ Len(stack) \in Nat
         /\ \A i \in 1..Len(stack) : /\ stack[i] \in Frames
                                     /\ stack[i].module \in Modules
                                     /\ stack[i].next \in Nat
<1>1. Len(stack) \in Nat /\ \A i \in 1..Len(stack) : stack[i] \in Frames
  BY DEF TypeOK, SearchOK
<1>2. \A f \in Frames : f.module \in Modules /\ f.next \in Nat
  BY DEF Frames
<1>. QED  BY <1>1, <1>2

LEMMA SearchFromStep ==
  ASSUME TypeOK, LinksInv, SearchInv, NEW m \in Modules, SearchFrom(m)
  PROVE  SearchInv'
<1>. USE DEF SearchInv
<1>1. /\ phase = "loops" /\ stack = <<>> /\ cursor <= Len(Names) /\ m = Names[cursor]
      /\ cursor' = cursor + 1
      /\ UNCHANGED <<imports, dependents, phase, error, loop>>
  BY DEF SearchFrom, inputs, links
<1>2. cursor \in Nat /\ cursor >= 1 /\ Len(Names) \in Nat
  <2>1. cursor \in Nat /\ cursor >= 1
    BY DEF TypeOK, ControlOK, LinksInv, CursorInv
  <2>2. Len(Names) \in Nat
    BY NamesAssumption DEF NamesAssumption
  <2>. QED  BY <2>1, <2>2
<1>3. \A i \in 1..Len(Names) : i < cursor' => i < cursor \/ i = cursor
  BY <1>1, <1>2
<1>4. colors \in [Modules -> {"UNVISITED", "VISITING", "VISITED"}]
  BY DEF TypeOK, SearchOK
<1>5. NotSearchedInv' /\ CompileOnlyAcyclic'
  BY <1>1 DEF NotSearchedInv, CompileOnlyAcyclic, Compiling
<1>6. LoopReported'
  BY <1>1 DEF LoopReported, Imports
<1>7. CASE colors[m] = "VISITED"
  <2>1. UNCHANGED <<colors, stack>>
    BY <1>7 DEF SearchFrom
  <2>2. VisitingInv' /\ ClosedInv' /\ VisitedAcyclicInv'
    BY <1>1, <2>1
       DEF VisitingInv, ClosedInv, HasDependent, VisitedAcyclicInv, Visited, Imports, Linked
  <2>3. CallsInv'
    BY <1>1, <2>1 DEF CallsInv, HasDependent, Visited
  <2>4. RootsInv'
    BY <1>1, <1>3, <1>7, <2>1 DEF RootsInv, Visited
  <2>. QED  BY <1>5, <1>6, <2>2, <2>3, <2>4
<1>8. CASE colors[m] # "VISITED"
  <2>1. /\ colors' = [colors EXCEPT ![m] = "VISITING"]
        /\ stack' = <<[module |-> m, next |-> 1]>>
    BY <1>8 DEF SearchFrom
  <2>2. /\ stack' # <<>> /\ Len(stack') = 1
        /\ stack'[1].module = m /\ stack'[1].next = 1
    BY <2>1
  <2>3. \A n \in Modules : colors[n] # "VISITING"
    BY <1>1 DEF VisitingInv
  <2>4. \A n \in Modules : colors'[n] = IF n = m THEN "VISITING" ELSE colors[n]
    BY <1>4, <2>1
  <2>5. VisitingInv'
    BY <2>2, <2>3, <2>4 DEF VisitingInv
  <2>6. Visited' = Visited
    BY <1>8, <2>4 DEF Visited
  <2>7. ClosedInv' /\ VisitedAcyclicInv'
    BY <1>1, <2>6 DEF ClosedInv, HasDependent, VisitedAcyclicInv, Imports, Linked
  <2>8. CallsInv'
    <3>1. \A i \in 1..Len(stack') : i = 1
      BY <2>2
    <3>2. \A k \in 1..Len(dependents'[m]) : ~(k < 1)
      BY <1>1 DEF TypeOK, ContextsOK
    <3>. QED  BY <2>2, <3>1, <3>2 DEF CallsInv
  <2>9. RootsInv'
    BY <1>1, <1>3, <2>2, <2>6 DEF RootsInv
  <2>. QED  BY <1>5, <1>6, <2>5, <2>7, <2>8, <2>9
<1>. QED  BY <1>7, <1>8

(* The report is a chain of imports that comes back to its first module. *)
LEMMA ReportIsLoop ==
  ASSUME TypeOK, LinksInv, SearchInv, NEW m \in Modules, phase = "loops",
         stack # <<>>, HasDependent(Top.module, m), colors[m] = "VISITING"
  PROVE  /\ \A i \in 1..(Len(ReportFrom(m)) - 1) :
              ReportFrom(m)[i + 1] \in Imports(ReportFrom(m)[i])
         /\ \E i \in 2..Len(ReportFrom(m)) : ReportFrom(m)[i] = ReportFrom(m)[1]
<1>. DEFINE L == Len(stack)
            R == ReportFrom(m)
<1>1. L \in Nat /\ L >= 1
  BY DEF TypeOK, SearchOK
<1>2. /\ Len(R) = L + 1 /\ R[1] = m
      /\ \A i \in 2..(L + 1) : R[i] = stack[L + 2 - i].module
  BY <1>1 DEF ReportFrom
<1>3. \A i \in 1..L : stack[i].module \in Modules
  BY StackTyped
<1>4. \A n, k \in Modules : HasDependent(n, k) => n \in Imports(k)
  BY LinkedEdges DEF Linked
<1>5. ASSUME NEW i \in 1..L PROVE R[i + 1] \in Imports(R[i])
  <2>1. CASE i = 1
    <3>1. R[2] = stack[L].module
      BY <1>1, <1>2
    <3>. QED  BY <1>1, <1>2, <1>3, <1>4, <2>1, <3>1 DEF Top
  <2>2. CASE i # 1
    <3>1. L + 1 - i \in 1..L /\ L + 1 - i < L /\ (L + 1 - i) + 1 \in 1..L
      BY <1>1, <1>5, <2>2
    <3>2. R[i + 1] = stack[L + 1 - i].module /\ R[i] = stack[(L + 1 - i) + 1].module
      BY <1>1, <1>2, <1>5, <2>2
    <3>3. HasDependent(stack[L + 1 - i].module, stack[(L + 1 - i) + 1].module)
      BY <3>1 DEF SearchInv, CallsInv
    <3>. QED  BY <1>3, <1>4, <3>1, <3>2, <3>3
  <2>. QED  BY <2>1, <2>2
<1>6. PICK j \in 1..L : stack[j].module = m
  BY DEF SearchInv, VisitingInv
<1>7. L + 2 - j \in 2..(L + 1) /\ R[L + 2 - j] = R[1]
  <2>1. L + 2 - j \in 2..(L + 1) /\ L + 2 - (L + 2 - j) = j
    BY <1>1, <1>6
  <2>. QED  BY <1>2, <1>6, <2>1
<1>8. Len(R) - 1 = L
  BY <1>1, <1>2
<1>. QED  BY <1>2, <1>5, <1>7, <1>8

LEMMA VisitChildStep ==
  ASSUME TypeOK, LinksInv, SearchInv, NEW m \in Modules, VisitChild(m)
  PROVE  SearchInv'
<1>. USE DEF SearchInv
<1>. DEFINE L == Len(stack)
            T == stack[L]
<1>1. /\ phase = "loops" /\ stack # <<>>
      /\ T.next <= Len(dependents[T.module]) /\ m = dependents[T.module][T.next]
      /\ UNCHANGED <<imports, dependents>>
  BY DEF VisitChild, inputs, links, Top
<1>2. L \in Nat /\ L >= 1 /\ T \in Frames /\ T.module \in Modules /\ T.next \in Nat
  BY <1>1, StackTyped DEF TypeOK, SearchOK
<1>3. T.next >= 1
  BY <1>2 DEF CallsInv
<1>4. HasDependent(T.module, m)
  BY <1>1, <1>2, <1>3 DEF HasDependent, TypeOK, ContextsOK
<1>5. CASE colors[m] = "VISITING"
  <2>1. /\ loop' = ReportFrom(m) /\ phase' = "failed"
        /\ UNCHANGED <<colors, stack>>
    BY <1>5 DEF VisitChild, Throw
  <2>2. LoopReported'
    BY <1>1, <1>4, <1>5, <2>1, ReportIsLoop DEF LoopReported, Top, Imports
  <2>3. NotSearchedInv' /\ RootsInv' /\ CompileOnlyAcyclic' /\ VisitedAcyclicInv'
    BY <2>1 DEF NotSearchedInv, RootsInv, CompileOnlyAcyclic, Compiling,
                VisitedAcyclicInv, Linked
  <2>4. VisitingInv' /\ ClosedInv'
    BY <1>1, <2>1 DEF VisitingInv, ClosedInv, HasDependent, Visited
  <2>5. CallsInv'
    BY <1>1, <2>1 DEF CallsInv, HasDependent, Visited
  <2>. QED  BY <2>2, <2>3, <2>4, <2>5
<1>6. CASE colors[m] = "VISITED"
  <2>1. /\ stack' = [stack EXCEPT ![L].next = @ + 1]
        /\ UNCHANGED <<colors, loop, phase, error, cursor>>
    BY <1>6 DEF VisitChild
  <2>2. /\ Len(stack') = L /\ stack' # <<>>
        /\ \A i \in 1..L : stack'[i].module = stack[i].module
        /\ \A i \in 1..L : i # L => stack'[i] = stack[i]
        /\ stack'[L].next = T.next + 1
    <3>1. stack \in Seq(Frames)
      BY DEF TypeOK, SearchOK
    <3>2. Len(stack') = L /\ \A i \in 1..L : i # L => stack'[i] = stack[i]
      BY <2>1, <3>1
    <3>3. stack'[L] = [T EXCEPT !.next = @ + 1]
      BY <1>2, <2>1, <3>1
    <3>4. stack'[L].module = T.module /\ stack'[L].next = T.next + 1
      BY <1>2, <3>3 DEF Frames
    <3>. QED  BY <1>2, <3>2, <3>4
  <2>3. VisitingInv'
    BY <2>1, <2>2 DEF VisitingInv
  <2>4. ClosedInv' /\ VisitedAcyclicInv' /\ LoopReported'
    BY <1>1, <2>1 DEF ClosedInv, HasDependent, Visited, VisitedAcyclicInv, Imports,
                      Linked, LoopReported
  <2>5. NotSearchedInv' /\ CompileOnlyAcyclic'
    BY <1>1, <2>1 DEF NotSearchedInv, CompileOnlyAcyclic, Compiling
  <2>6. RootsInv'
    BY <1>2, <2>1, <2>2 DEF RootsInv, Visited
  <2>7. CallsInv'
    <3>1. ASSUME NEW i \in 1..L, i < L
          PROVE  HasDependent(stack'[i].module, stack'[i + 1].module)
      <4>1. HasDependent(stack[i].module, stack[i + 1].module) /\ i + 1 \in 1..L
        BY <1>2, <3>1 DEF CallsInv
      <4>. QED  BY <2>2, <4>1
    <3>2. ASSUME NEW i \in 1..L, i # L, NEW k \in 1..Len(dependents[stack[i].module]),
                 k < stack'[i].next
          PROVE  \/ dependents[stack[i].module][k] \in Visited
                 \/ i < L /\ dependents[stack[i].module][k] = stack[i + 1].module
      BY <2>2, <3>2 DEF CallsInv
    <3>3. ASSUME NEW k \in 1..Len(dependents[T.module]), k < T.next + 1
          PROVE  dependents[T.module][k] \in Visited
      <4>1. CASE k = T.next
        BY <1>1, <1>6, <4>1 DEF Visited
      <4>2. CASE k # T.next
        <5>1. k < T.next
          BY <1>2, <3>3, <4>2
        <5>. QED  BY <1>2, <5>1 DEF CallsInv
      <4>. QED  BY <4>1, <4>2
    <3>4. \A i \in 1..L : stack'[i].next >= 1
      BY <1>2, <2>2 DEF CallsInv
    <3>5. Visited' = Visited
      BY <2>1 DEF Visited
    <3>6. ASSUME NEW i \in 1..L, NEW k \in 1..Len(dependents[stack[i].module]),
                 k < stack'[i].next
          PROVE  \/ dependents[stack[i].module][k] \in Visited
                 \/ i < L /\ dependents[stack[i].module][k] = stack[i + 1].module
      BY <2>2, <3>2, <3>3, <3>6
    <3>7. \A i \in 1..L : i < L => i + 1 \in 1..L
      BY <1>2
    <3>8. (\A i \in 1..Len(stack) : i < Len(stack) => HasDependent(stack[i].module, stack[i + 1].module))'
      BY <1>1, <2>2, <3>1 DEF HasDependent
    <3>9. (\A i \in 1..Len(stack) :
             \A k \in 1..Len(dependents[stack[i].module]) :
               k < stack[i].next =>
                 \/ dependents[stack[i].module][k] \in Visited
                 \/ i < Len(stack) /\ dependents[stack[i].module][k] = stack[i + 1].module)'
      <4>1. SUFFICES ASSUME NEW i \in 1..L, NEW k \in 1..Len(dependents[stack[i].module]),
                            k < stack'[i].next
                     PROVE  \/ dependents[stack[i].module][k] \in Visited
                            \/ /\ i < L
                               /\ dependents[stack[i].module][k] = stack'[i + 1].module
        BY <1>1, <2>2, <3>5
      <4>. QED  BY <2>2, <3>6, <3>7, <4>1
    <3>. QED  BY <2>2, <3>4, <3>8, <3>9 DEF CallsInv
  <2>. QED  BY <2>3, <2>4, <2>5, <2>6, <2>7
<1>7. CASE colors[m] = "UNVISITED"
  <2>1. /\ colors' = [colors EXCEPT ![m] = "VISITING"]
        /\ stack' = Append([stack EXCEPT ![L].next = @ + 1],
                           [module |-> m, next |-> 1])
        /\ UNCHANGED <<loop, phase, error, cursor>>
    BY <1>7 DEF VisitChild
  <2>2. /\ Len(stack') = L + 1 /\ stack' # <<>>
        /\ \A i \in 1..L : stack'[i].module = stack[i].module
        /\ \A i \in 1..L : i # L => stack'[i] = stack[i]
        /\ stack'[L].next = T.next + 1
        /\ stack'[L + 1].module = m /\ stack'[L + 1].next = 1
    <3>. DEFINE advanced == [stack EXCEPT ![L].next = @ + 1]
    <3>1. stack \in Seq(Frames)
      BY DEF TypeOK, SearchOK
    <3>2. Len(advanced) = L /\ \A i \in 1..L : i # L => advanced[i] = stack[i]
      BY <3>1
    <3>3. advanced[L] = [T EXCEPT !.next = @ + 1]
      BY <1>2, <3>1
    <3>4. advanced[L].module = T.module /\ advanced[L].next = T.next + 1
      BY <1>2, <3>3 DEF Frames
    <3>5. advanced \in Seq(Frames)
      <4>1. [T EXCEPT !.next = @ + 1] \in Frames
        BY <1>2 DEF Frames
      <4>. QED  BY <1>2, <3>1, <4>1
    <3>6. /\ Len(stack') = L + 1 /\ \A i \in 1..L : stack'[i] = advanced[i]
          /\ stack'[L + 1] = [module |-> m, next |-> 1]
      <4>1. \A s \in Seq(Frames), f \in Frames :
              /\ Len(Append(s, f)) = Len(s) + 1
              /\ \A i \in 1..Len(s) : Append(s, f)[i] = s[i]
              /\ Append(s, f)[Len(s) + 1] = f
        OBVIOUS
      <4>2. [module |-> m, next |-> 1] \in Frames
        BY DEF Frames
      <4>3. stack' = Append(advanced, [module |-> m, next |-> 1])
        BY <2>1
      <4>. HIDE DEF advanced
      <4>. QED  BY <3>2, <3>5, <4>1, <4>2, <4>3
    <3>7. stack' # <<>>
      <4>1. Len(stack') # 0
        BY <1>2, <3>6
      <4>. QED  BY <4>1
    <3>. HIDE DEF advanced
    <3>8. \A i \in 1..L : stack'[i].module = stack[i].module
      BY <3>2, <3>4, <3>6
    <3>9. \A i \in 1..L : i # L => stack'[i] = stack[i]
      BY <3>2, <3>6
    <3>10. stack'[L].next = T.next + 1
      BY <1>2, <3>4, <3>6
    <3>11. stack'[L + 1].module = m /\ stack'[L + 1].next = 1
      BY <3>6
    <3>. QED  BY <3>6, <3>7, <3>8, <3>9, <3>10, <3>11
  <2>3. \A n \in Modules : colors'[n] = IF n = m THEN "VISITING" ELSE colors[n]
    BY <2>1 DEF TypeOK, SearchOK
  <2>4. Visited' = Visited
    BY <1>7, <2>3 DEF Visited
  <2>5. \A i \in 1..L : stack[i].module # m
    BY <1>7 DEF VisitingInv
  <2>6. \A i \in 1..(L + 1) : i \in 1..L \/ i = L + 1
    BY <1>2
  <2>7. 1..L \subseteq 1..(L + 1) /\ L + 1 \in 1..(L + 1)
    BY <1>2
  <2>8. VisitingInv'
    <3>1. ASSUME NEW n \in Modules
          PROVE  colors'[n] = "VISITING" <=> \E i \in 1..(L + 1) : stack'[i].module = n
      <4>1. CASE n = m
        BY <2>2, <2>3, <2>7, <4>1
      <4>2. CASE n # m
        <5>1. colors[n] = "VISITING" <=> \E i \in 1..L : stack[i].module = n
          BY DEF VisitingInv
        <5>. QED  BY <2>2, <2>3, <2>6, <2>7, <4>2, <5>1
      <4>. QED  BY <4>1, <4>2
    <3>2. ASSUME NEW i \in 1..(L + 1), NEW j \in 1..(L + 1),
                 stack'[i].module = stack'[j].module
          PROVE  i = j
      BY <2>2, <2>5, <2>6, <3>2 DEF VisitingInv
    <3>. QED  BY <2>2, <3>1, <3>2 DEF VisitingInv
  <2>9. ClosedInv' /\ VisitedAcyclicInv' /\ LoopReported'
    BY <1>1, <2>1, <2>4 DEF ClosedInv, HasDependent, VisitedAcyclicInv, Imports,
                            Linked, LoopReported
  <2>10. NotSearchedInv' /\ CompileOnlyAcyclic'
    BY <1>1, <2>1 DEF NotSearchedInv, CompileOnlyAcyclic, Compiling
  <2>11. RootsInv'
    BY <1>2, <2>1, <2>2, <2>4 DEF RootsInv
  <2>12. CallsInv'
    <3>1. ASSUME NEW i \in 1..(L + 1), i < L + 1
          PROVE  HasDependent(stack'[i].module, stack'[i + 1].module)
      <4>1. CASE i = L
        BY <1>1, <1>2, <1>4, <2>2, <4>1 DEF HasDependent
      <4>2. CASE i # L
        <5>1. i \in 1..L /\ i < L /\ i + 1 \in 1..L
          BY <1>2, <3>1, <4>2
        <5>2. HasDependent(stack[i].module, stack[i + 1].module)
          BY <5>1 DEF CallsInv
        <5>. QED  BY <1>1, <2>2, <5>1, <5>2 DEF HasDependent
      <4>. QED  BY <4>1, <4>2
    <3>2. \A i \in 1..(L + 1) : stack'[i].next >= 1
      <4>1. \A i \in 1..L : stack[i].next >= 1
        BY DEF CallsInv
      <4>. QED  BY <1>2, <2>2, <2>6, <4>1
    <3>3. ASSUME NEW i \in 1..(L + 1), NEW k \in 1..Len(dependents[stack'[i].module]),
                 k < stack'[i].next
          PROVE  \/ dependents[stack'[i].module][k] \in Visited
                 \/ /\ i < L + 1
                    /\ dependents[stack'[i].module][k] = stack'[i + 1].module
      <4>1. CASE i = L + 1
        BY <2>2, <3>3, <4>1
      <4>2. CASE i = L
        <5>1. stack'[i].module = T.module /\ stack'[i + 1].module = m /\ i < L + 1
          BY <1>2, <2>2, <4>2
        <5>2. CASE k = T.next
          BY <1>1, <5>1, <5>2
        <5>3. CASE k # T.next
          <6>1. k < T.next
            BY <1>2, <2>2, <3>3, <4>2, <5>3
          <6>. QED  BY <1>2, <5>1, <6>1 DEF CallsInv
        <5>. QED  BY <5>2, <5>3
      <4>3. CASE i \in 1..L /\ i # L
        <5>1. i < L /\ i < L + 1 /\ i + 1 \in 1..L
          BY <1>2, <4>3
        <5>2. stack'[i] = stack[i] /\ stack'[i + 1].module = stack[i + 1].module
          BY <2>2, <4>3, <5>1
        <5>. QED  BY <3>3, <4>3, <5>1, <5>2 DEF CallsInv
      <4>. QED  BY <2>6, <4>1, <4>2, <4>3
    <3>4. (\A i \in 1..Len(stack) : i < Len(stack) => HasDependent(stack[i].module, stack[i + 1].module))'
      BY <1>1, <2>2, <3>1 DEF HasDependent
    <3>. QED  BY <1>1, <2>2, <2>4, <3>2, <3>3, <3>4 DEF CallsInv
  <2>. QED  BY <2>8, <2>9, <2>10, <2>11, <2>12
<1>. QED  BY <1>5, <1>6, <1>7 DEF TypeOK, SearchOK

LEMMA FrontElements ==
  ASSUME NEW S, NEW s \in Seq(S), s # <<>>
  PROVE  /\ Len(SubSeq(s, 1, Len(s) - 1)) = Len(s) - 1
         /\ \A i \in 1..(Len(s) - 1) : SubSeq(s, 1, Len(s) - 1)[i] = s[i]
<1>1. Len(s) \in Nat /\ Len(s) >= 1
  OBVIOUS
<1>2. SubSeq(s, 1, Len(s) - 1) = [i \in 1..(Len(s) - 1) |-> s[i]]
  BY <1>1
<1>3. \A f : \A n \in Nat : f = [i \in 1..n |-> s[i]] => Len(f) = n /\ \A i \in 1..n : f[i] = s[i]
  OBVIOUS
<1>4. Len(s) - 1 \in Nat
  BY <1>1
<1>. QED  BY <1>2, <1>3, <1>4

(* A module that is left joins the visited ones: its dependents are all      *)
(* visited, and no visited module imports it, so it closes no loop.          *)
LEMMA LeaveStep ==
  ASSUME TypeOK, LinksInv, SearchInv, Leave
  PROVE  SearchInv'
<1>. USE DEF SearchInv
<1>. DEFINE L == Len(stack)
            T == stack[L]
            m == T.module
<1>1. /\ phase = "loops" /\ stack # <<>> /\ T.next > Len(dependents[m])
      /\ colors' = [colors EXCEPT ![m] = "VISITED"]
      /\ stack' = SubSeq(stack, 1, L - 1)
      /\ UNCHANGED <<imports, dependents, phase, error, cursor, loop>>
  BY DEF Leave, inputs, links, Top
<1>2. L \in Nat /\ L >= 1 /\ m \in Modules /\ T.next \in Nat
  BY <1>1, StackTyped DEF TypeOK, SearchOK
<1>3. /\ Len(stack') = L - 1
      /\ \A i \in 1..(L - 1) : stack'[i] = stack[i]
  <2>1. stack \in Seq(Frames)
    BY DEF TypeOK, SearchOK
  <2>. QED  BY <1>1, <2>1, FrontElements
<1>4. \A i \in 1..L : i = L \/ (i \in 1..(L - 1) /\ i + 1 \in 1..L)
  BY <1>2
<1>5. 1..(L - 1) \subseteq 1..L /\ L \notin 1..(L - 1) /\ L \in 1..L
  BY <1>2
<1>6. \A n \in Modules : colors'[n] = IF n = m THEN "VISITED" ELSE colors[n]
  BY <1>1, <1>2 DEF TypeOK, SearchOK
<1>7. Visited' = Visited \cup {m}
  BY <1>2, <1>6 DEF Visited
<1>8. m \notin Visited
  BY <1>2, <1>5 DEF VisitingInv, Visited
<1>9. \A n \in Modules : HasDependent(m, n) => n \in Visited
  <2>1. \A k \in 1..Len(dependents[m]) : k < T.next
    BY <1>1, <1>2 DEF TypeOK, ContextsOK
  <2>. QED  BY <1>2, <1>5, <2>1 DEF CallsInv, HasDependent
<1>10. NotSearchedInv' /\ CompileOnlyAcyclic' /\ LoopReported'
  BY <1>1 DEF NotSearchedInv, CompileOnlyAcyclic, Compiling, LoopReported, Imports
<1>11. VisitingInv'
  <2>1. ASSUME NEW n \in Modules
        PROVE  colors'[n] = "VISITING" <=> \E i \in 1..(L - 1) : stack'[i].module = n
    <3>1. colors[n] = "VISITING" <=> \E i \in 1..L : stack[i].module = n
      BY DEF VisitingInv
    <3>2. CASE n = m
      BY <1>3, <1>5, <1>6, <3>2 DEF VisitingInv
    <3>3. CASE n # m
      BY <1>3, <1>4, <1>5, <1>6, <3>1, <3>3
    <3>. QED  BY <3>2, <3>3
  <2>. QED  BY <1>3, <1>5, <2>1 DEF VisitingInv
<1>12. ClosedInv'
  BY <1>1, <1>7, <1>9 DEF ClosedInv, HasDependent
<1>13. VisitedAcyclicInv'
  <2>1. SUFFICES ASSUME NEW S \in SUBSET (Visited \cup {m}), S # {}
                 PROVE  \E n \in S : Imports(n) \cap S = {}
    BY <1>1, <1>7 DEF VisitedAcyclicInv, Imports
  <2>2. CASE m \notin S
    BY <1>1, <2>1, <2>2 DEF VisitedAcyclicInv, Linked
  <2>3. CASE m \in S
    <3>1. SUFFICES ASSUME NEW n \in S, n \in Imports(m) PROVE FALSE
      BY <2>3
    <3>2. n \in Modules
      BY <1>2, <2>1 DEF Visited
    <3>3. HasDependent(n, m)
      BY <1>1, <1>2, <3>1, <3>2, LinkedEdges DEF Linked
    <3>4. n # m
      BY <1>2, <1>8, <1>9, <3>3
    <3>5. n \in Visited
      BY <2>1, <3>4
    <3>. QED  BY <1>2, <1>8, <3>3, <3>5 DEF ClosedInv
  <2>. QED  BY <2>2, <2>3
<1>14. CallsInv'
  <2>1. ASSUME NEW i \in 1..(L - 1)
        PROVE  /\ i \in 1..L /\ stack'[i] = stack[i] /\ stack[i].next >= 1
               /\ i < L - 1 => i + 1 \in 1..(L - 1) /\ stack'[i + 1] = stack[i + 1]
               /\ i < L - 1 => HasDependent(stack[i].module, stack[i + 1].module)
    BY <1>2, <1>3, <1>5 DEF CallsInv
  <2>2. ASSUME NEW i \in 1..(L - 1), NEW k \in 1..Len(dependents[stack[i].module]),
               k < stack[i].next
        PROVE  \/ dependents[stack[i].module][k] \in Visited'
               \/ i < L - 1 /\ dependents[stack[i].module][k] = stack[i + 1].module
    <3>1. \/ dependents[stack[i].module][k] \in Visited
          \/ dependents[stack[i].module][k] = stack[i + 1].module
      BY <1>5, <2>2 DEF CallsInv
    <3>2. i < L - 1 \/ i + 1 = L
      BY <1>2
    <3>. QED  BY <1>7, <3>1, <3>2
  <2>3. (\A i \in 1..Len(stack) :
           i < Len(stack) => HasDependent(stack[i].module, stack[i + 1].module))'
    <3>1. SUFFICES ASSUME NEW i \in 1..(L - 1), i < L - 1
                   PROVE  HasDependent(stack'[i].module, stack'[i + 1].module)
      BY <1>1, <1>3 DEF HasDependent
    <3>. QED  BY <2>1, <3>1
  <2>4. (\A i \in 1..Len(stack) : stack[i].next >= 1)'
    BY <1>3, <2>1
  <2>5. (\A i \in 1..Len(stack) :
           \A k \in 1..Len(dependents[stack[i].module]) :
             k < stack[i].next =>
               \/ dependents[stack[i].module][k] \in Visited
               \/ i < Len(stack) /\ dependents[stack[i].module][k] = stack[i + 1].module)'
    <3>1. SUFFICES ASSUME NEW i \in 1..(L - 1), NEW k \in 1..Len(dependents[stack'[i].module]),
                          k < stack'[i].next
                   PROVE  \/ dependents[stack'[i].module][k] \in Visited'
                          \/ /\ i < L - 1
                             /\ dependents[stack'[i].module][k] = stack'[i + 1].module
      <4>1. Len(stack') = L - 1 /\ dependents' = dependents
        BY <1>1, <1>3
      <4>. QED  BY <4>1
    <3>. QED  BY <2>1, <2>2, <3>1
  <2>. QED  BY <2>3, <2>4, <2>5 DEF CallsInv
<1>15. RootsInv'
  <2>1. CASE L = 1
    BY <1>1, <1>7, <2>1 DEF RootsInv
  <2>2. CASE L # 1
    <3>1. 1 \in 1..(L - 1) /\ Len(stack') # 0
      BY <1>2, <1>3, <2>2
    <3>2. stack' # <<>> /\ stack'[1] = stack[1]
      BY <1>3, <3>1
    <3>. QED  BY <1>1, <1>7, <3>2 DEF RootsInv
  <2>. QED  BY <2>1, <2>2
<1>. QED  BY <1>10, <1>11, <1>12, <1>13, <1>14, <1>15

LEMMA NoLoopStep ==
  ASSUME TypeOK, LinksInv, SearchInv, NoLoop
  PROVE  SearchInv'
<1>. USE DEF SearchInv
<1>1. /\ phase = "loops" /\ stack = <<>> /\ cursor > Len(Names)
      /\ phase' \in {"done", "seed"}
      /\ UNCHANGED <<imports, dependents, colors, stack, loop, error>>
  BY DEF NoLoop, Goto, inputs, links, dfs
<1>2. Visited = Modules
  <2>1. \A i \in 1..Len(Names) : i < cursor
    <3>1. Len(Names) \in Nat
      BY NamesAssumption DEF NamesAssumption
    <3>2. cursor \in Nat
      BY DEF TypeOK, ControlOK
    <3>. QED  BY <1>1, <3>1, <3>2
  <2>2. \A i \in 1..Len(Names) : Names[i] \in Visited
    BY <1>1, <2>1 DEF RootsInv
  <2>. QED  BY <2>2, NamesAssumption DEF NamesAssumption, Visited
<1>3. Acyclic /\ \A m \in Modules : Imports(m) \subseteq Modules
  BY <1>1, <1>2, LinkedEdges DEF VisitedAcyclicInv, Acyclic, Linked
<1>4. CompileOnlyAcyclic'
  BY <1>1, <1>3 DEF CompileOnlyAcyclic, Acyclic, Imports
<1>5. NotSearchedInv' /\ RootsInv'
  BY <1>1 DEF NotSearchedInv, RootsInv
<1>6. VisitingInv' /\ CallsInv'
  BY <1>1 DEF VisitingInv, CallsInv
<1>7. ClosedInv' /\ VisitedAcyclicInv' /\ LoopReported'
  BY <1>1 DEF ClosedInv, HasDependent, Visited, VisitedAcyclicInv, Imports, Linked,
              LoopReported
<1>. QED  BY <1>4, <1>5, <1>6, <1>7

LEMMA SearchStep ==
  ASSUME TypeOK, LinksInv, SearchInv, [Next]_vars
  PROVE  SearchInv'
<1>1. CASE Parsing \/ Importing
  BY <1>1, EarlyActions, EarlySteps
<1>2. CASE Searching
  BY <1>2, SearchFromStep, VisitChildStep, LeaveStep, NoLoopStep DEF Searching
<1>3. CASE Seeding \/ Processing \/ Linking
  <2>1. /\ Linked /\ phase' \notin {"parse", "recovery", "imports", "loops"}
        /\ UNCHANGED <<imports, dependents, colors, stack, loop>>
        /\ Compiling' => Compiling
        /\ error' = "loop" => error = "loop"
    BY <1>3, LaterSteps, OtherLaterSteps
  <2>. QED  BY <2>1, OtherSteps
<1>4. CASE UNCHANGED vars
  <2>1. UNCHANGED <<imports, dependents, phase, error, cursor, colors, stack, loop>>
    BY <1>4 DEF vars, inputs, links, dfs
  <2>. USE DEF SearchInv
  <2>2. NotSearchedInv' /\ RootsInv' /\ VisitingInv' /\ CallsInv'
    BY <2>1 DEF NotSearchedInv, RootsInv, VisitingInv, CallsInv, HasDependent, Visited
  <2>3. ClosedInv' /\ VisitedAcyclicInv'
    BY <2>1 DEF ClosedInv, VisitedAcyclicInv, HasDependent, Visited, Imports, Linked
  <2>4. CompileOnlyAcyclic' /\ LoopReported'
    BY <2>1 DEF CompileOnlyAcyclic, LoopReported, Acyclic, Imports, Compiling
  <2>. QED  BY <2>2, <2>3, <2>4
<1>. QED
  BY <1>1, <1>2, <1>3, <1>4 DEF Next, Recovering, Terminated

(* The invariant of find_loops holds in every reachable state. *)
THEOREM SearchCorrect == Spec => []SearchInv
<1>1. Init => SearchInv
  <2> SUFFICES ASSUME Init PROVE SearchInv
    OBVIOUS
  <2>1. /\ phase = "parse" /\ error = None /\ stack = <<>>
        /\ \A m \in Modules : colors[m] = "UNVISITED"
    BY DEF Init
  <2>2. Visited = {}
    BY <2>1 DEF Visited
  <2>3. NotSearchedInv /\ RootsInv /\ VisitingInv /\ CallsInv
    BY <2>1 DEF NotSearchedInv, RootsInv, VisitingInv, CallsInv
  <2>4. ClosedInv /\ VisitedAcyclicInv
    BY <2>2 DEF ClosedInv, VisitedAcyclicInv
  <2>5. CompileOnlyAcyclic /\ LoopReported
    BY <2>1 DEF CompileOnlyAcyclic, Compiling, LoopReported, None
  <2>. QED  BY <2>3, <2>4, <2>5 DEF SearchInv
<1>2. TypeOK /\ LinksInv /\ SearchInv /\ [Next]_vars => SearchInv'
  BY SearchStep
<1>. QED
  BY <1>1, <1>2, TypeCorrect, LinksCorrect, PTL DEF Spec

(* find_loops is complete: compilation starts only when no set of modules    *)
(* imports itself in a loop and every import names a source file.            *)
THEOREM OnlyAcyclicCompiled == Spec => []CompileOnlyAcyclic
BY SearchCorrect, PTL DEF SearchInv

(* find_loops is sound: what it reports is a chain of imports that closes.   *)
THEOREM LoopsAreReal == Spec => []LoopReported
BY SearchCorrect, PTL DEF SearchInv
=============================================================================
