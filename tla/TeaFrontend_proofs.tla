------------------------- MODULE TeaFrontend_proofs -------------------------
(* Proofs about the driver, for every set of modules and every set of        *)
(* programs.                                                                 *)
EXTENDS TeaFrontendInv, TLAPS

(* The driver's variables keep their types. *)
THEOREM TypeCorrect == Spec => []TypeOK
<1>. USE DEF TypeOK
<1>1. Init => TypeOK
  <2> SUFFICES ASSUME Init PROVE TypeOK
    OBVIOUS
  <2> USE DEF Init
  <2>1. InputsOK
    BY ProjectsAssumption DEF ProjectsAssumption, InputsOK, Importable
  <2>2. ControlOK
    BY DEF ControlOK
  <2>3. ContextsOK
    BY DEF ContextsOK
  <2>4. DiagnosticsOK
    <3>1. annotations \in Seq(Modules) /\ printed \in Seq(Modules)
      OBVIOUS
    <3>2. hasSyntaxErrors \in BOOLEAN
      BY Zenon
    <3>. QED  BY <3>1, <3>2 DEF DiagnosticsOK
  <2>5. SearchOK
    BY DEF SearchOK
  <2>6. ProductsOK
    BY DEF ProductsOK
  <2>. QED  BY <2>1, <2>2, <2>3, <2>4, <2>5, <2>6
<1>2. TypeOK /\ [Next]_vars => TypeOK'
  <2> SUFFICES ASSUME TypeOK, [Next]_vars PROVE TypeOK'
    OBVIOUS
  <2>1. ASSUME NEW m \in Modules, LoadFails(m) PROVE TypeOK'
    <3>1. InputsOK'
      BY <2>1 DEF LoadFails, InputsOK, inputs
    <3>2. ControlOK'
      BY <2>1 DEF LoadFails, ControlOK, Goto, Throw
    <3>3. ContextsOK'
      BY <2>1 DEF LoadFails, ContextsOK, links
    <3>4. DiagnosticsOK'
      BY <2>1 DEF LoadFails, DiagnosticsOK, diagnostics
    <3>5. SearchOK'
      BY <2>1 DEF LoadFails, SearchOK, dfs
    <3>6. ProductsOK'
      BY <2>1 DEF LoadFails, ProductsOK, products
    <3>. QED  BY <3>1, <3>2, <3>3, <3>4, <3>5, <3>6
  <2>2. ASSUME NEW m \in Modules, ParseFails(m) PROVE TypeOK'
    <3>1. InputsOK'
      BY <2>2 DEF ParseFails, InputsOK, inputs
    <3>2. ControlOK'
      BY <2>2 DEF ParseFails, ControlOK, Goto, Throw
    <3>3. ContextsOK'
      BY <2>2 DEF ParseFails, ContextsOK, links
    <3>4. DiagnosticsOK'
      BY <2>2 DEF ParseFails, DiagnosticsOK, diagnostics
    <3>5. SearchOK'
      BY <2>2 DEF ParseFails, SearchOK, dfs
    <3>6. ProductsOK'
      BY <2>2 DEF ParseFails, ProductsOK, products
    <3>. QED  BY <3>1, <3>2, <3>3, <3>4, <3>5, <3>6
  <2>3. ASSUME NEW m \in Modules, ParseSucceeds(m) PROVE TypeOK'
    <3>1. InputsOK'
      BY <2>3 DEF ParseSucceeds, InputsOK, inputs
    <3>2. ControlOK'
      <4>1. CASE hasSyntaxErrors
        BY <2>3, <4>1 DEF ParseSucceeds, ControlOK, Pick
      <4>2. CASE Goto("imports") /\ current' = m
        BY <4>2 DEF ControlOK, Goto
      <4>3. hasSyntaxErrors \/ (Goto("imports") /\ current' = m)
        BY <2>3 DEF ParseSucceeds
      <4>. QED  BY <4>1, <4>2, <4>3
    <3>3. ContextsOK'
      BY <2>3 DEF ParseSucceeds, ContextsOK, links
    <3>4. DiagnosticsOK'
      BY <2>3 DEF ParseSucceeds, DiagnosticsOK, diagnostics
    <3>5. SearchOK'
      BY <2>3 DEF ParseSucceeds, SearchOK, dfs
    <3>6. ProductsOK'
      BY <2>3 DEF ParseSucceeds, ProductsOK, products
    <3>. QED  BY <3>1, <3>2, <3>3, <3>4, <3>5, <3>6
  <2>4. ASSUME NEW name \in Importable, Import(name) PROVE TypeOK'
    <3>1. InputsOK'
      BY <2>4 DEF Import, InputsOK, inputs
    <3>2. ControlOK'
      <4>1. CASE Throw("unknown module")
        BY <2>4, <4>1 DEF Import, ControlOK, Throw
      <4>2. CASE UNCHANGED <<phase, error>> /\ cursor' = cursor + 1
        <5>1. cursor \in Nat
          BY DEF ControlOK
        <5>2. cursor' \in Nat
          BY <4>2, <5>1
        <5>3. current' = current
          BY <2>4 DEF Import
        <5>. QED  BY <4>2, <5>2, <5>3 DEF ControlOK
      <4>3. Throw("unknown module") \/ (UNCHANGED <<phase, error>> /\ cursor' = cursor + 1)
        BY <2>4 DEF Import
      <4>. QED  BY <4>1, <4>2, <4>3
    <3>3. ContextsOK'
      <4>1. current \in Modules
        BY <2>4 DEF Import, ControlOK
      <4>2. CASE name \in Modules
        <5>1. /\ dependencies' = [dependencies EXCEPT ![current] = Append(@, name)]
              /\ dependents' = [dependents EXCEPT ![name] = Append(@, current)]
          BY <4>2, <2>4 DEF Import
        <5>2. /\ dependencies' \in [Modules -> Seq(Modules)]
              /\ dependents' \in [Modules -> Seq(Modules)]
          BY <4>1, <4>2, <5>1 DEF ContextsOK
        <5>3. state' = state
          BY <2>4 DEF Import
        <5>. QED  BY <5>2, <5>3 DEF ContextsOK
      <4>3. CASE name \notin Modules
        BY <2>4, <4>3 DEF Import, ContextsOK, links
      <4>. QED  BY <4>1, <4>2, <4>3
    <3>4. DiagnosticsOK'
      BY <2>4 DEF Import, DiagnosticsOK, diagnostics
    <3>5. SearchOK'
      BY <2>4 DEF Import, SearchOK, dfs
    <3>6. ProductsOK'
      BY <2>4 DEF Import, ProductsOK, products
    <3>. QED  BY <3>1, <3>2, <3>3, <3>4, <3>5, <3>6
  <2>5. CASE ImportsEnd
    <3>1. InputsOK'
      BY <2>5 DEF ImportsEnd, InputsOK, inputs
    <3>2. ControlOK'
      BY <2>5 DEF ImportsEnd, ControlOK, Goto, Throw
    <3>3. ContextsOK'
      BY <2>5 DEF ImportsEnd, ContextsOK, links
    <3>4. DiagnosticsOK'
      BY <2>5 DEF ImportsEnd, DiagnosticsOK, diagnostics
    <3>5. SearchOK'
      BY <2>5 DEF ImportsEnd, SearchOK, dfs
    <3>6. ProductsOK'
      BY <2>5 DEF ImportsEnd, ProductsOK, products
    <3>. QED  BY <3>1, <3>2, <3>3, <3>4, <3>5, <3>6
  <2>6. CASE FilesEnd
    <3>1. InputsOK'
      BY <2>6 DEF FilesEnd, InputsOK, inputs
    <3>2. ControlOK'
      <4>1. CASE Throw("syntax")
        BY <2>6, <4>1 DEF FilesEnd, ControlOK, Throw
      <4>2. CASE Goto("loops")
        BY <4>2 DEF ControlOK, Goto
      <4>3. Throw("syntax") \/ Goto("loops")
        BY <2>6 DEF FilesEnd
      <4>. QED  BY <4>1, <4>2, <4>3
    <3>3. ContextsOK'
      BY <2>6 DEF FilesEnd, ContextsOK, links
    <3>4. DiagnosticsOK'
      BY <2>6 DEF FilesEnd, DiagnosticsOK, diagnostics
    <3>5. SearchOK'
      BY <2>6 DEF FilesEnd, SearchOK, dfs
    <3>6. ProductsOK'
      BY <2>6 DEF FilesEnd, ProductsOK, products
    <3>. QED  BY <3>1, <3>2, <3>3, <3>4, <3>5, <3>6
  <2>7. ASSUME NEW m \in Modules, SearchFrom(m) PROVE TypeOK'
    <3>1. InputsOK'
      BY <2>7 DEF SearchFrom, InputsOK, inputs
    <3>2. ControlOK'
      <4>1. cursor \in Nat
        BY DEF ControlOK
      <4>2. cursor' = cursor + 1
        BY <2>7 DEF SearchFrom
      <4>3. phase' = phase /\ error' = error /\ current' = current
        BY <2>7 DEF SearchFrom
      <4>4. cursor' \in Nat
        BY <4>1, <4>2
      <4>. QED  BY <4>1, <4>2, <4>3, <4>4 DEF ControlOK
    <3>3. ContextsOK'
      BY <2>7 DEF SearchFrom, ContextsOK, links
    <3>4. DiagnosticsOK'
      BY <2>7 DEF SearchFrom, DiagnosticsOK, diagnostics
    <3>5. SearchOK'
      <4>1. CASE colors[m] = "VISITED"
        BY <2>7, <4>1 DEF SearchFrom, SearchOK
      <4>2. [module |-> m, next |-> 1] \in Frames
        BY DEF Frames
      <4>3. CASE colors[m] # "VISITED"
        <5>1. colors' \in [Modules -> {"UNVISITED", "VISITING", "VISITED"}]
          BY <2>7, <4>3 DEF SearchFrom, SearchOK
        <5>2. stack' = <<[module |-> m, next |-> 1]>>
          BY <2>7, <4>3 DEF SearchFrom
        <5>3. stack' \in Seq(Frames)
          BY <4>2, <5>2
        <5>4. loop' = loop
          BY <2>7 DEF SearchFrom
        <5>. QED  BY <5>1, <5>3, <5>4 DEF SearchOK
      <4>. QED  BY <4>1, <4>2, <4>3
    <3>6. ProductsOK'
      BY <2>7 DEF SearchFrom, ProductsOK, products
    <3>. QED  BY <3>1, <3>2, <3>3, <3>4, <3>5, <3>6
  <2>8. ASSUME NEW m \in Modules, VisitChild(m) PROVE TypeOK'
    <3>1. InputsOK'
      BY <2>8 DEF VisitChild, InputsOK, inputs
    <3>2. ControlOK'
      BY <2>8 DEF VisitChild, ControlOK, Goto, Throw
    <3>3. ContextsOK'
      BY <2>8 DEF VisitChild, ContextsOK, links
    <3>4. DiagnosticsOK'
      BY <2>8 DEF VisitChild, DiagnosticsOK, diagnostics
    <3>5. SearchOK'
      <4>1. Len(stack) \in Nat \ {0} /\ \A i \in 1..Len(stack) : stack[i] \in Frames
        BY <2>8 DEF VisitChild, SearchOK
      <4>2. \A f \in Frames : f.module \in Modules /\ f.next \in Nat
        BY DEF Frames
      <4>3. \A i \in 1..Len(stack) : stack[i].module \in Modules
        BY <4>1, <4>2
      <4>4. ReportFrom(m) \in Seq(Modules)
        BY <4>1, <4>3 DEF ReportFrom
      <4>5. [Top EXCEPT !.next = @ + 1] \in Frames
        BY <4>1 DEF Frames, Top
      <4>6. [stack EXCEPT ![Len(stack)].next = @ + 1] \in Seq(Frames)
        BY <4>1, <4>5 DEF SearchOK, Top
      <4>7. [module |-> m, next |-> 1] \in Frames
        BY DEF Frames
      <4>8. CASE loop' = ReportFrom(m) /\ UNCHANGED <<colors, stack>>
        BY <4>4, <4>8 DEF SearchOK
      <4>9. CASE /\ stack' = [stack EXCEPT ![Len(stack)].next = @ + 1]
             /\ UNCHANGED <<colors, loop>>
        BY <4>6, <4>9 DEF SearchOK
      <4>10. CASE /\ colors' = [colors EXCEPT ![m] = "VISITING"]
              /\ stack' = Append([stack EXCEPT ![Len(stack)].next = @ + 1],
                                 [module |-> m, next |-> 1])
              /\ loop' = loop
        BY <4>6, <4>7, <4>10 DEF SearchOK
      <4>. QED
        BY <2>8, <4>8, <4>9, <4>10 DEF VisitChild
    <3>6. ProductsOK'
      BY <2>8 DEF VisitChild, ProductsOK, products
    <3>. QED  BY <3>1, <3>2, <3>3, <3>4, <3>5, <3>6
  <2>9. CASE Leave
    <3>1. InputsOK'
      BY <2>9 DEF Leave, InputsOK, inputs
    <3>2. ControlOK'
      BY <2>9 DEF Leave, ControlOK, Goto, Throw
    <3>3. ContextsOK'
      BY <2>9 DEF Leave, ContextsOK, links
    <3>4. DiagnosticsOK'
      BY <2>9 DEF Leave, DiagnosticsOK, diagnostics
    <3>5. SearchOK'
      <4>1. stack' \in Seq(Frames)
        BY <2>9 DEF Leave, SearchOK
      <4>2. Top \in Frames
        BY <2>9 DEF Leave, Top, SearchOK
      <4>3. Top.module \in Modules
        BY <4>2 DEF Frames
      <4>4. colors' \in [Modules -> {"UNVISITED", "VISITING", "VISITED"}]
        BY <2>9, <4>3 DEF Leave, SearchOK
      <4>5. loop' = loop
        BY <2>9 DEF Leave
      <4>. QED  BY <4>1, <4>2, <4>3, <4>4, <4>5 DEF SearchOK
    <3>6. ProductsOK'
      BY <2>9 DEF Leave, ProductsOK, products
    <3>. QED  BY <3>1, <3>2, <3>3, <3>4, <3>5, <3>6
  <2>10. CASE NoLoop
    <3>1. InputsOK'
      BY <2>10 DEF NoLoop, InputsOK, inputs
    <3>2. ControlOK'
      BY <2>10 DEF NoLoop, ControlOK, Goto, Throw
    <3>3. ContextsOK'
      BY <2>10 DEF NoLoop, ContextsOK, links
    <3>4. DiagnosticsOK'
      BY <2>10 DEF NoLoop, DiagnosticsOK, diagnostics
    <3>5. SearchOK'
      BY <2>10 DEF NoLoop, SearchOK, dfs
    <3>6. ProductsOK'
      BY <2>10 DEF NoLoop, ProductsOK, products
    <3>. QED  BY <3>1, <3>2, <3>3, <3>4, <3>5, <3>6
  <2>11. ASSUME NEW m \in Modules, Seed(m) PROVE TypeOK'
    <3>1. InputsOK'
      BY <2>11 DEF Seed, InputsOK, inputs
    <3>2. ControlOK'
      <4>1. cursor \in Nat
        BY DEF ControlOK
      <4>2. cursor' = cursor + 1
        BY <2>11 DEF Seed
      <4>3. phase' = phase /\ error' = error /\ current' = current
        BY <2>11 DEF Seed
      <4>4. cursor' \in Nat
        BY <4>1, <4>2
      <4>. QED  BY <4>1, <4>2, <4>3, <4>4 DEF ControlOK
    <3>3. ContextsOK'
      BY <2>11 DEF Seed, ContextsOK, links
    <3>4. DiagnosticsOK'
      BY <2>11 DEF Seed, DiagnosticsOK, diagnostics
    <3>5. SearchOK'
      BY <2>11 DEF Seed, SearchOK, dfs
    <3>6. ProductsOK'
      BY <2>11 DEF Seed, ProductsOK, products
    <3>. QED  BY <3>1, <3>2, <3>3, <3>4, <3>5, <3>6
  <2>12. CASE SeedEnd
    <3>1. InputsOK'
      BY <2>12 DEF SeedEnd, InputsOK, inputs
    <3>2. ControlOK'
      BY <2>12 DEF SeedEnd, ControlOK, Goto, Throw
    <3>3. ContextsOK'
      BY <2>12 DEF SeedEnd, ContextsOK, links
    <3>4. DiagnosticsOK'
      BY <2>12 DEF SeedEnd, DiagnosticsOK, diagnostics
    <3>5. SearchOK'
      BY <2>12 DEF SeedEnd, SearchOK, dfs
    <3>6. ProductsOK'
      BY <2>12 DEF SeedEnd, ProductsOK, products
    <3>. QED  BY <3>1, <3>2, <3>3, <3>4, <3>5, <3>6
  <2>13. CASE PutBack
    <3>1. InputsOK'
      BY <2>13 DEF PutBack, InputsOK, inputs
    <3>2. ControlOK'
      BY <2>13 DEF PutBack, ControlOK, Goto, Throw
    <3>3. ContextsOK'
      BY <2>13 DEF PutBack, ContextsOK, links
    <3>4. DiagnosticsOK'
      BY <2>13 DEF PutBack, DiagnosticsOK, diagnostics
    <3>5. SearchOK'
      BY <2>13 DEF PutBack, SearchOK, dfs
    <3>6. ProductsOK'
      BY <2>13 DEF PutBack, ProductsOK, products
    <3>. QED  BY <3>1, <3>2, <3>3, <3>4, <3>5, <3>6
  <2>14. CASE AnalysisFails
    <3>1. InputsOK'
      BY <2>14 DEF AnalysisFails, InputsOK, inputs
    <3>2. ControlOK'
      BY <2>14 DEF AnalysisFails, ControlOK, Goto, Throw
    <3>3. ContextsOK'
      BY <2>14 DEF AnalysisFails, ContextsOK, links
    <3>4. DiagnosticsOK'
      <4>1. Head(queue) \in Modules
        BY <2>14 DEF AnalysisFails, ProductsOK
      <4>2. annotations \in Seq(Modules) /\ printed \in Seq(Modules)
        BY DEF DiagnosticsOK
      <4>3. annotations' = Append(annotations, Head(queue)) \/ UNCHANGED annotations
        BY <2>14 DEF AnalysisFails
      <4>4. annotations' \in Seq(Modules)
        BY <4>1, <4>2, <4>3
      <4>5. printed' \in {printed, printed \o annotations, printed \o annotations'}
        BY <2>14 DEF AnalysisFails
      <4>6. \A s, t \in Seq(Modules) : s \o t \in Seq(Modules)
        OBVIOUS
      <4>8. printed' \in Seq(Modules)
        BY <4>2, <4>4, <4>5, <4>6
      <4>7. hasSyntaxErrors' = hasSyntaxErrors
        BY <2>14 DEF AnalysisFails
      <4>. QED  BY <4>4, <4>7, <4>8 DEF DiagnosticsOK
    <3>5. SearchOK'
      BY <2>14 DEF AnalysisFails, SearchOK, dfs
    <3>6. ProductsOK'
      BY <2>14 DEF AnalysisFails, ProductsOK, products
    <3>. QED  BY <3>1, <3>2, <3>3, <3>4, <3>5, <3>6
  <2>15. CASE Compile
    <3>1. InputsOK'
      BY <2>15 DEF Compile, InputsOK, inputs
    <3>2. ControlOK'
      <4>1. Head(queue) \in Modules
        BY <2>15 DEF Compile, ProductsOK
      <4>2. /\ phase' = "dependents" /\ cursor' = 1
            /\ current' = Head(queue) /\ error' = error
        BY <2>15 DEF Compile, Goto
      <4>. QED  BY <4>1, <4>2 DEF ControlOK
    <3>3. ContextsOK'
      BY <2>15 DEF Compile, ContextsOK, links, ProductsOK
    <3>4. DiagnosticsOK'
      BY <2>15 DEF Compile, DiagnosticsOK, diagnostics
    <3>5. SearchOK'
      BY <2>15 DEF Compile, SearchOK, dfs
    <3>6. ProductsOK'
      BY <2>15 DEF Compile, ProductsOK, products
    <3>. QED  BY <3>1, <3>2, <3>3, <3>4, <3>5, <3>6
  <2>16. ASSUME NEW d \in Modules, Notify(d) PROVE TypeOK'
    <3>1. InputsOK'
      BY <2>16 DEF Notify, InputsOK, inputs
    <3>2. ControlOK'
      <4>1. cursor \in Nat
        BY DEF ControlOK
      <4>2. cursor' = cursor + 1
        BY <2>16 DEF Notify
      <4>3. phase' = phase /\ error' = error /\ current' = current
        BY <2>16 DEF Notify
      <4>4. cursor' \in Nat
        BY <4>1, <4>2
      <4>. QED  BY <4>1, <4>2, <4>3, <4>4 DEF ControlOK
    <3>3. ContextsOK'
      BY <2>16 DEF Notify, ContextsOK, links
    <3>4. DiagnosticsOK'
      BY <2>16 DEF Notify, DiagnosticsOK, diagnostics
    <3>5. SearchOK'
      BY <2>16 DEF Notify, SearchOK, dfs
    <3>6. ProductsOK'
      BY <2>16 DEF Notify, ProductsOK, products
    <3>. QED  BY <3>1, <3>2, <3>3, <3>4, <3>5, <3>6
  <2>17. CASE NotifyEnd
    <3>1. InputsOK'
      BY <2>17 DEF NotifyEnd, InputsOK, inputs
    <3>2. ControlOK'
      BY <2>17 DEF NotifyEnd, ControlOK, Goto, Throw
    <3>3. ContextsOK'
      BY <2>17 DEF NotifyEnd, ContextsOK, links
    <3>4. DiagnosticsOK'
      BY <2>17 DEF NotifyEnd, DiagnosticsOK, diagnostics
    <3>5. SearchOK'
      BY <2>17 DEF NotifyEnd, SearchOK, dfs
    <3>6. ProductsOK'
      BY <2>17 DEF NotifyEnd, ProductsOK, products
    <3>. QED  BY <3>1, <3>2, <3>3, <3>4, <3>5, <3>6
  <2>18. CASE QueueEmpty
    <3>1. InputsOK'
      BY <2>18 DEF QueueEmpty, InputsOK, inputs
    <3>2. ControlOK'
      BY <2>18 DEF QueueEmpty, ControlOK, Goto, Throw
    <3>3. ContextsOK'
      BY <2>18 DEF QueueEmpty, ContextsOK, links
    <3>4. DiagnosticsOK'
      BY <2>18 DEF QueueEmpty, DiagnosticsOK, diagnostics
    <3>5. SearchOK'
      BY <2>18 DEF QueueEmpty, SearchOK, dfs
    <3>6. ProductsOK'
      BY <2>18 DEF QueueEmpty, ProductsOK, products
    <3>. QED  BY <3>1, <3>2, <3>3, <3>4, <3>5, <3>6
  <2>19. CASE Link
    <3>1. InputsOK'
      BY <2>19 DEF Link, InputsOK, inputs
    <3>2. ControlOK'
      BY <2>19 DEF Link, ControlOK, Goto, Throw
    <3>3. ContextsOK'
      BY <2>19 DEF Link, ContextsOK, links
    <3>4. DiagnosticsOK'
      BY <2>19 DEF Link, DiagnosticsOK, diagnostics
    <3>5. SearchOK'
      BY <2>19 DEF Link, SearchOK, dfs
    <3>6. ProductsOK'
      BY <2>19 DEF Link, ProductsOK, products, Range
    <3>. QED  BY <3>1, <3>2, <3>3, <3>4, <3>5, <3>6
  <2>20. CASE LinkFails
    <3>1. InputsOK'
      BY <2>20 DEF LinkFails, InputsOK, inputs
    <3>2. ControlOK'
      BY <2>20 DEF LinkFails, ControlOK, Goto, Throw
    <3>3. ContextsOK'
      BY <2>20 DEF LinkFails, ContextsOK, links
    <3>4. DiagnosticsOK'
      BY <2>20 DEF LinkFails, DiagnosticsOK, diagnostics
    <3>5. SearchOK'
      BY <2>20 DEF LinkFails, SearchOK, dfs
    <3>6. ProductsOK'
      BY <2>20 DEF LinkFails, ProductsOK, products
    <3>. QED  BY <3>1, <3>2, <3>3, <3>4, <3>5, <3>6
  <2>22. ASSUME NEW m \in Modules, PrintFails(m) PROVE TypeOK'
    <3>1. InputsOK'
      BY <2>22 DEF PrintFails, InputsOK, inputs
    <3>2. ControlOK'
      BY <2>22 DEF PrintFails, ControlOK, Throw
    <3>3. ContextsOK'
      BY <2>22 DEF PrintFails, ContextsOK, links
    <3>4. DiagnosticsOK'
      <4>1. annotations \in Seq(Modules) /\ printed \in Seq(Modules)
        BY DEF DiagnosticsOK
      <4>2. annotations' \in Seq(Modules)
        BY <2>22, <4>1 DEF PrintFails
      <4>3. \A s, t \in Seq(Modules) : s \o t \in Seq(Modules)
        OBVIOUS
      <4>4. printed' \in Seq(Modules)
        BY <2>22, <4>1, <4>2, <4>3 DEF PrintFails
      <4>5. hasSyntaxErrors' \in BOOLEAN
        BY <2>22, Zenon DEF PrintFails
      <4>. QED  BY <4>2, <4>4, <4>5 DEF DiagnosticsOK
    <3>5. SearchOK'
      BY <2>22 DEF PrintFails, SearchOK, dfs
    <3>6. ProductsOK'
      BY <2>22 DEF PrintFails, ProductsOK, products
    <3>. QED  BY <3>1, <3>2, <3>3, <3>4, <3>5, <3>6
  <2>23. ASSUME NEW m \in Modules, ParseHangs(m) PROVE TypeOK'
    <3>1. InputsOK'
      BY <2>23 DEF ParseHangs, InputsOK, inputs
    <3>2. ControlOK'
      BY <2>23 DEF ParseHangs, ControlOK, Goto
    <3>3. ContextsOK'
      BY <2>23 DEF ParseHangs, ContextsOK, links
    <3>4. DiagnosticsOK'
      BY <2>23 DEF ParseHangs, DiagnosticsOK, diagnostics
    <3>5. SearchOK'
      BY <2>23 DEF ParseHangs, SearchOK, dfs
    <3>6. ProductsOK'
      BY <2>23 DEF ParseHangs, ProductsOK, products
    <3>. QED  BY <3>1, <3>2, <3>3, <3>4, <3>5, <3>6
  <2>21. CASE UNCHANGED vars
    BY <2>21 DEF vars, inputs, links, diagnostics, dfs, products, InputsOK,
         ControlOK, ContextsOK, DiagnosticsOK, SearchOK, ProductsOK
  <2>. QED
    BY <2>1, <2>2, <2>3, <2>4, <2>5, <2>6, <2>7, <2>8, <2>9, <2>10, <2>11,
       <2>12, <2>13, <2>14, <2>15, <2>16, <2>17, <2>18, <2>19, <2>20, <2>21,
       <2>22, <2>23
       DEF Next, Parsing, Importing, Searching, Seeding, Processing, Linking,
           Recovering, Terminated
<1>. QED
  BY <1>1, <1>2, PTL DEF Spec

-----------------------------------------------------------------------------
(* The links between the modules.                                            *)

(* After build_ast the links, the imports and the parsed flag never change.  *)
LEMMA LaterSteps ==
  ASSUME TypeOK, Searching \/ Seeding \/ Processing \/ Linking
  PROVE  /\ Linked
         /\ phase' \notin {"parse", "recovery", "imports"}
         /\ UNCHANGED <<imports, emitType, dependencies, dependents, hasSyntaxErrors>>
         /\ \A m \in Modules : Parsed(m) => Parsed(m)'
         /\ CursorInv => CursorInv'
<1>. USE DEF Linked, Parsed, CursorInv, inputs, links, diagnostics
<1>1. ASSUME NEW m \in Modules, SearchFrom(m) \/ Seed(m) \/ Notify(m)
      PROVE  /\ phase \in {"loops", "seed", "dependents"} /\ phase' = phase
             /\ UNCHANGED <<inputs, links, state, hasSyntaxErrors>>
             /\ cursor' = cursor + 1
  BY <1>1 DEF SearchFrom, Seed, Notify
<1>2. ASSUME NEW m \in Modules, VisitChild(m)
      PROVE  /\ phase = "loops" /\ phase' \in {"loops", "failed"}
             /\ UNCHANGED <<inputs, links, state, hasSyntaxErrors, cursor>>
  BY <1>2 DEF VisitChild, Throw
<1>3. CASE Leave \/ PutBack
  BY <1>3 DEF Leave, PutBack
<1>4. ASSUME NoLoop \/ SeedEnd \/ NotifyEnd \/ QueueEmpty \/ Link
      PROVE  /\ phase \in {"loops", "seed", "dependents", "queue", "link"}
             /\ phase' \in {"done", "seed", "queue", "link"}
             /\ UNCHANGED <<inputs, links, state, hasSyntaxErrors>>
             /\ cursor' = 1
  BY <1>4 DEF NoLoop, SeedEnd, NotifyEnd, QueueEmpty, Link, Goto
<1>5. ASSUME AnalysisFails \/ LinkFails
      PROVE  /\ phase \in {"queue", "link"} /\ phase' = "failed"
             /\ UNCHANGED <<inputs, links, state, hasSyntaxErrors, cursor>>
  BY <1>5 DEF AnalysisFails, LinkFails, Throw
<1>6. ASSUME Compile
      PROVE  /\ phase = "queue" /\ phase' = "dependents"
             /\ UNCHANGED <<inputs, links, hasSyntaxErrors>>
             /\ Head(queue) \in Modules
             /\ state' = [state EXCEPT ![Head(queue)] = "AFTER_IR_COMPILER"]
             /\ cursor' = 1
  BY <1>6 DEF Compile, Goto, TypeOK, ProductsOK
<1>. QED
  <2>. cursor \in Nat
    BY DEF TypeOK, ControlOK
  <2>1. CASE \E m \in Modules : SearchFrom(m) \/ Seed(m) \/ Notify(m)
    BY <1>1, <2>1
  <2>2. CASE \E m \in Modules : VisitChild(m)
    BY <1>2, <2>2
  <2>3. CASE NoLoop \/ SeedEnd \/ NotifyEnd \/ QueueEmpty \/ Link
    BY <1>4, <2>3
  <2>4. CASE AnalysisFails \/ LinkFails
    BY <1>5, <2>4
  <2>5. CASE Compile
    <3>1. \A m \in Modules : Parsed(m) => Parsed(m)'
      BY <1>6, <2>5 DEF TypeOK, ContextsOK
    <3>. QED  BY <1>6, <2>5, <3>1
  <2>. QED
    BY <1>3, <2>1, <2>2, <2>3, <2>4, <2>5
       DEF Searching, Seeding, Processing, Linking

(* Appending an element adds it to the elements of a sequence. *)
Occurs(s, x) == \E i \in 1..Len(s) : s[i] = x

LEMMA AppendElements ==
  ASSUME NEW S, NEW s \in Seq(S), NEW e \in S, NEW x
  PROVE  Occurs(Append(s, e), x) <=> Occurs(s, x) \/ x = e
<1>1. Len(Append(s, e)) = Len(s) + 1 /\ Append(s, e)[Len(s) + 1] = e
  OBVIOUS
<1>2. \A i \in 1..Len(s) : Append(s, e)[i] = s[i]
  OBVIOUS
<1>3. Len(s) \in Nat
  OBVIOUS
<1>. QED  BY <1>1, <1>2, <1>3 DEF Occurs

LEMMA ConverseKept ==
  ASSUME ConverseInv, UNCHANGED <<dependencies, dependents>>
  PROVE  ConverseInv'
BY DEF ConverseInv, HasDependent, DependsOn

Later == Searching \/ Seeding \/ Processing \/ Linking

(* The invariant of the links, action by action. *)
LEMMA LinksStep ==
  ASSUME TypeOK, LinksInv, [Next]_vars
  PROVE  LinksInv'
<1>. USE DEF LinksInv
<1>0. cursor \in Nat
  BY DEF TypeOK, ControlOK
(* A step that gives up, or comes after build_ast, disturbs none of the parts. *)
<1>1. ASSUME UNCHANGED <<imports, dependencies, dependents, hasSyntaxErrors>>,
             \A m \in Modules : Parsed(m) => Parsed(m)',
             phase' \notin {"parse", "recovery", "imports"},
             phase' = "failed" \/ Linked,
             CursorInv'
      PROVE  LinksInv'
  <2>1. ConverseInv'
    BY <1>1, ConverseKept
  <2>2. UntouchedInv'
    BY <1>1 DEF UntouchedInv
  <2>3. ImportingInv'
    BY <1>1 DEF ImportingInv
  <2>4. LinkedInv'
    BY <1>1 DEF LinkedInv, Linked
  <2>5. SettledInv'
    <3>1. SUFFICES ASSUME phase' # "failed" PROVE SettledInv'
      BY DEF SettledInv
    <3>2. Linked /\ ~hasSyntaxErrors /\ \A m \in Modules : Parsed(m)
      BY <1>1, <3>1 DEF LinkedInv
    <3>3. \A m \in Modules :
            /\ Imports(m) \subseteq Modules
            /\ \A n \in Modules : DependsOn(m, n) <=> n \in Imports(m)
      BY <3>2 DEF SettledInv, Linked
    <3>. QED  BY <1>1, <3>3 DEF SettledInv, Imports, DependsOn
  <2>. QED  BY <1>1, <2>1, <2>2, <2>3, <2>4, <2>5
<1>2. CASE Later
  <2>. QED  BY <1>1, <1>2, LaterSteps DEF Later
<1>3. ASSUME NEW m \in Modules, LoadFails(m) PROVE LinksInv'
  BY <1>1, <1>3 DEF LoadFails, Throw, Pick, inputs, links, diagnostics, CursorInv, Parsed
<1>4. ASSUME NEW m \in Modules, ParseFails(m) PROVE LinksInv'
  <2>1. /\ phase = "parse" /\ phase' = "parse" /\ cursor' = cursor
        /\ UNCHANGED <<imports, dependencies, dependents>>
        /\ \A n \in Modules : Parsed(n) => Parsed(n)'
    BY <1>4 DEF ParseFails, Pick, inputs, links, Parsed, TypeOK, ContextsOK
  <2>2. hasSyntaxErrors'
    BY <1>4 DEF ParseFails
  <2>3. CursorInv'
    BY <2>1 DEF CursorInv
  <2>4. ConverseInv'
    BY <2>1, ConverseKept
  <2>5. UntouchedInv'
    BY <2>1 DEF UntouchedInv
  <2>6. ImportingInv' /\ LinkedInv'
    BY <2>1 DEF ImportingInv, LinkedInv, Linked
  <2>7. SettledInv'
    BY <2>2 DEF SettledInv
  <2>. QED  BY <2>3, <2>4, <2>5, <2>6, <2>7
<1>10. ASSUME NEW m \in Modules, PrintFails(m) PROVE LinksInv'
  <2>1. /\ phase' = "failed" /\ cursor' = cursor /\ hasSyntaxErrors'
        /\ UNCHANGED <<imports, dependencies, dependents, state>>
    BY <1>10 DEF PrintFails, Throw, inputs, links
  <2>2. CursorInv' /\ UntouchedInv' /\ ImportingInv' /\ LinkedInv' /\ SettledInv'
    BY <2>1 DEF CursorInv, UntouchedInv, Parsed, ImportingInv, LinkedInv, Linked,
                SettledInv
  <2>3. ConverseInv'
    BY <2>1, ConverseKept
  <2>. QED  BY <2>2, <2>3
<1>11. ASSUME NEW m \in Modules, ParseHangs(m) PROVE LinksInv'
  <2>1. /\ phase = "parse" /\ phase' = "recovery" /\ cursor' = 1
        /\ UNCHANGED <<imports, dependencies, dependents, state>>
        /\ hasSyntaxErrors' = hasSyntaxErrors
    BY <1>11 DEF ParseHangs, Pick, Goto, inputs, links, diagnostics
  <2>2. CursorInv' /\ UntouchedInv' /\ ImportingInv' /\ LinkedInv'
    BY <2>1 DEF CursorInv, UntouchedInv, Parsed, ImportingInv, LinkedInv, Linked
  <2>3. SettledInv'
    BY <2>1 DEF SettledInv, Parsed, Imports, DependsOn
  <2>4. ConverseInv'
    BY <2>1, ConverseKept
  <2>. QED  BY <2>2, <2>3, <2>4
<1>5. ASSUME NEW m \in Modules, ParseSucceeds(m) PROVE LinksInv'
  <2>1. /\ phase = "parse" /\ ~Parsed(m) /\ Parsed(m)'
        /\ UNCHANGED <<imports, dependencies, dependents>>
        /\ \A n \in Modules : Parsed(n) => Parsed(n)'
        /\ \A n \in Modules : n # m => (Parsed(n)' <=> Parsed(n))
    BY <1>5 DEF ParseSucceeds, Pick, inputs, links, Parsed, TypeOK, ContextsOK
  <2>2. hasSyntaxErrors' = hasSyntaxErrors
    BY <1>5 DEF ParseSucceeds, diagnostics
  <2>3. \/ hasSyntaxErrors /\ phase' = phase /\ cursor' = cursor
        \/ ~hasSyntaxErrors /\ phase' = "imports" /\ cursor' = 1 /\ current' = m
    BY <1>5 DEF ParseSucceeds, Goto
  <2>4. CursorInv'
    BY <2>3 DEF CursorInv
  <2>5. ConverseInv'
    BY <2>1, ConverseKept
  <2>6. UntouchedInv'
    BY <2>1 DEF UntouchedInv
  <2>7. dependencies[m] = <<>>
    BY <2>1 DEF UntouchedInv
  <2>8. LinkedInv'
    BY <2>1, <2>3 DEF LinkedInv, Linked
  <2>9. ImportingInv'
    <3>1. SUFFICES ASSUME phase' = "imports"
                   PROVE  /\ Parsed(current)' /\ ~hasSyntaxErrors'
                          /\ \A i \in 1..Len(imports'[current']) : ~(i < cursor')
                          /\ \A n \in Modules : ~DependsOn(current, n)'
      BY DEF ImportingInv
    <3>2. ~hasSyntaxErrors' /\ cursor' = 1 /\ current' = m
      BY <2>1, <2>2, <2>3, <3>1
    <3>3. \A n \in Modules : ~DependsOn(current, n)'
      BY <2>1, <2>7, <3>2 DEF DependsOn
    <3>4. Parsed(current)'
      BY <2>1, <3>2 DEF Parsed
    <3>5. \A i \in 1..Len(imports'[current']) : ~(i < cursor')
      BY <2>1, <3>2 DEF TypeOK, InputsOK
    <3>. QED  BY <3>2, <3>3, <3>4, <3>5
  <2>10. SettledInv'
    <3>1. SUFFICES ASSUME ~hasSyntaxErrors', NEW n \in Modules, Parsed(n)',
                          ~(phase' = "imports" /\ current' = n)
                   PROVE  /\ Imports(n)' \subseteq Modules
                          /\ \A k \in Modules : DependsOn(n, k)' <=> k \in Imports(n)'
      BY DEF SettledInv
    <3>2. n # m /\ ~hasSyntaxErrors
      BY <2>2, <2>3, <3>1
    <3>3. /\ Imports(n) \subseteq Modules
          /\ \A k \in Modules : DependsOn(n, k) <=> k \in Imports(n)
      BY <2>1, <3>1, <3>2 DEF SettledInv
    <3>. QED  BY <2>1, <3>3 DEF Imports, DependsOn
  <2>. QED  BY <2>4, <2>5, <2>6, <2>8, <2>9, <2>10
<1>6. ASSUME NEW name \in Importable, Import(name) PROVE LinksInv'
  <2>1. CASE name \notin Modules
    BY <1>1, <1>6, <2>1
       DEF Import, Throw, inputs, links, diagnostics, CursorInv, Parsed
  <2>2. CASE name \in Modules
    <3>1. /\ phase = "imports" /\ phase' = "imports" /\ cursor' = cursor + 1
          /\ current' = current /\ current \in Modules
          /\ cursor <= Len(imports[current]) /\ name = imports[current][cursor]
          /\ imports' = imports /\ state' = state
      BY <1>6, <2>2 DEF Import, inputs, TypeOK, ControlOK
    <3>2. hasSyntaxErrors' = hasSyntaxErrors
      BY <1>6 DEF Import, diagnostics
    <3>3. /\ dependencies' = [dependencies EXCEPT ![current] = Append(@, name)]
          /\ dependents' = [dependents EXCEPT ![name] = Append(@, current)]
      BY <1>6, <2>2 DEF Import
    <3>4. \A m, n \in Modules :
            DependsOn(m, n)' <=> DependsOn(m, n) \/ (m = current /\ n = name)
      <4>1. \A m \in Modules : m # current => dependencies'[m] = dependencies[m]
        BY <3>3 DEF TypeOK, ContextsOK
      <4>2. /\ dependencies'[current] = Append(dependencies[current], name)
            /\ dependencies[current] \in Seq(Modules)
        BY <3>1, <3>3 DEF TypeOK, ContextsOK
      <4>3. \A n \in Modules :
              DependsOn(current, n)' <=> DependsOn(current, n) \/ n = name
        <5>1. SUFFICES ASSUME NEW n \in Modules
                       PROVE  DependsOn(current, n)' <=> DependsOn(current, n) \/ n = name
          OBVIOUS
        <5>2. Occurs(Append(dependencies[current], name), n)
                <=> Occurs(dependencies[current], n) \/ n = name
          BY <2>2, <4>2, AppendElements
        <5>. QED  BY <3>1, <4>2, <5>2 DEF DependsOn, Occurs
      <4>. QED  BY <3>1, <4>1, <4>3 DEF DependsOn
    <3>5. \A m, n \in Modules :
            HasDependent(n, m)' <=> HasDependent(n, m) \/ (n = name /\ m = current)
      <4>1. \A n \in Modules : n # name => dependents'[n] = dependents[n]
        BY <3>3 DEF TypeOK, ContextsOK
      <4>2. /\ dependents'[name] = Append(dependents[name], current)
            /\ dependents[name] \in Seq(Modules)
        BY <2>2, <3>3 DEF TypeOK, ContextsOK
      <4>3. \A m \in Modules :
              HasDependent(name, m)' <=> HasDependent(name, m) \/ m = current
        <5>1. SUFFICES ASSUME NEW m \in Modules
                       PROVE  HasDependent(name, m)' <=> HasDependent(name, m) \/ m = current
          OBVIOUS
        <5>2. Occurs(Append(dependents[name], current), m)
                <=> Occurs(dependents[name], m) \/ m = current
          BY <3>1, <4>2, AppendElements
        <5>. QED  BY <4>2, <5>2 DEF HasDependent, Occurs
      <4>. QED  BY <4>1, <4>3 DEF HasDependent
    <3>6. ConverseInv'
      BY <3>4, <3>5 DEF ConverseInv
    <3>7. CursorInv'
      BY <1>0, <3>1 DEF CursorInv
    <3>8. UntouchedInv'
      BY <3>1, <3>3 DEF UntouchedInv, ImportingInv, Parsed, TypeOK, ContextsOK
    <3>9. LinkedInv'
      BY <3>1 DEF LinkedInv, Linked
    <3>10. ImportingInv'
      <4>1. Parsed(current)' /\ ~hasSyntaxErrors'
        BY <3>1, <3>2 DEF ImportingInv, Parsed
      <4>2. \A i \in 1..Len(imports[current]) :
              i < cursor + 1 <=> i < cursor \/ i = cursor
        BY <1>0
      <4>3. cursor \in 1..Len(imports[current])
        BY <1>0, <3>1 DEF CursorInv, TypeOK, InputsOK
      <4>4. \A i \in 1..Len(imports[current]) :
              i < cursor + 1 => imports[current][i] \in Modules
        BY <2>2, <3>1, <4>2 DEF ImportingInv
      <4>5. \A n \in Modules :
              DependsOn(current, n)' <=>
                \E i \in 1..Len(imports[current]) :
                  i < cursor + 1 /\ imports[current][i] = n
        <5>1. \A n \in Modules :
                DependsOn(current, n) <=>
                  \E i \in 1..Len(imports[current]) :
                    i < cursor /\ imports[current][i] = n
          BY <3>1 DEF ImportingInv
        <5>2. \A n \in Modules : DependsOn(current, n)' <=> DependsOn(current, n) \/ n = name
          BY <3>1, <3>4 DEF DependsOn
        <5>. QED  BY <3>1, <4>2, <4>3, <5>1, <5>2
      <4>. QED  BY <3>1, <4>1, <4>4, <4>5 DEF ImportingInv, DependsOn
    <3>11. SettledInv'
      <4>1. SUFFICES ASSUME NEW m \in Modules, Parsed(m)', m # current
                     PROVE  /\ Imports(m)' \subseteq Modules
                            /\ \A n \in Modules : DependsOn(m, n)' <=> n \in Imports(m)'
        BY <3>1 DEF SettledInv
      <4>2. ~hasSyntaxErrors
        BY <3>1 DEF ImportingInv
      <4>3. /\ Imports(m) \subseteq Modules
            /\ \A n \in Modules : DependsOn(m, n) <=> n \in Imports(m)
        BY <3>1, <4>1, <4>2 DEF SettledInv, Parsed
      <4>. QED  BY <3>1, <3>4, <4>1, <4>3 DEF Imports
    <3>. QED  BY <3>6, <3>7, <3>8, <3>9, <3>10, <3>11
  <2>. QED  BY <2>1, <2>2
<1>7. CASE ImportsEnd
  <2>1. /\ phase = "imports" /\ phase' = "parse" /\ cursor' = 1
        /\ cursor > Len(imports[current]) /\ current \in Modules
        /\ UNCHANGED <<imports, state, dependencies, dependents, current>>
    BY <1>7 DEF ImportsEnd, Goto, inputs, links, TypeOK, ControlOK
  <2>2. hasSyntaxErrors' = hasSyntaxErrors
    BY <1>7 DEF ImportsEnd, diagnostics
  <2>3. CursorInv' /\ LinkedInv' /\ ImportingInv'
    BY <2>1 DEF CursorInv, LinkedInv, Linked, ImportingInv
  <2>4. ConverseInv'
    BY <2>1, ConverseKept
  <2>5. UntouchedInv'
    BY <2>1 DEF UntouchedInv, Parsed
  <2>6. /\ Imports(current) \subseteq Modules
        /\ \A n \in Modules : DependsOn(current, n) <=> n \in Imports(current)
    <3>1. imports[current] \in Seq(Importable)
      BY <2>1 DEF TypeOK, InputsOK
    <3>2. \A i \in 1..Len(imports[current]) : i < cursor
      BY <1>0, <2>1, <3>1
    <3>. QED  BY <2>1, <3>1, <3>2 DEF ImportingInv, Imports, Range
  <2>7. SettledInv'
    <3>1. SUFFICES ASSUME NEW m \in Modules, Parsed(m)
                   PROVE  /\ Imports(m) \subseteq Modules
                          /\ \A n \in Modules : DependsOn(m, n) <=> n \in Imports(m)
      BY <2>1 DEF SettledInv, Imports, DependsOn, Parsed
    <3>2. ~hasSyntaxErrors
      BY <2>1 DEF ImportingInv
    <3>. QED  BY <2>1, <2>6, <3>1, <3>2 DEF SettledInv
  <2>. QED  BY <2>3, <2>4, <2>5, <2>7
<1>8. CASE FilesEnd
  <2>1. /\ phase = "parse" /\ \A m \in Modules : Parsed(m)
        /\ UNCHANGED <<imports, state, dependencies, dependents>>
    BY <1>8 DEF FilesEnd, inputs, links, Parsed
  <2>2. hasSyntaxErrors' = hasSyntaxErrors
    BY <1>8 DEF FilesEnd, diagnostics
  <2>3. \/ phase' = "failed" /\ cursor' = cursor
        \/ ~hasSyntaxErrors /\ phase' = "loops" /\ cursor' = 1
    BY <1>8 DEF FilesEnd, Throw, Goto
  <2>4. CursorInv' /\ ImportingInv'
    BY <2>3 DEF CursorInv, ImportingInv
  <2>5. LinkedInv'
    BY <2>1, <2>2, <2>3 DEF LinkedInv, Linked, Parsed
  <2>6. ConverseInv'
    BY <2>1, ConverseKept
  <2>7. UntouchedInv'
    BY <2>1 DEF UntouchedInv, Parsed
  <2>8. SettledInv'
    <3>1. SUFFICES ASSUME phase' # "failed", NEW m \in Modules
                   PROVE  /\ Imports(m) \subseteq Modules
                          /\ \A n \in Modules : DependsOn(m, n) <=> n \in Imports(m)
      BY <2>1 DEF SettledInv, Imports, DependsOn
    <3>2. ~hasSyntaxErrors
      BY <2>3, <3>1
    <3>. QED  BY <2>1, <3>2 DEF SettledInv
  <2>. QED  BY <2>4, <2>5, <2>6, <2>7, <2>8
<1>9. CASE UNCHANGED vars
  <2>1. UNCHANGED <<imports, dependencies, dependents, state, phase, cursor, current>>
    BY <1>9 DEF vars, inputs, links
  <2>2. hasSyntaxErrors' = hasSyntaxErrors
    BY <1>9 DEF vars, diagnostics
  <2>3. CursorInv' /\ UntouchedInv'
    BY <2>1 DEF CursorInv, UntouchedInv, Parsed
  <2>4. ConverseInv'
    BY <2>1, ConverseKept
  <2>5. LinkedInv' /\ SettledInv'
    BY <2>1, <2>2 DEF LinkedInv, Linked, SettledInv, Parsed, Imports, DependsOn
  <2>6. ImportingInv'
    BY <2>1, <2>2 DEF ImportingInv, Parsed, DependsOn
  <2>. QED  BY <2>3, <2>4, <2>5, <2>6
<1>. QED
  BY <1>2, <1>3, <1>4, <1>5, <1>6, <1>7, <1>8, <1>9, <1>10, <1>11
     DEF Later, Next, Parsing, Importing, Recovering, Terminated

(* The links built by build_ast are the imports of the sources. *)
THEOREM LinksCorrect == Spec => []LinksInv
<1>1. Init => LinksInv
  <2> SUFFICES ASSUME Init PROVE LinksInv
    OBVIOUS
  <2>1. /\ phase = "parse" /\ cursor = 1
        /\ \A m \in Modules : ~Parsed(m) /\ dependencies[m] = <<>> /\ dependents[m] = <<>>
    BY DEF Init, Parsed
  <2>2. ConverseInv
    BY <2>1 DEF ConverseInv, HasDependent, DependsOn
  <2>3. CursorInv /\ UntouchedInv /\ ImportingInv /\ SettledInv /\ LinkedInv
    BY <2>1 DEF CursorInv, UntouchedInv, ImportingInv, SettledInv, LinkedInv, Linked
  <2>. QED  BY <2>2, <2>3 DEF LinksInv
<1>2. TypeOK /\ LinksInv /\ [Next]_vars => LinksInv'
  BY LinksStep
<1>. QED
  BY <1>1, <1>2, TypeCorrect, PTL DEF Spec
=============================================================================
