----------------------- MODULE TeaFrontendWork_proofs -----------------------
(* The work queue compiles every module after its imports and forgets none;  *)
(* the driver implements ModuleBuild; every syntax error is reported; and a  *)
(* program in which no module imports more than one other is compiled        *)
(* without compiling a module twice.                                         *)
EXTENDS TeaFrontendSearch_proofs

LEMMA RangeAppend ==
  ASSUME NEW S, NEW s \in Seq(S), NEW e \in S
  PROVE  Range(Append(s, e)) = Range(s) \cup {e}
<1>1. Append(s, e) \in Seq(S) /\ Len(Append(s, e)) = Len(s) + 1 /\ Len(s) \in Nat
  OBVIOUS
<1>2. /\ \A i \in 1..Len(s) : Append(s, e)[i] = s[i]
      /\ Append(s, e)[Len(s) + 1] = e
  OBVIOUS
<1>3. DOMAIN s = 1..Len(s) /\ DOMAIN Append(s, e) = 1..(Len(s) + 1)
  BY <1>1
<1>4. 1..(Len(s) + 1) = 1..Len(s) \cup {Len(s) + 1}
  BY <1>1
<1>. QED  BY <1>2, <1>3, <1>4 DEF Range

LEMMA RangeHeadTail ==
  ASSUME NEW S, NEW s \in Seq(S), s # <<>>
  PROVE  /\ Head(s) \in S /\ Tail(s) \in Seq(S)
         /\ Range(s) = {Head(s)} \cup Range(Tail(s))
<1>1. /\ Head(s) \in S /\ Tail(s) \in Seq(S) /\ Head(s) = s[1]
      /\ Len(Tail(s)) = Len(s) - 1 /\ Len(s) \in Nat /\ Len(s) >= 1
  OBVIOUS
<1>2. \A i \in 1..(Len(s) - 1) : Tail(s)[i] = s[i + 1]
  OBVIOUS
<1>3. DOMAIN s = 1..Len(s) /\ DOMAIN Tail(s) = 1..(Len(s) - 1)
  BY <1>1
<1>4. Range(s) \subseteq {Head(s)} \cup Range(Tail(s))
  <2>1. SUFFICES ASSUME NEW i \in 1..Len(s), i # 1
                 PROVE  s[i] \in Range(Tail(s))
    BY <1>1, <1>3 DEF Range
  <2>2. i - 1 \in 1..(Len(s) - 1) /\ (i - 1) + 1 = i
    BY <1>1, <2>1
  <2>. QED  BY <1>2, <1>3, <2>2 DEF Range
<1>5. Range(Tail(s)) \subseteq Range(s)
  <2>1. \A i \in 1..(Len(s) - 1) : i + 1 \in 1..Len(s)
    BY <1>1
  <2>. QED  BY <1>2, <1>3, <2>1 DEF Range
<1>6. Head(s) \in Range(s)
  BY <1>1, <1>3 DEF Range
<1>. QED  BY <1>1, <1>4, <1>5, <1>6

LEMMA ProcessedImports ==
  ASSUME LinksInv, TypeOK, Linked, NEW m \in Modules
  PROVE  Processed(m) <=> Imports(m) \subseteq Compiled
<1>1. \A n \in Modules : DependsOn(m, n) <=> n \in Imports(m)
  BY LinkedEdges DEF LinksInv, ConverseInv
<1>2. Imports(m) \subseteq Modules
  BY LinkedEdges
<1>3. \A i \in 1..Len(dependencies[m]) : dependencies[m][i] \in Modules
  BY DEF TypeOK, ContextsOK
<1>. QED  BY <1>1, <1>2, <1>3 DEF Processed, DependsOn

LEMMA OrderKept ==
  ASSUME DependenciesFirst, UNCHANGED <<imports, llvmModules>>
  PROVE  DependenciesFirst'
BY DEF DependenciesFirst, Imports

(* What the steps before the queue is seeded leave alone. *)
LEMMA BeforeFrame ==
  ASSUME TypeOK, Parsing \/ Importing \/ Searching
  PROVE  /\ phase \in {"parse", "imports", "loops"}
         /\ phase' \in {"parse", "recovery", "imports", "loops", "seed", "done", "failed"}
         /\ phase' = "seed" => emitType = "IR" /\ cursor' = 1
         /\ phase' = "done" => emitType = "AST"
         /\ UNCHANGED <<imports, emitType, queue, llvmModules, program>>
         /\ \A m \in Modules : m \in Compiled' => m \in Compiled
<1>. USE DEF inputs, products, Compiled
<1>1. ASSUME NEW m \in Modules,
             \/ LoadFails(m) \/ ParseFails(m) \/ PrintFails(m)
             \/ ParseHangs(m) \/ ParseSucceeds(m)
      PROVE  /\ phase = "parse" /\ phase' \in {"parse", "recovery", "imports", "failed"}
             /\ UNCHANGED <<inputs, products>>
             /\ state' \in {state, [state EXCEPT ![m] = "AFTER_PARSER"]}
  BY <1>1 DEF LoadFails, ParseFails, PrintFails, ParseHangs, ParseSucceeds, Pick,
              Throw, Goto
<1>2. ASSUME NEW name \in Importable, Import(name)
      PROVE  /\ phase = "imports" /\ phase' \in {"imports", "failed"}
             /\ UNCHANGED <<inputs, products, state>>
  BY <1>2 DEF Import, Throw
<1>3. ASSUME ImportsEnd \/ FilesEnd
      PROVE  /\ phase \in {"parse", "imports"} /\ phase' \in {"parse", "loops", "failed"}
             /\ UNCHANGED <<inputs, products, state>>
  BY <1>3 DEF ImportsEnd, FilesEnd, Throw, Goto
<1>4. ASSUME NEW m \in Modules, SearchFrom(m) \/ VisitChild(m) \/ Leave
      PROVE  /\ phase = "loops" /\ phase' \in {"loops", "failed"}
             /\ UNCHANGED <<inputs, products, state>>
  BY <1>4 DEF SearchFrom, VisitChild, Leave, Throw
<1>5. ASSUME Leave
      PROVE  /\ phase = "loops" /\ phase' \in {"loops", "failed"}
             /\ UNCHANGED <<inputs, products, state>>
  BY <1>5 DEF Leave
<1>6. ASSUME NoLoop
      PROVE  /\ phase = "loops" /\ cursor' = 1
             /\ phase' = IF emitType = "AST" THEN "done" ELSE "seed"
             /\ UNCHANGED <<inputs, products, state>>
  BY <1>6 DEF NoLoop, Goto
<1>7. CASE Parsing
  BY <1>1, <1>7 DEF Parsing, TypeOK, ContextsOK
<1>8. CASE Importing
  BY <1>2, <1>3, <1>8 DEF Importing
<1>9. CASE NoLoop
  BY <1>6, <1>9 DEF TypeOK, InputsOK
<1>10. CASE Searching /\ ~NoLoop
  BY <1>4, <1>5, <1>10 DEF Searching
<1>. QED  BY <1>7, <1>8, <1>9, <1>10

(* Until the queue is seeded nothing is compiled. *)
LEMMA BeforeWork ==
  ASSUME TypeOK, WorkInv, Parsing \/ Importing \/ Searching
  PROVE  WorkInv'
<1>. USE DEF WorkInv
<1>1. /\ phase \in {"parse", "imports", "loops"}
      /\ phase' \in {"parse", "recovery", "imports", "loops", "seed", "done", "failed"}
      /\ phase' = "seed" => emitType = "IR" /\ cursor' = 1
      /\ phase' = "done" => emitType = "AST"
      /\ UNCHANGED <<imports, emitType, queue, llvmModules, program>>
      /\ \A m \in Modules : m \in Compiled' => m \in Compiled
  BY BeforeFrame
<1>2. Compiled = {} /\ Compiled' = {}
  BY <1>1 DEF NotCompiledInv, Compiled
<1>3. NotCompiledInv'
  BY <1>2 DEF NotCompiledInv
<1>4. CompiledInv'
  <2>1. \A m \in Modules : ~(\E i \in 1..Len(llvmModules) : llvmModules[i] = m)
    BY <1>1, <1>2 DEF CompiledInv
  <2>. QED  BY <1>1, <1>2, <2>1 DEF CompiledInv
<1>5. SeedInv'
  <2>1. \A i \in 1..Len(Names) : ~(i < 1)
    BY NamesAssumption DEF NamesAssumption
  <2>. QED  BY <1>1, <2>1 DEF SeedInv
<1>6. NotifyInv' /\ WorkIsQueued'
  BY <1>1 DEF NotifyInv, WorkIsQueued
<1>7. FinishedInv'
  <2>1. Compiling' => emitType' = "IR"
    BY <1>1 DEF Compiling
  <2>. QED  BY <1>1, <1>2, <2>1 DEF FinishedInv
<1>8. DependenciesFirst'
  BY <1>1, OrderKept
<1>9. OutputComplete'
  BY <1>1 DEF OutputComplete
<1>. QED  BY <1>3, <1>4, <1>5, <1>6, <1>7, <1>8, <1>9

(* A step that compiles nothing keeps what is known of the compiled modules. *)
LEMMA SameModules ==
  ASSUME WorkInv, UNCHANGED <<imports, state, llvmModules>>,
         phase \notin {"done", "failed"}
  PROVE  Compiled' = Compiled /\ CompiledInv' /\ DependenciesFirst'
<1>1. Compiled' = Compiled
  BY DEF Compiled
<1>2. DependenciesFirst'
  BY OrderKept DEF WorkInv
<1>3. CompiledInv'
  BY <1>1 DEF WorkInv, CompiledInv
<1>. QED  BY <1>1, <1>2, <1>3

(* Processed only looks at the dependencies and at what is compiled. *)
LEMMA ProcessedKept ==
  ASSUME dependencies' = dependencies, Compiled' = Compiled, NEW m \in Modules
  PROVE  Processed(m)' <=> Processed(m)
BY DEF Processed

LEMMA SeedStep ==
  ASSUME TypeOK, LinksInv, WorkInv, NEW m \in Modules, Seed(m)
  PROVE  WorkInv'
<1>1. /\ phase = "seed" /\ phase' = "seed" /\ cursor <= Len(Names) /\ m = Names[cursor]
      /\ cursor' = cursor + 1
      /\ queue' = IF dependencies[m] = <<>> THEN Append(queue, m) ELSE queue
      /\ UNCHANGED <<imports, emitType, state, dependencies, llvmModules, program>>
  BY DEF Seed, inputs, links
<1>2. Compiled' = Compiled /\ CompiledInv' /\ DependenciesFirst'
  BY <1>1, SameModules
<1>3. NotCompiledInv' /\ NotifyInv' /\ WorkIsQueued' /\ OutputComplete'
  BY <1>1, <1>2 DEF WorkInv, NotCompiledInv, NotifyInv, WorkIsQueued, OutputComplete
<1>4. FinishedInv'
  BY <1>1 DEF WorkInv, FinishedInv, Compiling
<1>5. SeedInv'
  <2>1. Range(queue') = IF dependencies[m] = <<>> THEN Range(queue) \cup {m} ELSE Range(queue)
    <3>1. queue \in Seq(Modules)
      BY DEF TypeOK, ProductsOK
    <3>2. Range(Append(queue, m)) = Range(queue) \cup {m}
      BY <3>1, RangeAppend
    <3>. QED  BY <1>1, <3>2
  <2>2. \A i \in 1..Len(Names) : i < cursor' => i < cursor \/ i = cursor
    <3>1. cursor \in Nat
      BY DEF TypeOK, ControlOK
    <3>. QED  BY <1>1, <3>1
  <2>3. \A i \in 1..Len(Names) :
          i < cursor /\ dependencies[Names[i]] = <<>> => Names[i] \in Range(queue)
    BY <1>1 DEF WorkInv, SeedInv
  <2>. QED  BY <1>1, <2>1, <2>2, <2>3 DEF SeedInv
<1>. QED  BY <1>2, <1>3, <1>4, <1>5 DEF WorkInv

(* Nothing is compiled yet: the modules whose dependencies are compiled are  *)
(* those without any, and all of them were queued.                           *)
LEMMA SeedEndStep ==
  ASSUME TypeOK, LinksInv, WorkInv, SeedEnd
  PROVE  WorkInv'
<1>1. /\ phase = "seed" /\ phase' = "queue" /\ cursor > Len(Names)
      /\ UNCHANGED <<imports, emitType, state, dependencies, queue, llvmModules, program>>
  BY DEF SeedEnd, Goto, inputs, links, products
<1>2. Compiled' = Compiled /\ CompiledInv' /\ DependenciesFirst'
  BY <1>1, SameModules
<1>3. NotCompiledInv' /\ SeedInv' /\ NotifyInv' /\ OutputComplete'
  BY <1>1 DEF NotCompiledInv, SeedInv, NotifyInv, OutputComplete
<1>4. FinishedInv'
  BY <1>1 DEF WorkInv, FinishedInv, Compiling
<1>5. WorkIsQueued'
  <2>1. SUFFICES ASSUME NEW m \in Modules, Processed(m)
                 PROVE  m \in Range(queue)
    BY <1>1, <1>2, ProcessedKept DEF WorkIsQueued
  <2>2. Compiled = {}
    BY <1>1 DEF WorkInv, NotCompiledInv
  <2>3. dependencies[m] = <<>>
    <3>1. dependencies[m] \in Seq(Modules)
      BY DEF TypeOK, ContextsOK
    <3>. QED  BY <2>1, <2>2, <3>1 DEF Processed
  <2>4. PICK i \in 1..Len(Names) : Names[i] = m
    BY NamesAssumption DEF NamesAssumption
  <2>5. i < cursor
    <3>1. Len(Names) \in Nat
      BY NamesAssumption DEF NamesAssumption
    <3>2. cursor \in Nat
      BY DEF TypeOK, ControlOK
    <3>. QED  BY <1>1, <3>1, <3>2
  <2>. QED  BY <1>1, <2>3, <2>4, <2>5 DEF WorkInv, SeedInv
<1>. QED  BY <1>2, <1>3, <1>4, <1>5 DEF WorkInv

LEMMA PutBackStep ==
  ASSUME TypeOK, WorkInv, PutBack
  PROVE  WorkInv'
<1>1. /\ phase = "queue" /\ phase' = "queue" /\ queue # <<>>
      /\ queue' = Append(Tail(queue), Head(queue))
      /\ UNCHANGED <<imports, emitType, state, dependencies, llvmModules, program>>
  BY DEF PutBack, inputs, links
<1>2. Compiled' = Compiled /\ CompiledInv' /\ DependenciesFirst'
  BY <1>1, SameModules
<1>3. NotCompiledInv' /\ SeedInv' /\ NotifyInv' /\ OutputComplete'
  BY <1>1 DEF NotCompiledInv, SeedInv, NotifyInv, OutputComplete
<1>4. FinishedInv'
  BY <1>1 DEF WorkInv, FinishedInv, Compiling
<1>5. Range(queue') = Range(queue)
  <2>1. queue \in Seq(Modules)
    BY DEF TypeOK, ProductsOK
  <2>. DEFINE h == Head(queue)
              rest == Tail(queue)
  <2>2. h \in Modules /\ rest \in Seq(Modules) /\ Range(queue) = {h} \cup Range(rest)
    BY <1>1, <2>1, RangeHeadTail
  <2>3. queue' = Append(rest, h)
    BY <1>1
  <2>. HIDE DEF h, rest
  <2>4. Range(Append(rest, h)) = Range(rest) \cup {h}
    BY <2>2, RangeAppend
  <2>. QED  BY <2>2, <2>3, <2>4
<1>6. WorkIsQueued'
  BY <1>1, <1>2, <1>5, ProcessedKept DEF WorkInv, WorkIsQueued
<1>. QED  BY <1>2, <1>3, <1>4, <1>6 DEF WorkInv

LEMMA GiveUpStep ==
  ASSUME TypeOK, WorkInv, AnalysisFails \/ LinkFails
  PROVE  WorkInv'
<1>1. /\ phase \in {"queue", "link"} /\ phase' = "failed"
      /\ UNCHANGED <<imports, state, llvmModules>>
  BY DEF AnalysisFails, LinkFails, Throw, inputs, products
<1>2. DependenciesFirst'
  BY <1>1, SameModules
<1>3. NotCompiledInv' /\ CompiledInv' /\ SeedInv' /\ NotifyInv' /\ WorkIsQueued'
  BY <1>1 DEF NotCompiledInv, CompiledInv, SeedInv, NotifyInv, WorkIsQueued
<1>4. FinishedInv' /\ OutputComplete'
  BY <1>1 DEF FinishedInv, OutputComplete, Compiling
<1>. QED  BY <1>2, <1>3, <1>4 DEF WorkInv

LEMMA NotifyStep ==
  ASSUME TypeOK, LinksInv, WorkInv, NEW d \in Modules, Notify(d)
  PROVE  WorkInv'
<1>1. /\ phase = "dependents" /\ phase' = "dependents" /\ cursor <= Len(dependents[current])
      /\ d = dependents[current][cursor] /\ cursor' = cursor + 1
      /\ queue' = IF d \in Compiled THEN queue ELSE Append(queue, d)
      /\ UNCHANGED <<imports, emitType, state, dependencies, dependents, current,
                     llvmModules, program>>
  BY DEF Notify, inputs, links
<1>2. Compiled' = Compiled /\ CompiledInv' /\ DependenciesFirst'
  BY <1>1, SameModules
<1>3. NotCompiledInv' /\ SeedInv' /\ WorkIsQueued' /\ OutputComplete'
  BY <1>1 DEF NotCompiledInv, SeedInv, WorkIsQueued, OutputComplete
<1>4. FinishedInv'
  BY <1>1 DEF WorkInv, FinishedInv, Compiling
<1>5. NotifyInv'
  <2>1. Range(queue') = IF d \in Compiled THEN Range(queue) ELSE Range(queue) \cup {d}
    <3>1. queue \in Seq(Modules)
      BY DEF TypeOK, ProductsOK
    <3>2. Range(Append(queue, d)) = Range(queue) \cup {d}
      BY <3>1, RangeAppend
    <3>. QED  BY <1>1, <3>2
  <2>2. \A k \in 1..Len(dependents[current]) : cursor <= k => k = cursor \/ cursor + 1 <= k
    <3>1. cursor \in Nat
      BY DEF TypeOK, ControlOK
    <3>. QED  BY <3>1
  <2>3. SUFFICES ASSUME NEW m \in Modules, Processed(m)
                 PROVE  \/ m \in Compiled \cup Range(queue')
                        \/ \E k \in 1..Len(dependents[current]) :
                             cursor + 1 <= k /\ dependents[current][k] = m
    BY <1>1, <1>2, ProcessedKept DEF NotifyInv
  <2>4. \/ m \in Compiled \cup Range(queue)
        \/ \E k \in 1..Len(dependents[current]) :
             cursor <= k /\ dependents[current][k] = m
    BY <1>1, <2>3 DEF WorkInv, NotifyInv
  <2>. QED  BY <1>1, <2>1, <2>2, <2>4
<1>. QED  BY <1>2, <1>3, <1>4, <1>5 DEF WorkInv

LEMMA NotifyEndStep ==
  ASSUME TypeOK, WorkInv, NotifyEnd
  PROVE  WorkInv'
<1>1. /\ phase = "dependents" /\ phase' = "queue" /\ cursor > Len(dependents[current])
      /\ current \in Modules
      /\ UNCHANGED <<imports, emitType, state, dependencies, queue, llvmModules, program>>
  BY DEF NotifyEnd, Goto, inputs, links, products, TypeOK, ControlOK
<1>2. Compiled' = Compiled /\ CompiledInv' /\ DependenciesFirst'
  BY <1>1, SameModules
<1>3. NotCompiledInv' /\ SeedInv' /\ NotifyInv' /\ OutputComplete'
  BY <1>1 DEF NotCompiledInv, SeedInv, NotifyInv, OutputComplete
<1>4. FinishedInv'
  BY <1>1 DEF WorkInv, FinishedInv, Compiling
<1>5. WorkIsQueued'
  <2>1. \A k \in 1..Len(dependents[current]) : ~(cursor <= k)
    <3>1. cursor \in Nat
      BY DEF TypeOK, ControlOK
    <3>2. dependents[current] \in Seq(Modules)
      BY <1>1 DEF TypeOK, ContextsOK
    <3>. QED  BY <1>1, <3>1, <3>2
  <2>2. \A m \in Modules : Processed(m) => m \in Compiled \cup Range(queue)
    BY <1>1, <2>1 DEF WorkInv, NotifyInv
  <2>. QED  BY <1>1, <1>2, <2>2, ProcessedKept DEF WorkIsQueued
<1>. QED  BY <1>2, <1>3, <1>4, <1>5 DEF WorkInv

(* The module at the head is compiled: its imports were emitted before it,   *)
(* and the modules it makes ready are among its dependents.                  *)
LEMMA CompileStep ==
  ASSUME TypeOK, LinksInv, WorkInv, Compile
  PROVE  WorkInv' /\ Compiled' = Compiled \cup {Head(queue)}
<1>. DEFINE h == Head(queue)
<1>1. /\ phase = "queue" /\ phase' = "dependents" /\ queue # <<>> /\ Processed(h)
      /\ queue' = Tail(queue) /\ llvmModules' = Append(llvmModules, h)
      /\ state' = [state EXCEPT ![h] = "AFTER_IR_COMPILER"]
      /\ current' = h /\ cursor' = 1
      /\ UNCHANGED <<imports, emitType, dependencies, dependents, program>>
  BY DEF Compile, Goto, inputs, links
<1>2. h \in Modules /\ Range(queue) = {h} \cup Range(queue')
  BY <1>1, RangeHeadTail DEF TypeOK, ProductsOK
<1>. HIDE DEF h
<1>3. Compiled' = Compiled \cup {h}
  BY <1>1, <1>2 DEF Compiled, TypeOK, ContextsOK
<1>4. /\ Len(llvmModules') = Len(llvmModules) + 1 /\ Len(llvmModules) \in Nat
      /\ \A i \in 1..Len(llvmModules) : llvmModules'[i] = llvmModules[i]
      /\ llvmModules'[Len(llvmModules) + 1] = h
  <2>1. llvmModules \in Seq(Modules)
    BY DEF TypeOK, ProductsOK
  <2>. QED  BY <1>1, <1>2, <2>1
<1>5. \A i \in 1..(Len(llvmModules) + 1) : i \in 1..Len(llvmModules) \/ i = Len(llvmModules) + 1
  BY <1>4
<1>6. /\ 1..Len(llvmModules) \subseteq 1..(Len(llvmModules) + 1)
      /\ Len(llvmModules) + 1 \in 1..(Len(llvmModules) + 1)
  BY <1>4
<1>7. \A m \in Modules : m \in Compiled <=> \E i \in 1..Len(llvmModules) : llvmModules[i] = m
  BY <1>1 DEF WorkInv, CompiledInv
<1>8. CompiledInv'
  BY <1>3, <1>4, <1>5, <1>6, <1>7 DEF CompiledInv
<1>9. Imports(h) \subseteq Compiled /\ Imports(h) \subseteq Modules
  BY <1>1, <1>2, ProcessedImports, LinkedEdges DEF Linked
<1>10. DependenciesFirst'
  <2>1. SUFFICES ASSUME NEW i \in 1..(Len(llvmModules) + 1), NEW n \in Imports(llvmModules'[i])
                 PROVE  \E j \in 1..(i - 1) : llvmModules'[j] = n
    BY <1>1, <1>4 DEF DependenciesFirst, Imports
  <2>2. CASE i \in 1..Len(llvmModules)
    <3>1. PICK j \in 1..(i - 1) : llvmModules[j] = n
      BY <1>4, <2>1, <2>2 DEF WorkInv, DependenciesFirst
    <3>2. j \in 1..Len(llvmModules)
      BY <1>4, <2>2
    <3>. QED  BY <1>4, <3>1, <3>2
  <2>3. CASE i = Len(llvmModules) + 1
    <3>1. n \in Compiled /\ n \in Modules
      BY <1>4, <1>9, <2>1, <2>3
    <3>2. PICK j \in 1..Len(llvmModules) : llvmModules[j] = n
      BY <1>7, <3>1
    <3>3. j \in 1..(i - 1)
      BY <1>4, <2>3
    <3>. QED  BY <1>4, <3>2, <3>3
  <2>. QED  BY <1>5, <2>2, <2>3
<1>11. NotifyInv'
  <2>1. SUFFICES ASSUME NEW m \in Modules, Processed(m)'
                 PROVE  \/ m \in Compiled' \cup Range(queue')
                        \/ \E k \in 1..Len(dependents[h]) : 1 <= k /\ dependents[h][k] = m
    BY <1>1 DEF NotifyInv
  <2>2. CASE Processed(m)
    <3>1. m \in Compiled \cup Range(queue)
      BY <1>1, <2>2 DEF WorkInv, WorkIsQueued
    <3>. QED  BY <1>2, <1>3, <3>1
  <2>3. CASE ~Processed(m)
    <3>1. DependsOn(m, h)
      BY <1>1, <1>3, <2>1, <2>3 DEF Processed, DependsOn
    <3>2. HasDependent(h, m)
      BY <1>2, <3>1 DEF LinksInv, ConverseInv
    <3>. QED  BY <3>2 DEF HasDependent
  <2>. QED  BY <2>2, <2>3
<1>12. NotCompiledInv' /\ SeedInv' /\ WorkIsQueued' /\ OutputComplete'
  BY <1>1 DEF NotCompiledInv, SeedInv, WorkIsQueued, OutputComplete
<1>13. FinishedInv'
  BY <1>1 DEF WorkInv, FinishedInv, Compiling
<1>. QED  BY <1>3, <1>8, <1>10, <1>11, <1>12, <1>13 DEF WorkInv, h

(* The queue runs empty only when every module is compiled: among those that *)
(* are not, one would import none of the others and would be in the queue.   *)
LEMMA QueueEmptyStep ==
  ASSUME TypeOK, LinksInv, SearchInv, WorkInv, QueueEmpty
  PROVE  WorkInv'
<1>1. /\ phase = "queue" /\ phase' = "link" /\ queue = <<>>
      /\ UNCHANGED <<imports, emitType, state, llvmModules, program>>
  BY DEF QueueEmpty, Goto, inputs, products
<1>2. Compiled' = Compiled /\ CompiledInv' /\ DependenciesFirst'
  BY <1>1, SameModules
<1>3. Compiled = Modules
  <2>. DEFINE rest == Modules \ Compiled
  <2>1. Compiled \subseteq Modules
    BY DEF Compiled
  <2>2. SUFFICES ASSUME rest # {} PROVE FALSE
    BY <2>1
  <2>3. PICK m \in rest : Imports(m) \cap rest = {}
    BY <1>1, <2>2 DEF SearchInv, CompileOnlyAcyclic, Acyclic, Compiling
  <2>4. Imports(m) \subseteq Modules
    BY <1>1, <2>3, LinkedEdges DEF Linked
  <2>5. Processed(m)
    BY <1>1, <2>3, <2>4, ProcessedImports DEF Linked
  <2>6. m \in Range(queue)
    BY <1>1, <2>3, <2>5 DEF WorkInv, WorkIsQueued
  <2>7. Range(queue) = {}
    BY <1>1 DEF Range
  <2>. QED  BY <2>6, <2>7
<1>4. NotCompiledInv' /\ SeedInv' /\ NotifyInv' /\ WorkIsQueued' /\ OutputComplete'
  BY <1>1 DEF NotCompiledInv, SeedInv, NotifyInv, WorkIsQueued, OutputComplete
<1>5. FinishedInv'
  BY <1>1, <1>2, <1>3 DEF WorkInv, FinishedInv, Compiling
<1>. QED  BY <1>2, <1>4, <1>5 DEF WorkInv

LEMMA LinkStep ==
  ASSUME TypeOK, WorkInv, Link
  PROVE  WorkInv'
<1>1. /\ phase = "link" /\ phase' = "done" /\ program' = Range(llvmModules)
      /\ llvmModules' = <<>>
      /\ UNCHANGED <<imports, emitType, state>>
  BY DEF Link, Goto, inputs
<1>2. emitType = "IR" /\ Compiled = Modules /\ Compiled' = Compiled
  BY <1>1 DEF WorkInv, FinishedInv, Compiling, Compiled
<1>3. program' = Modules
  <2>1. \A m \in Modules : \E i \in 1..Len(llvmModules) : llvmModules[i] = m
    BY <1>1, <1>2 DEF WorkInv, CompiledInv
  <2>2. llvmModules \in Seq(Modules)
    BY DEF TypeOK, ProductsOK
  <2>. QED  BY <1>1, <2>1, <2>2 DEF Range
<1>4. FinishedInv' /\ OutputComplete'
  BY <1>1, <1>2, <1>3 DEF FinishedInv, OutputComplete, Compiling
<1>5. DependenciesFirst'
  <2>1. Len(llvmModules') = 0
    BY <1>1
  <2>. QED  BY <2>1 DEF DependenciesFirst
<1>6. NotCompiledInv' /\ CompiledInv' /\ SeedInv' /\ NotifyInv' /\ WorkIsQueued'
  BY <1>1 DEF NotCompiledInv, CompiledInv, SeedInv, NotifyInv, WorkIsQueued
<1>. QED  BY <1>4, <1>5, <1>6 DEF WorkInv

LEMMA WorkStep ==
  ASSUME TypeOK, LinksInv, SearchInv, WorkInv, [Next]_vars
  PROVE  WorkInv'
<1>1. CASE UNCHANGED vars
  <2>1. UNCHANGED <<imports, emitType, phase, cursor, current, state, dependencies,
                    dependents, queue, llvmModules, program>>
    BY <1>1 DEF vars, inputs, links, products
  <2>. USE DEF WorkInv
  <2>2. Compiled' = Compiled
    BY <2>1 DEF Compiled
  <2>3. \A m \in Modules : Processed(m)' <=> Processed(m)
    BY <2>1, <2>2, ProcessedKept
  <2>4. DependenciesFirst'
    BY <2>1, OrderKept
  <2>5. NotCompiledInv' /\ CompiledInv' /\ SeedInv'
    BY <2>1, <2>2 DEF NotCompiledInv, CompiledInv, SeedInv
  <2>6. NotifyInv' /\ WorkIsQueued'
    BY <2>1, <2>2, <2>3 DEF NotifyInv, WorkIsQueued
  <2>7. FinishedInv' /\ OutputComplete'
    BY <2>1, <2>2 DEF FinishedInv, OutputComplete, Compiling
  <2>. QED  BY <2>4, <2>5, <2>6, <2>7
<1>2. CASE Seeding \/ Processing \/ Linking
  BY <1>2, SeedStep, SeedEndStep, PutBackStep, GiveUpStep, CompileStep, NotifyStep,
     NotifyEndStep, QueueEmptyStep, LinkStep
     DEF Seeding, Processing, Linking
<1>. QED
  BY <1>1, <1>2, BeforeWork DEF Next, Recovering, Terminated

(* The invariant of the work loop holds in every reachable state. *)
THEOREM WorkCorrect == Spec => []WorkInv
<1>1. Init => WorkInv
  <2> SUFFICES ASSUME Init PROVE WorkInv
    OBVIOUS
  <2>1. /\ phase = "parse" /\ queue = <<>> /\ llvmModules = <<>> /\ Compiled = {}
    BY DEF Init, Compiled
  <2>2. CompiledInv /\ DependenciesFirst
    BY <2>1 DEF CompiledInv, DependenciesFirst
  <2>3. NotCompiledInv /\ SeedInv /\ NotifyInv /\ WorkIsQueued
    BY <2>1 DEF NotCompiledInv, SeedInv, NotifyInv, WorkIsQueued
  <2>4. FinishedInv /\ OutputComplete
    BY <2>1 DEF FinishedInv, OutputComplete, Compiling
  <2>. QED  BY <2>2, <2>3, <2>4 DEF WorkInv
<1>2. TypeOK /\ LinksInv /\ SearchInv /\ WorkInv /\ [Next]_vars => WorkInv'
  BY WorkStep
<1>. QED
  BY <1>1, <1>2, TypeCorrect, LinksCorrect, SearchCorrect, PTL DEF Spec

(* Every emitted module comes after everything it imports. *)
THEOREM ImportsEmittedFirst == Spec => []DependenciesFirst
BY WorkCorrect, PTL DEF WorkInv

(* A module ready to be compiled is never lost from the queue. *)
THEOREM NoModuleForgotten == Spec => []WorkIsQueued
BY WorkCorrect, PTL DEF WorkInv

(* A successful build with IR output has linked every module. *)
THEOREM SuccessIsComplete == Spec => []OutputComplete
BY WorkCorrect, PTL DEF WorkInv

-----------------------------------------------------------------------------
(* Refinement: every step of the driver is a step of ModuleBuild or one that *)
(* ModuleBuild does not see.                                                 *)

(* The steps that compile nothing and end nothing, or that end in failure. *)
LEMMA HiddenStep ==
  ASSUME TypeOK, imports' = imports, Compiled' = Compiled,
         phase \notin {"done", "failed"}, phase' # "done"
  PROVE  [Build!Next]_(Build!vars)
<1>1. CASE phase' = "failed"
  <2>1. ShownVerdict = "building" /\ ShownVerdict' = "error"
    BY <1>1 DEF ShownVerdict
  <2>. QED  BY <2>1 DEF Build!Next, Build!GiveUp, ShownVerdict
<1>2. CASE phase' # "failed"
  <2>1. ShownVerdict = "building" /\ ShownVerdict' = "building"
    BY <1>2 DEF ShownVerdict
  <2>. QED  BY <2>1 DEF Build!vars, ShownVerdict
<1>. QED  BY <1>1, <1>2

LEMMA CompileShown ==
  ASSUME TypeOK, LinksInv, WorkInv, Compile
  PROVE  [Build!Next]_(Build!vars)
<1>. DEFINE h == Head(queue)
<1>1. /\ phase = "queue" /\ phase' = "dependents" /\ queue # <<>> /\ Processed(h)
      /\ imports' = imports
  BY DEF Compile, Goto, inputs
<1>2. h \in Modules
  BY <1>1, RangeHeadTail DEF TypeOK, ProductsOK
<1>3. Compiled' = Compiled \cup {h}
  BY CompileStep
<1>. HIDE DEF h
<1>4. ShownVerdict = "building" /\ ShownVerdict' = "building"
  BY <1>1 DEF ShownVerdict
<1>5. Range(imports[h]) \subseteq Compiled
  BY <1>1, <1>2, ProcessedImports DEF Linked, Imports
<1>6. CASE h \in Compiled
  <2>1. Compiled' = Compiled
    BY <1>3, <1>6
  <2>. QED  BY <1>1, <1>4, <2>1 DEF Build!vars, ShownVerdict
<1>7. CASE h \notin Compiled
  <2>1. h \notin Compiled /\ Build!Range(imports[h]) \subseteq Compiled
    BY <1>5, <1>7 DEF Range, Build!Range
  <2>2. /\ Compiled' = Compiled \cup {h} /\ imports' = imports
        /\ ShownVerdict = "building" /\ ShownVerdict' = ShownVerdict
    BY <1>1, <1>3, <1>4
  <2>3. Build!Build(h)
    BY <2>1, <2>2 DEF Build!Build, ShownVerdict
  <2>. QED  BY <1>2, <2>3 DEF Build!Next
<1>. QED  BY <1>6, <1>7

(* The two ways to succeed: the trees are printed, or everything is linked. *)
LEMMA EndShown ==
  ASSUME TypeOK, WorkInv, NoLoop \/ Link, phase' = "done"
  PROVE  [Build!Next]_(Build!vars)
<1>1. /\ phase \in {"loops", "link"} /\ UNCHANGED <<imports, emitType, state>>
      /\ phase = "loops" => emitType = "AST"
  BY DEF NoLoop, Link, Goto, inputs
<1>2. Compiled' = Compiled
  BY <1>1 DEF Compiled
<1>3. /\ ShownVerdict = "building"
      /\ ShownVerdict' = IF emitType = "AST" THEN "trees" ELSE "program"
  BY <1>1 DEF ShownVerdict
<1>4. CASE phase = "loops"
  <2>1. Compiled = {}
    BY <1>4 DEF WorkInv, NotCompiledInv
  <2>. QED  BY <1>1, <1>2, <1>3, <1>4, <2>1 DEF Build!Next, Build!EmitTrees, ShownVerdict
<1>5. CASE phase = "link"
  <2>1. Compiled = Modules /\ emitType = "IR"
    BY <1>5 DEF WorkInv, FinishedInv, Compiling
  <2>. QED  BY <1>1, <1>2, <1>3, <2>1 DEF Build!Next, Build!Emit, ShownVerdict
<1>. QED  BY <1>1, <1>4, <1>5

(* What each action leaves alone, as far as ModuleBuild can see. *)
LEMMA StepShape ==
  ASSUME TypeOK, WorkInv, Next
  PROVE  \/ UNCHANGED vars
         \/ Compile
         \/ (NoLoop \/ Link) /\ phase' = "done"
         \/ /\ UNCHANGED imports /\ Compiled' = Compiled
            /\ phase \notin {"done", "failed"} /\ phase' # "done"
<1>. USE DEF inputs, products, Compiled
<1>1. ASSUME NEW m \in Modules,
             \/ LoadFails(m) \/ ParseFails(m) \/ PrintFails(m)
             \/ ParseHangs(m) \/ ParseSucceeds(m)
      PROVE  /\ phase = "parse" /\ phase' \in {"parse", "recovery", "imports", "failed"}
             /\ imports' = imports
             /\ state' \in {state, [state EXCEPT ![m] = "AFTER_PARSER"]}
  BY <1>1 DEF LoadFails, ParseFails, PrintFails, ParseHangs, ParseSucceeds, Pick,
              Throw, Goto
<1>2. ASSUME Parsing
      PROVE  /\ phase = "parse" /\ phase' \in {"parse", "recovery", "imports", "failed"}
             /\ imports' = imports /\ Compiled' \subseteq Compiled
  BY <1>1, <1>2 DEF Parsing, TypeOK, ContextsOK
<1>3. CASE Parsing
  <2>1. Compiled = {}
    BY <1>2, <1>3 DEF WorkInv, NotCompiledInv
  <2>. QED  BY <1>2, <1>3, <2>1
<1>4. CASE Importing
  BY <1>4 DEF Importing, Import, ImportsEnd, FilesEnd, Throw, Goto
<1>5. CASE Searching
  BY <1>5 DEF Searching, SearchFrom, VisitChild, Leave, NoLoop, Throw, Goto
<1>6. CASE Seeding
  BY <1>6 DEF Seeding, Seed, SeedEnd, Goto
<1>7. CASE Processing
  BY <1>7 DEF Processing, PutBack, AnalysisFails, Notify, NotifyEnd, QueueEmpty, Throw, Goto
<1>8. CASE Linking
  BY <1>8 DEF Linking, Link, LinkFails, Throw, Goto
<1>. QED  BY <1>3, <1>4, <1>5, <1>6, <1>7, <1>8 DEF Next, Recovering, Terminated

LEMMA BuildStep ==
  ASSUME TypeOK, LinksInv, WorkInv, [Next]_vars
  PROVE  [Build!Next]_(Build!vars)
<1>1. CASE UNCHANGED vars
  BY <1>1 DEF vars, inputs, Build!vars, Compiled, ShownVerdict
<1>2. CASE ~UNCHANGED vars
  BY <1>2, StepShape, CompileShown, EndShown, HiddenStep
<1>. QED  BY <1>1, <1>2

(* The driver implements ModuleBuild: modules are built only on top of what  *)
(* they import, success means everything was built, and failure is final.    *)
THEOREM DriverImplementsBuild == Spec => BuildSpec
<1>1. Init => Build!Init
  <2>. SUFFICES ASSUME Init PROVE Build!Init
    OBVIOUS
  <2>1. imports \in Projects /\ phase = "parse" /\ Compiled = {}
    BY DEF Init, Compiled
  <2>2. ShownVerdict = "building"
    BY <2>1 DEF ShownVerdict
  <2>. QED  BY <2>1, <2>2 DEF Build!Init, ShownVerdict
<1>2. TypeOK /\ LinksInv /\ WorkInv /\ [Next]_vars => [Build!Next]_(Build!vars)
  BY BuildStep
<1>. QED
  BY <1>1, <1>2, TypeCorrect, LinksCorrect, WorkCorrect, PTL
     DEF Spec, BuildSpec, Build!Spec

-----------------------------------------------------------------------------
(* Syntax errors.                                                            *)

LEMMA RangeConcat ==
  ASSUME NEW S, NEW s \in Seq(S), NEW t \in Seq(S)
  PROVE  Range(s \o t) = Range(s) \cup Range(t)
<1>1. /\ Len(s \o t) = Len(s) + Len(t) /\ Len(s) \in Nat /\ Len(t) \in Nat
      /\ DOMAIN s = 1..Len(s) /\ DOMAIN t = 1..Len(t)
      /\ DOMAIN (s \o t) = 1..(Len(s) + Len(t))
  OBVIOUS
<1>2. /\ \A i \in 1..Len(s) : (s \o t)[i] = s[i]
      /\ \A i \in 1..Len(t) : (s \o t)[Len(s) + i] = t[i]
  OBVIOUS
<1>3. \A i \in 1..(Len(s) + Len(t)) :
        i \in 1..Len(s) \/ \E k \in 1..Len(t) : i = Len(s) + k
  <2>1. SUFFICES ASSUME NEW i \in 1..(Len(s) + Len(t)), i \notin 1..Len(s)
                 PROVE  \E k \in 1..Len(t) : i = Len(s) + k
    OBVIOUS
  <2>2. i - Len(s) \in 1..Len(t) /\ i = Len(s) + (i - Len(s))
    BY <1>1, <2>1
  <2>. QED  BY <2>2
<1>4. /\ 1..Len(s) \subseteq 1..(Len(s) + Len(t))
      /\ \A k \in 1..Len(t) : Len(s) + k \in 1..(Len(s) + Len(t))
  BY <1>1
<1>5. Range(s \o t) \subseteq Range(s) \cup Range(t)
  <2>1. SUFFICES ASSUME NEW i \in 1..(Len(s) + Len(t))
                 PROVE  (s \o t)[i] \in Range(s) \cup Range(t)
    BY <1>1 DEF Range
  <2>2. CASE i \in 1..Len(s)
    BY <1>1, <1>2, <2>2 DEF Range
  <2>3. CASE \E k \in 1..Len(t) : i = Len(s) + k
    BY <1>1, <1>2, <2>3 DEF Range
  <2>. QED  BY <1>3, <2>2, <2>3
<1>6. Range(s) \subseteq Range(s \o t)
  BY <1>1, <1>2, <1>4 DEF Range
<1>7. Range(t) \subseteq Range(s \o t)
  BY <1>1, <1>2, <1>4 DEF Range
<1>. QED  BY <1>5, <1>6, <1>7

(* One more bad file: it is annotated, and print_annotations shows it.       *)
LEMMA ParseFailsReports ==
  ASSUME TypeOK, ReportInv, NEW m \in Modules, ParseFails(m)
  PROVE  ReportInv'
<1>1. /\ phase = "parse" /\ phase' = "parse" /\ error' = error
      /\ m \in malformed /\ ~Parsed(m) /\ malformed' = malformed
      /\ state' = [state EXCEPT ![m] = "AFTER_PARSER"]
      /\ hasSyntaxErrors' = TRUE
      /\ annotations' = Append(annotations, m)
      /\ printed' = printed \o annotations'
  BY DEF ParseFails, Pick, Parsed, inputs
<1>2. annotations \in Seq(Modules) /\ printed \in Seq(Modules) /\ annotations' \in Seq(Modules)
  BY <1>1 DEF TypeOK, DiagnosticsOK
<1>3. Range(annotations') = Range(annotations) \cup {m}
  BY <1>1, <1>2, RangeAppend
<1>4. Range(printed') = Range(printed) \cup Range(annotations')
  <2>1. ASSUME NEW t \in Seq(Modules) PROVE Range(printed \o t) = Range(printed) \cup Range(t)
    BY <1>2, RangeConcat
  <2>2. Range(printed \o annotations') = Range(printed) \cup Range(annotations')
    BY <1>2, <2>1, Zenon
  <2>. QED  BY <1>1, <2>2, Zenon
<1>5. \A x \in Modules : Parsed(x)' <=> Parsed(x) \/ x = m
  BY <1>1 DEF Parsed, TypeOK, ContextsOK
<1>6. malformed \subseteq Modules
  BY DEF TypeOK, InputsOK
<1>7. /\ Range(annotations) = {x \in malformed : Parsed(x)}
      /\ Range(printed) = Range(annotations)
  BY <1>1 DEF ReportInv, AnnotatedInv
<1>8. {x \in malformed : Parsed(x)}' = {x \in malformed : Parsed(x)} \cup {m}
  BY <1>1, <1>5, <1>6
<1>9. annotations' # <<>>
  <2>1. annotations \in Seq(Modules) /\ annotations' = Append(annotations, m)
    BY <1>1, <1>2
  <2>2. Len(annotations') = Len(annotations) + 1 /\ Len(annotations) \in Nat
    BY <2>1
  <2>. QED  BY <2>2
<1>10. AnnotatedInv'
  BY <1>1, <1>3, <1>4, <1>7, <1>8, <1>9 DEF AnnotatedInv
<1>11. error' = None
  BY <1>1 DEF ReportInv
<1>12. WellFormedInv'
  BY <1>1, <1>11 DEF WellFormedInv, Linked, None
<1>13. SyntaxErrorsReported'
  BY <1>1, <1>3, <1>4, <1>7, <1>8 DEF SyntaxErrorsReported, Parsed
<1>. QED  BY <1>1, <1>10, <1>11, <1>12, <1>13 DEF ReportInv

(* print_annotations gives up at the last file: the earlier ones are shown.  *)
LEMMA PrintFailsReports ==
  ASSUME TypeOK, ReportInv, NEW m \in Modules, PrintFails(m)
  PROVE  ReportInv'
<1>1. /\ phase' = "failed" /\ error' = "annotations"
      /\ malformed' = malformed /\ state' = state
      /\ annotations' = Append(annotations, m)
      /\ printed' \in {printed \o annotations, printed \o annotations'}
  BY DEF PrintFails, Throw, inputs
<1>2. annotations \in Seq(Modules) /\ printed \in Seq(Modules) /\ annotations' \in Seq(Modules)
  BY <1>1 DEF TypeOK, DiagnosticsOK
<1>3. \A t \in Seq(Modules) : Range(printed \o t) = Range(printed) \cup Range(t)
  BY <1>2, RangeConcat
<1>4. Range(printed) \subseteq Range(printed')
  <2>1. CASE printed' = printed \o annotations
    BY <1>2, <1>3, <2>1
  <2>2. CASE printed' = printed \o annotations'
    BY <1>2, <1>3, <2>2
  <2>. QED  BY <1>1, <2>1, <2>2
<1>5. SyntaxErrorsReported'
  BY <1>1, <1>4 DEF SyntaxErrorsReported, ReportInv
<1>. QED  BY <1>1, <1>5 DEF ReportInv, AnnotatedInv, WellFormedInv, Linked

(* A file without syntax errors leaves the reports alone. *)
LEMMA ParseSucceedsReports ==
  ASSUME TypeOK, ReportInv, NEW m \in Modules, ParseSucceeds(m)
  PROVE  ReportInv'
<1>1. /\ phase = "parse" /\ phase' \in {"parse", "imports"} /\ error' = error
      /\ m \notin malformed /\ malformed' = malformed
      /\ state' = [state EXCEPT ![m] = "AFTER_PARSER"]
      /\ hasSyntaxErrors' = hasSyntaxErrors
      /\ annotations' = annotations /\ printed' = printed
  BY DEF ParseSucceeds, Pick, Goto, inputs, diagnostics
<1>2. \A x \in Modules : x # m => (Parsed(x)' <=> Parsed(x))
  BY <1>1 DEF Parsed, TypeOK, ContextsOK
<1>3. malformed \subseteq Modules
  BY DEF TypeOK, InputsOK
<1>4. {x \in malformed : Parsed(x)}' = {x \in malformed : Parsed(x)}
  BY <1>1, <1>2, <1>3
<1>5. AnnotatedInv'
  BY <1>1, <1>4 DEF ReportInv, AnnotatedInv
<1>6. error' = None
  BY <1>1 DEF ReportInv
<1>7. WellFormedInv'
  BY <1>1, <1>6 DEF WellFormedInv, Linked, None
<1>8. SyntaxErrorsReported'
  BY <1>1, <1>2, <1>3 DEF SyntaxErrorsReported, ReportInv, Parsed
<1>. QED  BY <1>1, <1>5, <1>6, <1>7, <1>8 DEF ReportInv

(* build_ast gives up when every file was parsed: all bad files are shown. *)
LEMMA FilesEndReports ==
  ASSUME TypeOK, ReportInv, FilesEnd
  PROVE  ReportInv'
<1>1. /\ phase = "parse" /\ phase' \in {"failed", "loops"}
      /\ \A m \in Modules : Parsed(m)
      /\ malformed' = malformed /\ printed' = printed /\ state' = state
      /\ phase' = "failed" => hasSyntaxErrors /\ error' = "syntax"
      /\ phase' = "loops" => ~hasSyntaxErrors /\ error' = error
  BY DEF FilesEnd, Throw, Goto, Parsed, inputs, diagnostics
<1>2. malformed \subseteq Modules
  BY DEF TypeOK, InputsOK
<1>3. /\ Range(printed) = {m \in malformed : Parsed(m)}
      /\ hasSyntaxErrors <=> annotations # <<>>
      /\ Range(printed) = Range(annotations)
      /\ error = None
  BY <1>1 DEF ReportInv, AnnotatedInv
<1>4. Range(printed) = malformed
  BY <1>1, <1>2, <1>3
<1>5. hasSyntaxErrors <=> malformed # {}
  <2>1. SUFFICES (annotations # <<>>) <=> (Range(annotations) # {})
    BY <1>3, <1>4
  <2>2. annotations \in Seq(Modules)
    BY DEF TypeOK, DiagnosticsOK
  <2>3. annotations = <<>> => Range(annotations) = {}
    BY DEF Range
  <2>. QED  BY <2>2, <2>3, RangeHeadTail
<1>6. SyntaxErrorsReported'
  BY <1>1, <1>3, <1>4, <1>5 DEF SyntaxErrorsReported, None
<1>7. WellFormedInv'
  BY <1>1, <1>3, <1>5 DEF WellFormedInv, Linked, None
<1>. QED  BY <1>1, <1>3, <1>6, <1>7 DEF ReportInv, AnnotatedInv

(* The other steps of build_ast report nothing. *)
LEMMA QuietSteps ==
  ASSUME TypeOK, ReportInv, phase \in {"parse", "imports"},
         UNCHANGED <<malformed, state, annotations, printed, hasSyntaxErrors>>,
         \/ phase' \in {"parse", "recovery", "imports"} /\ error' = error
         \/ phase' = "failed" /\ error' \in {"load", "unknown module"}
  PROVE  ReportInv'
<1>1. AnnotatedInv'
  BY DEF ReportInv, AnnotatedInv, Parsed
<1>2. phase' # "failed" => error' = None
  BY DEF ReportInv
<1>3. WellFormedInv'
  BY <1>2 DEF WellFormedInv, Linked, None
<1>4. SyntaxErrorsReported'
  BY DEF SyntaxErrorsReported, ReportInv
<1>. QED  BY <1>1, <1>2, <1>3, <1>4 DEF ReportInv

(* After build_ast no file has syntax errors: there is nothing to report. *)
LEMMA LaterReports ==
  ASSUME TypeOK, ReportInv, Linked, malformed' = malformed,
         \/ Linked' /\ error' = error
         \/ phase' = "failed" /\ error' \in {"loop", "semantic", "link"}
  PROVE  ReportInv'
<1>1. malformed' = {} /\ error = None
  BY DEF ReportInv, WellFormedInv, Linked
<1>2. error' # "syntax" /\ (phase' # "failed" => error' = None)
  BY <1>1 DEF None
<1>3. phase' \notin {"parse", "recovery", "imports"}
  BY DEF Linked
<1>. QED
  BY <1>1, <1>2, <1>3 DEF ReportInv, AnnotatedInv, WellFormedInv, SyntaxErrorsReported

LEMMA ReportStep ==
  ASSUME TypeOK, ReportInv, [Next]_vars
  PROVE  ReportInv'
<1>. USE DEF inputs, diagnostics
<1>1. ASSUME UNCHANGED vars PROVE ReportInv'
  BY <1>1 DEF vars, ReportInv, AnnotatedInv, WellFormedInv, Linked,
              SyntaxErrorsReported, Parsed
<1>2. ASSUME NEW m \in Modules, LoadFails(m) \/ ParseHangs(m) PROVE ReportInv'
  <2>1. /\ phase = "parse"
        /\ UNCHANGED <<malformed, state, annotations, printed, hasSyntaxErrors>>
        /\ \/ phase' = "recovery" /\ error' = error
           \/ phase' = "failed" /\ error' = "load"
    BY <1>2 DEF LoadFails, ParseHangs, Pick, Throw, Goto
  <2>. QED  BY <2>1, QuietSteps
<1>3. ASSUME NEW name \in Importable, Import(name) PROVE ReportInv'
  <2>1. /\ phase = "imports"
        /\ UNCHANGED <<malformed, state, annotations, printed, hasSyntaxErrors>>
        /\ \/ phase' = "imports" /\ error' = error
           \/ phase' = "failed" /\ error' = "unknown module"
    BY <1>3 DEF Import, Throw
  <2>. QED  BY <2>1, QuietSteps
<1>4. ASSUME ImportsEnd PROVE ReportInv'
  <2>1. /\ phase = "imports" /\ phase' = "parse" /\ error' = error
        /\ UNCHANGED <<malformed, state, annotations, printed, hasSyntaxErrors>>
    BY <1>4 DEF ImportsEnd, Goto
  <2>. QED  BY <2>1, QuietSteps
<1>5. ASSUME NEW m \in Modules, SearchFrom(m) \/ VisitChild(m) \/ Seed(m) \/ Notify(m)
      PROVE  ReportInv'
  <2>1. /\ phase \in {"loops", "seed", "dependents"}
        /\ malformed' = malformed
        /\ \/ phase' = phase /\ error' = error
           \/ phase' = "failed" /\ error' = "loop"
    BY <1>5 DEF SearchFrom, VisitChild, Seed, Notify, Throw
  <2>. QED  BY <2>1, LaterReports DEF Linked
<1>6. ASSUME Leave \/ NoLoop \/ SeedEnd \/ PutBack \/ Compile \/ NotifyEnd \/ QueueEmpty \/ Link
      PROVE  ReportInv'
  <2>1. /\ phase \in {"loops", "seed", "queue", "dependents", "link"}
        /\ phase' \in {"loops", "seed", "queue", "dependents", "link", "done"}
        /\ error' = error /\ malformed' = malformed
    BY <1>6 DEF Leave, NoLoop, SeedEnd, PutBack, Compile, NotifyEnd, QueueEmpty, Link, Goto
  <2>. QED  BY <2>1, LaterReports DEF Linked
<1>7. ASSUME AnalysisFails \/ LinkFails PROVE ReportInv'
  <2>1. /\ phase \in {"queue", "link"} /\ malformed' = malformed
        /\ phase' = "failed" /\ error' \in {"semantic", "link"}
    BY <1>7 DEF AnalysisFails, LinkFails, Throw
  <2>. QED  BY <2>1, LaterReports DEF Linked
<1>8. CASE Parsing
  BY <1>2, <1>8, ParseFailsReports, PrintFailsReports, ParseSucceedsReports DEF Parsing
<1>9. CASE Importing
  BY <1>3, <1>4, <1>9, FilesEndReports DEF Importing
<1>10. CASE Searching \/ Seeding \/ Processing \/ Linking
  BY <1>5, <1>6, <1>7, <1>10 DEF Searching, Seeding, Processing, Linking
<1>. QED  BY <1>1, <1>8, <1>9, <1>10 DEF Next, Recovering, Terminated

(* While files are parsed the annotations are those of the bad files among   *)
(* the ones parsed, and are all printed; the loops are searched for, and     *)
(* anything is compiled, only if no file was bad.                            *)
THEOREM ReportsCorrect == Spec => []ReportInv
<1>1. Init => ReportInv
  <2>. SUFFICES ASSUME Init PROVE ReportInv
    OBVIOUS
  <2>1. /\ error = None /\ annotations = <<>> /\ printed = <<>> /\ hasSyntaxErrors = FALSE
        /\ malformed \subseteq Modules /\ \A m \in Modules : ~Parsed(m)
    BY DEF Init, Parsed
  <2>2. Range(annotations) = {} /\ Range(printed) = {}
    BY <2>1 DEF Range
  <2>3. AnnotatedInv
    BY <2>1, <2>2 DEF AnnotatedInv
  <2>4. phase = "parse"
    BY DEF Init
  <2>. QED  BY <2>1, <2>3, <2>4 DEF ReportInv, WellFormedInv, Linked,
                                    SyntaxErrorsReported, Parsed, None
<1>2. TypeOK /\ ReportInv /\ [Next]_vars => ReportInv'
  BY ReportStep
<1>. QED
  BY <1>1, <1>2, TypeCorrect, PTL DEF Spec

(* Every bad file that was parsed is shown, whatever ends the build then;    *)
(* when build_ast gives up because of syntax errors all of them are; and the *)
(* only builds that leave one unshown are those ended before, by a file that *)
(* cannot be loaded, an unknown import, an error that cannot be underlined   *)
(* or a parse() that does not return.                                        *)
THEOREM SyntaxErrorsShown == Spec => []SyntaxErrorsReported
BY ReportsCorrect, PTL DEF ReportInv

-----------------------------------------------------------------------------
(* Programs in which no module imports more than one other.                  *)

LEMMA DistinctAppend ==
  ASSUME NEW S, NEW s \in Seq(S), NEW e \in S, Distinct(s), e \notin Range(s)
  PROVE  Distinct(Append(s, e))
<1>1. Len(Append(s, e)) = Len(s) + 1 /\ Len(s) \in Nat /\ DOMAIN s = 1..Len(s)
  OBVIOUS
<1>2. /\ \A i \in 1..Len(s) : Append(s, e)[i] = s[i] /\ s[i] # e
      /\ Append(s, e)[Len(s) + 1] = e
  BY <1>1 DEF Range
<1>3. \A i \in 1..(Len(s) + 1) : i \in 1..Len(s) \/ i = Len(s) + 1
  BY <1>1
<1>. QED  BY <1>1, <1>2, <1>3 DEF Distinct

LEMMA DistinctTail ==
  ASSUME NEW S, NEW s \in Seq(S), s # <<>>, Distinct(s)
  PROVE  Distinct(Tail(s)) /\ Head(s) \notin Range(Tail(s))
<1>1. /\ Tail(s) \in Seq(S) /\ Head(s) = s[1]
      /\ Len(Tail(s)) = Len(s) - 1 /\ Len(s) \in Nat /\ Len(s) >= 1
      /\ DOMAIN Tail(s) = 1..(Len(s) - 1)
  OBVIOUS
<1>2. \A i \in 1..(Len(s) - 1) : Tail(s)[i] = s[i + 1]
  OBVIOUS
<1>3. \A i \in 1..(Len(s) - 1) : i + 1 \in 1..Len(s) /\ i + 1 # 1 /\ 1 \in 1..Len(s)
  BY <1>1
<1>4. \A i, j \in 1..(Len(s) - 1) : i + 1 = j + 1 => i = j
  BY <1>1
<1>5. Distinct(Tail(s))
  BY <1>1, <1>2, <1>3, <1>4 DEF Distinct
<1>6. Head(s) \notin Range(Tail(s))
  BY <1>1, <1>2, <1>3 DEF Distinct, Range
<1>. QED  BY <1>5, <1>6

AtMostOneImport == \A m \in Modules : Len(imports[m]) <= 1
OncePartsInv == DistinctInv /\ QueuedOnceInv /\ AheadInv /\ CompiledOnce

(* The only import of a module makes it a dependent that was not one yet.    *)
LEMMA ImportOnce ==
  ASSUME TypeOK, LinksInv, AtMostOneImport, DistinctInv, NEW name \in Importable, Import(name)
  PROVE  DistinctInv'
<1>1. CASE name \notin Modules
  BY <1>1 DEF Import, links, DistinctInv
<1>2. CASE name \in Modules
  <2>1. /\ phase = "imports" /\ cursor <= Len(imports[current])
        /\ dependents' = [dependents EXCEPT ![name] = Append(@, current)]
    BY <1>2 DEF Import
  <2>2. /\ current \in Modules /\ cursor \in Nat /\ cursor >= 1
        /\ dependents \in [Modules -> Seq(Modules)]
        /\ imports[current] \in Seq(Importable)
    BY <2>1 DEF TypeOK, ControlOK, ContextsOK, InputsOK, LinksInv, CursorInv
  <2>3. Len(imports[current]) <= 1 /\ Len(imports[current]) \in Nat
    BY <2>2 DEF AtMostOneImport
  <2>4. cursor = 1 /\ \A i \in 1..Len(imports[current]) : ~(i < cursor)
    BY <2>1, <2>2, <2>3
  <2>5. ~DependsOn(current, name)
    BY <1>2, <2>1, <2>4 DEF LinksInv, ImportingInv
  <2>6. ~HasDependent(name, current)
    BY <1>2, <2>2, <2>5 DEF LinksInv, ConverseInv
  <2>7. current \notin Range(dependents[name])
    <3>1. dependents[name] \in Seq(Modules)
      BY <1>2, <2>2
    <3>. QED  BY <2>6, <3>1 DEF HasDependent, Range
  <2>8. Distinct(Append(dependents[name], current))
    <3>1. dependents[name] \in Seq(Modules) /\ Distinct(dependents[name])
      BY <1>2, <2>2 DEF DistinctInv
    <3>. QED  BY <2>2, <2>7, <3>1, DistinctAppend
  <2>9. ASSUME NEW m \in Modules PROVE Distinct(dependents'[m])
    <3>1. CASE m = name
      BY <1>2, <2>1, <2>2, <2>8, <3>1
    <3>2. CASE m # name
      BY <1>2, <2>1, <2>2, <3>2 DEF DistinctInv
    <3>. QED  BY <3>1, <3>2
  <2>. QED  BY <2>9 DEF DistinctInv
<1>. QED  BY <1>1, <1>2

LEMMA BeforeOnce ==
  ASSUME TypeOK, LinksInv, WorkInv, AtMostOneImport, OncePartsInv,
         Parsing \/ Importing \/ Searching
  PROVE  OncePartsInv'
<1>. USE DEF OncePartsInv
<1>1. /\ phase \in {"parse", "imports", "loops"}
      /\ phase' \in {"parse", "recovery", "imports", "loops", "seed", "done", "failed"}
      /\ UNCHANGED <<queue, llvmModules>>
      /\ \A m \in Modules : m \in Compiled' => m \in Compiled
  BY BeforeFrame
<1>2. Compiled' = {}
  BY <1>1 DEF WorkInv, NotCompiledInv, Compiled
<1>3. queue' = <<>> /\ Range(queue') = {}
  BY <1>1 DEF QueuedOnceInv, Range
<1>4. QueuedOnceInv'
  <2>1. Distinct(queue')
    BY <1>3 DEF Distinct
  <2>2. \A m \in Compiled' \cup Range(queue') : FALSE
    BY <1>2, <1>3
  <2>. QED  BY <1>2, <1>3, <2>1, <2>2 DEF QueuedOnceInv
<1>5. AheadInv'
  BY <1>1, <1>3 DEF AheadInv
<1>6. CompiledOnce'
  BY <1>1 DEF CompiledOnce
<1>7. DistinctInv'
  <2>1. CASE \E name \in Importable : Import(name)
    BY <2>1, ImportOnce
  <2>2. CASE ~\E name \in Importable : Import(name)
    <3>1. dependents' = dependents
      BY <2>2 DEF Parsing, Importing, Searching, LoadFails, ParseFails, PrintFails,
                  ParseHangs, ParseSucceeds, ImportsEnd, FilesEnd, SearchFrom, VisitChild, Leave, NoLoop, links
    <3>. QED  BY <3>1 DEF DistinctInv
  <2>. QED  BY <2>1, <2>2
<1>. QED  BY <1>4, <1>5, <1>6, <1>7

(* A step between the loops, or one that gives up in the linker.             *)
LEMMA BetweenOnce ==
  ASSUME OncePartsInv, Linked,
         UNCHANGED <<imports, dependencies, dependents, state, queue, llvmModules>>,
         phase' \in {"queue", "link", "failed"}
  PROVE  OncePartsInv'
<1>. USE DEF OncePartsInv
<1>1. Compiled' = Compiled
  BY DEF Compiled
<1>2. \A m \in Modules : Processed(m)' <=> Processed(m)
  BY <1>1, ProcessedKept
<1>3. DistinctInv' /\ CompiledOnce' /\ AheadInv'
  BY DEF DistinctInv, CompiledOnce, AheadInv
<1>4. QueuedOnceInv'
  <2>1. \A m \in Compiled \cup Range(queue) : Processed(m)'
    BY <1>1 DEF QueuedOnceInv, Processed
  <2>. QED  BY <1>1, <2>1 DEF QueuedOnceInv
<1>. QED  BY <1>3, <1>4

LEMMA SeedOnce ==
  ASSUME TypeOK, LinksInv, WorkInv, OncePartsInv, NEW m \in Modules, Seed(m)
  PROVE  OncePartsInv'
<1>. USE DEF OncePartsInv
<1>1. /\ phase = "seed" /\ phase' = "seed" /\ cursor <= Len(Names) /\ m = Names[cursor]
      /\ cursor' = cursor + 1 /\ cursor \in Nat
      /\ queue' = IF dependencies[m] = <<>> THEN Append(queue, m) ELSE queue
      /\ UNCHANGED <<state, dependencies, dependents, llvmModules>>
  BY DEF Seed, links, TypeOK, ControlOK
<1>2. DistinctInv' /\ CompiledOnce'
  BY <1>1 DEF DistinctInv, CompiledOnce
<1>3. Compiled = {} /\ Compiled' = {}
  BY <1>1 DEF WorkInv, NotCompiledInv, Compiled
<1>4. queue \in Seq(Modules)
  BY DEF TypeOK, ProductsOK
<1>5. \A x \in Modules : Processed(x)' <=> Processed(x)
  BY <1>1, <1>3, ProcessedKept
<1>6. \A i \in 1..Len(Names) : i < cursor => i < cursor + 1
  BY <1>1, NamesAssumption DEF NamesAssumption
<1>7. CASE dependencies[m] # <<>>
  <2>1. queue' = queue
    BY <1>1, <1>7
  <2>2. QueuedOnceInv'
    BY <1>1, <1>3, <1>5, <2>1 DEF QueuedOnceInv, Linked, Processed
  <2>3. AheadInv'
    BY <1>1, <1>6, <2>1 DEF AheadInv
  <2>. QED  BY <1>2, <2>2, <2>3
<1>8. CASE dependencies[m] = <<>>
  <2>1. queue' = Append(queue, m) /\ Range(queue') = Range(queue) \cup {m}
    <3>1. Range(Append(queue, m)) = Range(queue) \cup {m}
      BY <1>4, RangeAppend
    <3>. QED  BY <1>1, <1>8, <3>1
  <2>2. \A i \in 1..Len(Names) : Names[i] \in Range(queue) => i < cursor
    BY <1>1 DEF AheadInv
  <2>3. cursor \in 1..Len(Names)
    <3>1. cursor >= 1
      BY DEF LinksInv, CursorInv
    <3>. QED  BY <1>1, <3>1, NamesAssumption DEF NamesAssumption
  <2>4. m \notin Range(queue)
    BY <1>1, <2>2, <2>3
  <2>5. Distinct(queue')
    BY <1>4, <2>1, <2>4, DistinctAppend DEF QueuedOnceInv
  <2>6. Processed(m)
    BY <1>8 DEF Processed
  <2>7. QueuedOnceInv'
    <3>1. \A x \in Range(queue) : Processed(x)
      BY <1>1 DEF QueuedOnceInv, Linked
    <3>2. Range(queue) \subseteq Modules
      BY <1>4 DEF Range
    <3>3. \A x \in Compiled' \cup Range(queue') : Processed(x)'
      BY <1>3, <1>5, <2>1, <2>6, <3>1, <3>2
    <3>. QED  BY <1>1, <1>3, <2>5, <3>3 DEF QueuedOnceInv
  <2>8. AheadInv'
    <3>1. ASSUME NEW i \in 1..Len(Names), Names[i] \in Range(queue') PROVE i < cursor'
      <4>1. CASE Names[i] = m
        <5>1. i = cursor
          BY <1>1, <2>3, <4>1, NamesAssumption DEF NamesAssumption
        <5>. QED  BY <1>1, <5>1
      <4>2. CASE Names[i] \in Range(queue)
        BY <1>1, <1>6, <2>2, <4>2
      <4>. QED  BY <2>1, <3>1, <4>1, <4>2
    <3>. QED  BY <1>1, <3>1 DEF AheadInv
  <2>. QED  BY <1>2, <2>7, <2>8
<1>. QED  BY <1>7, <1>8

(* What is queued has its imports compiled: nothing is ever put back.        *)
LEMMA NeverPutBack ==
  ASSUME TypeOK, OncePartsInv, PutBack
  PROVE  FALSE
<1>1. phase = "queue" /\ queue # <<>> /\ ~Processed(Head(queue))
  BY DEF PutBack
<1>2. Head(queue) \in Range(queue)
  BY <1>1, RangeHeadTail DEF TypeOK, ProductsOK
<1>. QED  BY <1>1, <1>2 DEF OncePartsInv, QueuedOnceInv, Linked

LEMMA AnalysisFailsOnce ==
  ASSUME TypeOK, OncePartsInv, AnalysisFails
  PROVE  OncePartsInv'
<1>. USE DEF OncePartsInv
<1>1. /\ phase = "queue" /\ queue # <<>> /\ queue' = Tail(queue) /\ phase' = "failed"
      /\ UNCHANGED <<state, dependents, llvmModules>>
  BY DEF AnalysisFails, Throw, links
<1>2. queue \in Seq(Modules)
  BY DEF TypeOK, ProductsOK
<1>3. Compiled' = Compiled
  BY <1>1 DEF Compiled
<1>4. Distinct(queue') /\ Range(queue') \subseteq Range(queue)
  BY <1>1, <1>2, DistinctTail, RangeHeadTail DEF QueuedOnceInv
<1>5. QueuedOnceInv'
  BY <1>1, <1>3, <1>4 DEF QueuedOnceInv, Linked
<1>6. DistinctInv' /\ CompiledOnce' /\ AheadInv'
  BY <1>1 DEF DistinctInv, CompiledOnce, AheadInv
<1>. QED  BY <1>5, <1>6

(* The dependents of the module just compiled had it as their only import:   *)
(* none of them was ready before.                                            *)
LEMMA CompileOnce ==
  ASSUME TypeOK, LinksInv, WorkInv, OncePartsInv, Compile
  PROVE  OncePartsInv'
<1>. USE DEF OncePartsInv
<1>. DEFINE h == Head(queue)
<1>1. /\ phase = "queue" /\ phase' = "dependents" /\ queue # <<>>
      /\ queue' = Tail(queue) /\ llvmModules' = Append(llvmModules, h)
      /\ current' = h /\ cursor' = 1
      /\ UNCHANGED <<dependencies, dependents>>
  BY DEF Compile, Goto, links
<1>2. queue \in Seq(Modules) /\ llvmModules \in Seq(Modules)
  BY DEF TypeOK, ProductsOK
<1>3. h \in Modules /\ Range(queue) = {h} \cup Range(queue')
  BY <1>1, <1>2, RangeHeadTail
<1>4. Distinct(queue') /\ h \notin Range(queue')
  BY <1>1, <1>2, DistinctTail DEF QueuedOnceInv
<1>5. Compiled' = Compiled \cup {h}
  BY CompileStep
<1>. HIDE DEF h
<1>6. h \notin Compiled
  BY <1>3 DEF QueuedOnceInv
<1>7. \A x \in Compiled \cup Range(queue) : Processed(x)
  BY <1>1 DEF QueuedOnceInv, Linked
<1>8. QueuedOnceInv'
  <2>1. \A x \in Compiled' \cup Range(queue') : Processed(x)'
    <3>1. \A x \in Compiled' \cup Range(queue') : Processed(x)
      BY <1>3, <1>5, <1>7
    <3>. QED  BY <1>1, <1>5, <3>1 DEF Processed
  <2>2. Range(queue') \cap Compiled' = {}
    BY <1>3, <1>4, <1>5 DEF QueuedOnceInv
  <2>. QED  BY <1>1, <1>4, <2>1, <2>2 DEF QueuedOnceInv
<1>9. AheadInv'
  <2>1. ASSUME NEW k \in 1..Len(dependents[h])
        PROVE  dependents[h][k] \notin Compiled' \cup Range(queue')
    <3>. DEFINE d == dependents[h][k]
    <3>1. d \in Modules
      BY <1>3 DEF TypeOK, ContextsOK
    <3>2. HasDependent(h, d)
      BY DEF HasDependent
    <3>. HIDE DEF d
    <3>3. DependsOn(d, h)
      BY <1>3, <3>1, <3>2 DEF LinksInv, ConverseInv
    <3>4. ~Processed(d)
      BY <1>6, <3>3 DEF Processed, DependsOn
    <3>. QED  BY <1>3, <1>5, <1>7, <3>4 DEF d
  <2>. QED  BY <1>1, <1>5, <2>1 DEF AheadInv
<1>10. CompiledOnce'
  <2>1. \A i \in 1..Len(llvmModules) : llvmModules[i] # h
    BY <1>1, <1>3, <1>6 DEF WorkInv, CompiledInv
  <2>2. h \notin Range(llvmModules)
    BY <1>2, <2>1 DEF Range
  <2>3. Distinct(llvmModules)
    BY DEF CompiledOnce, Distinct
  <2>4. Distinct(Append(llvmModules, h))
    BY <1>2, <1>3, <2>2, <2>3, DistinctAppend
  <2>. QED  BY <1>1, <2>4 DEF CompiledOnce, Distinct
<1>11. DistinctInv'
  BY <1>1 DEF DistinctInv
<1>. QED  BY <1>8, <1>9, <1>10, <1>11

(* A dependent is queued once, and its only import is compiled.              *)
LEMMA NotifyOnce ==
  ASSUME TypeOK, LinksInv, AtMostOneImport, OncePartsInv, NEW d \in Modules, Notify(d)
  PROVE  OncePartsInv'
<1>. USE DEF OncePartsInv
<1>1. /\ phase = "dependents" /\ phase' = "dependents" /\ cursor <= Len(dependents[current])
      /\ d = dependents[current][cursor] /\ cursor' = cursor + 1
      /\ queue' = IF d \in Compiled THEN queue ELSE Append(queue, d)
      /\ UNCHANGED <<state, dependencies, dependents, current, llvmModules>>
  BY DEF Notify, links
<1>2. /\ queue \in Seq(Modules) /\ current \in Modules /\ cursor \in Nat /\ cursor >= 1
      /\ Len(dependents[current]) \in Nat
  <2>1. queue \in Seq(Modules) /\ cursor \in Nat /\ cursor >= 1
    BY DEF TypeOK, ProductsOK, ControlOK, LinksInv, CursorInv
  <2>2. current \in Modules
    BY <1>1 DEF TypeOK, ControlOK
  <2>3. dependents[current] \in Seq(Modules)
    BY <2>2 DEF TypeOK, ContextsOK
  <2>. QED  BY <2>1, <2>2, <2>3
<1>3. Compiled' = Compiled
  BY <1>1 DEF Compiled
<1>4. cursor \in 1..Len(dependents[current])
  BY <1>1, <1>2
<1>5. d \notin Compiled \cup Range(queue) /\ current \in Compiled
  BY <1>1, <1>2, <1>4 DEF AheadInv
<1>6. queue' = Append(queue, d) /\ Range(queue') = Range(queue) \cup {d}
  <2>1. Range(Append(queue, d)) = Range(queue) \cup {d}
    BY <1>2, RangeAppend
  <2>. QED  BY <1>1, <1>5, <2>1
<1>7. Distinct(queue')
  BY <1>2, <1>5, <1>6, DistinctAppend DEF QueuedOnceInv
<1>8. Processed(d)
  <2>1. HasDependent(current, d)
    BY <1>1, <1>4 DEF HasDependent
  <2>2. current \in Imports(d)
    BY <1>1, <1>2, <2>1, LinkedEdges DEF Linked
  <2>3. imports[d] \in Seq(Importable) /\ Len(imports[d]) <= 1
    BY DEF TypeOK, InputsOK, AtMostOneImport
  <2>4. Imports(d) \subseteq {current}
    BY <2>2, <2>3 DEF Imports, Range
  <2>. QED  BY <1>1, <1>5, <2>4, ProcessedImports DEF Linked
<1>9. QueuedOnceInv'
  <2>1. \A x \in Compiled' \cup Range(queue') : Processed(x)
    BY <1>1, <1>3, <1>6, <1>8 DEF QueuedOnceInv, Linked
  <2>2. \A x \in Compiled' \cup Range(queue') : Processed(x)'
    BY <1>1, <1>3, <2>1 DEF Processed
  <2>3. Range(queue') \cap Compiled' = {}
    BY <1>3, <1>5, <1>6 DEF QueuedOnceInv
  <2>. QED  BY <1>1, <1>7, <2>2, <2>3 DEF QueuedOnceInv
<1>10. AheadInv'
  <2>1. ASSUME NEW k \in 1..Len(dependents[current]), cursor + 1 <= k
        PROVE  dependents[current][k] \notin Compiled \cup Range(queue')
    <3>1. cursor <= k /\ k # cursor
      BY <1>2, <2>1
    <3>2. dependents[current][k] # d
      BY <1>1, <1>2, <1>4, <3>1 DEF DistinctInv, Distinct
    <3>3. dependents[current][k] \notin Compiled \cup Range(queue)
      BY <1>1, <3>1 DEF AheadInv
    <3>. QED  BY <1>6, <3>2, <3>3
  <2>. QED  BY <1>1, <1>3, <1>5, <2>1 DEF AheadInv
<1>11. DistinctInv' /\ CompiledOnce'
  BY <1>1 DEF DistinctInv, CompiledOnce
<1>. QED  BY <1>9, <1>10, <1>11

LEMMA LinkOnce ==
  ASSUME OncePartsInv, Link
  PROVE  OncePartsInv'
<1>. USE DEF OncePartsInv
<1>1. /\ phase = "link" /\ phase' = "done" /\ llvmModules' = <<>>
      /\ UNCHANGED <<state, dependencies, dependents, queue>>
  BY DEF Link, Goto, links
<1>2. Compiled' = Compiled
  BY <1>1 DEF Compiled
<1>3. QueuedOnceInv'
  <2>1. \A x \in Compiled' \cup Range(queue') : Processed(x)'
    BY <1>1, <1>2 DEF QueuedOnceInv, Linked, Processed
  <2>. QED  BY <1>1, <1>2, <2>1 DEF QueuedOnceInv
<1>4. DistinctInv' /\ CompiledOnce' /\ AheadInv'
  BY <1>1 DEF DistinctInv, CompiledOnce, AheadInv
<1>. QED  BY <1>3, <1>4

LEMMA OnceStep ==
  ASSUME TypeOK, LinksInv, WorkInv, OnceInv, [Next]_vars
  PROVE  OnceInv'
<1>1. imports' = imports
  <2>1. CASE Parsing \/ Importing \/ Searching
    BY <2>1, BeforeFrame
  <2>2. CASE Seeding \/ Processing \/ Linking
    BY <2>2, LaterSteps
  <2>. QED  BY <2>1, <2>2 DEF Next, Recovering, Terminated, vars, inputs
<1>2. SUFFICES ASSUME AtMostOneImport PROVE OncePartsInv'
  BY <1>1 DEF OnceInv, AtMostOneImport, OncePartsInv
<1>3. OncePartsInv
  BY <1>2 DEF OnceInv, AtMostOneImport, OncePartsInv
<1>4. CASE UNCHANGED vars
  <2>1. UNCHANGED <<imports, dependencies, dependents, state, phase, cursor, current,
                    queue, llvmModules>>
    BY <1>4 DEF vars, inputs, links, products
  <2>2. Compiled' = Compiled
    BY <2>1 DEF Compiled
  <2>3. DistinctInv' /\ CompiledOnce' /\ AheadInv'
    BY <1>3, <2>1, <2>2 DEF OncePartsInv, DistinctInv, CompiledOnce, AheadInv
  <2>4. QueuedOnceInv'
    BY <1>3, <2>1, <2>2 DEF OncePartsInv, QueuedOnceInv, Linked, Processed
  <2>. QED  BY <2>3, <2>4 DEF OncePartsInv
<1>5. ASSUME SeedEnd \/ NotifyEnd \/ QueueEmpty \/ LinkFails PROVE OncePartsInv'
  <2>1. /\ phase \in {"seed", "dependents", "queue", "link"}
        /\ UNCHANGED <<imports, dependencies, dependents, state, queue, llvmModules>>
        /\ phase' \in {"queue", "link", "failed"}
    BY <1>5 DEF SeedEnd, NotifyEnd, QueueEmpty, LinkFails, Goto, Throw, inputs, links, products
  <2>. QED  BY <1>3, <2>1, BetweenOnce DEF Linked
<1>6. CASE Parsing \/ Importing \/ Searching
  BY <1>2, <1>3, <1>6, BeforeOnce
<1>7. CASE Seeding
  BY <1>3, <1>5, <1>7, SeedOnce DEF Seeding
<1>8. CASE Processing
  BY <1>2, <1>3, <1>5, <1>8, NeverPutBack, AnalysisFailsOnce, CompileOnce, NotifyOnce
     DEF Processing
<1>9. CASE Linking
  BY <1>3, <1>5, <1>9, LinkOnce DEF Linking
<1>. QED  BY <1>4, <1>6, <1>7, <1>8, <1>9 DEF Next, Recovering, Terminated

(* When no module imports more than one other, a module waits in the queue   *)
(* at most once, or is still to be put there, and never after it is compiled.*)
THEOREM OnceCorrect == Spec => []OnceInv
<1>1. Init => OnceInv
  <2>. SUFFICES ASSUME Init PROVE OnceInv
    OBVIOUS
  <2>1. /\ phase = "parse" /\ queue = <<>> /\ llvmModules = <<>> /\ Compiled = {}
        /\ dependents = [m \in Modules |-> <<>>]
    BY DEF Init, Compiled
  <2>2. Distinct(queue) /\ Range(queue) = {} /\ CompiledOnce
    BY <2>1 DEF Distinct, Range, CompiledOnce
  <2>3. DistinctInv
    BY <2>1 DEF DistinctInv, Distinct
  <2>4. QueuedOnceInv /\ AheadInv
    BY <2>1, <2>2 DEF QueuedOnceInv, AheadInv, Linked
  <2>. QED  BY <2>2, <2>3, <2>4 DEF OnceInv
<1>2. TypeOK /\ LinksInv /\ WorkInv /\ OnceInv /\ [Next]_vars => OnceInv'
  BY OnceStep
<1>. QED
  BY <1>1, <1>2, TypeCorrect, LinksCorrect, WorkCorrect, PTL DEF Spec

(* When no module imports more than one other, no module is compiled twice,  *)
(* so the linker meets no symbol twice.                                      *)
THEOREM ChainsOnce == Spec => []ChainsCompiledOnce
<1>1. OnceInv => ChainsCompiledOnce
  BY DEF OnceInv, ChainsCompiledOnce
<1>. QED  BY <1>1, OnceCorrect, PTL
=============================================================================
