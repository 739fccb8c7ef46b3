---------------------------- MODULE PassManager ----------------------------
(* The pass manager of the former back end, one function of a program at a   *)
(* time: it runs a pipeline of passes, keeps the analyses they ask for until *)
(* a pass reports a change, verifies the function after each pass (the debug *)
(* build, should_verify left TRUE), and at the end the function is printed.  *)
(* A step is one block of a basic block pass, one round of a function pass,  *)
(* or one verification.                                                      *)
EXTENDS Passes, LoopRotation, RegisterAllocation, AssemblyPrinter

CONSTANTS Functions,                      \* what the passes are given
          Inputs,                         \* arguments the functions are run with
          MaxPasses,                      \* bound on the length of a pipeline
          Fuel                            \* bound on the blocks one run enters

VARIABLES source,      \* the function the pipeline was given
          function,    \* the function now
          inSsa,       \* is_in_ssa_
          phase, pass, \* what the manager does, and with which pass
          pending,     \* the blocks base_apply has still to visit
          analyses,    \* the cached analyses: valid or not, and the result
          applied,     \* how many passes were applied
          lines        \* the assembly printed
vars == <<source, function, inSsa, phase, pass, pending, analyses, applied, lines>>

BlockPasses == {"common", "constants", "moves", "silly"}
FunctionPasses == {"unused", "phi", "select", "rotate", "registers"}
RequiresSsa == {"common", "constants", "moves", "phi", "select", "rotate"}
BreaksSsa == {"phi", "registers"}
RepeatsWhileChanging == {"unused"}

Invalid == [valid |-> FALSE, data |-> <<>>]
NothingCached == [liveness |-> Invalid, dominators |-> Invalid, equalities |-> Invalid]

(* get_analysis: computed again only after an invalidation.                  *)
Analysed(name) ==
  IF analyses[name].valid THEN analyses[name]
  ELSE [valid |-> TRUE, data |-> CASE name = "liveness" -> Liveness(function)
                                   [] name = "dominators" -> Dominators(function)
                                   [] name = "equalities" -> Equalities(function)]
GetAnalysis(name) == Analysed(name).data

Needs(p) == CASE p = "moves" -> {"equalities"}
              [] p \in {"unused", "registers"} -> {"liveness"}
              [] p = "rotate" -> {"dominators"}
              [] OTHER -> {}
Asked(names) == [n \in DOMAIN analyses |-> IF n \in names THEN Analysed(n) ELSE analyses[n]]

--------------------------------------------------------------------------
(* apply takes the next pass of the pipeline, which was put together outside *)
(* the sources: any pass may follow any other.  One that requires SSA stops  *)
(* it when the function has left SSA.                                        *)
StartPass(p) ==
  /\ phase = "idle" /\ applied < MaxPasses
  /\ pass' = p
  /\ IF p \in RequiresSsa /\ ~inSsa THEN phase' = "stopped" /\ pending' = <<>>
     ELSE phase' = "applying" /\ pending' = IF p \in BlockPasses THEN function.order ELSE <<>>
  /\ UNCHANGED <<source, function, inSsa, analyses, applied, lines>>

(* Mutant: the analyses stay valid when a pass reports a change.             *)
SettleCached(outcome) ==
  /\ function' = IF outcome.changed THEN SimplifyBlocks(outcome.function) ELSE function
  /\ analyses' = Asked(Needs(pass))

(* What the base classes do with the outcome of a pass.                      *)
Settle(outcome) ==
  /\ function' = IF outcome.changed THEN SimplifyBlocks(outcome.function) ELSE function
  /\ analyses' = IF outcome.changed THEN [n \in DOMAIN analyses |-> [analyses[n] EXCEPT !.valid = FALSE, !.data = <<>>]]
                 ELSE Asked(Needs(pass))

(* A function that has lost its first block cannot be worked on.             *)
Then(next) == IF HasBegin(function') THEN next ELSE "undefined"

BlockOutcome(b) ==
  CASE pass = "common" -> CommonElimination(function, b)
    [] pass = "constants" -> ConstantPropagation(function, b)
    [] pass = "moves" -> SSAMoveErasure(function, b, GetAnalysis("equalities"))
    [] pass = "silly" -> SillyMoveErasure(function, b)

ApplyToBlock ==
  /\ phase = "applying" /\ pass \in BlockPasses /\ pending # <<>>
  /\ Head(pending) \in Blocks(function)
  /\ Settle(BlockOutcome(Head(pending)))
  /\ pending' = Tail(pending)
  /\ phase' = Then(phase)
  /\ UNCHANGED <<source, inSsa, pass, applied, lines>>

(* A change to a block simplifies the function, which erases blocks that are *)
(* still in the order: what follows is undefined, and nothing after it is    *)
(* modelled.                                                                 *)
VisitErasedBlock ==
  /\ phase = "applying" /\ pass \in BlockPasses /\ pending # <<>>
  /\ Head(pending) \notin Blocks(function)
  /\ phase' = "undefined"
  /\ UNCHANGED <<source, function, inSsa, pass, pending, analyses, applied, lines>>

FunctionOutcome ==
  CASE pass = "unused" -> UnusedTemporariesElimination(function, GetAnalysis("liveness"))
    [] pass = "phi" -> PhiElimination(function)
    [] pass = "select" -> ReplaceBranchWithSelect(function)
    [] pass = "rotate" -> RotateLoops(function, GetAnalysis("dominators").loops)

FinishFunction(outcome) ==
  \/ /\ outcome.ends = "done"
     /\ Settle(outcome)
     /\ phase' = Then(IF outcome.changed /\ pass \in RepeatsWhileChanging THEN "applying" ELSE "verifying")
  \/ /\ outcome.ends = "thrown"
     /\ phase' = "stopped" /\ UNCHANGED <<function, analyses>>
  \/ /\ outcome.ends = "undefined"
     /\ phase' = "undefined" /\ UNCHANGED <<function, analyses>>

ApplyToFunction ==
  /\ phase = "applying" /\ pass \in FunctionPasses \ {"registers"}
  /\ FinishFunction(FunctionOutcome)
  /\ UNCHANGED <<source, inSsa, pass, pending, applied, lines>>

(* The hash map decides the order in which temporaries get their registers:  *)
(* two of the orders.                                                        *)
ByNumber(reversed) ==
  LET up == SortSeq(FoldSet(LAMBDA t, found : Append(found, t), <<>>, Temporaries(function)), Smaller) IN IF reversed THEN Reverse(up) ELSE up

AllocateRegisters ==
  /\ phase = "applying" /\ pass = "registers"
  /\ \E reversed \in BOOLEAN :
       LET registers == AssignRegisters(function, GetAnalysis("liveness"), ByNumber(reversed))
       IN IF AllAssigned(function, registers)
            THEN Settle([function |-> ApplyTransformation(function, registers), changed |-> TRUE]) /\ phase' = Then("verifying")
            ELSE phase' = "stopped" /\ UNCHANGED <<function, analyses>>
  /\ UNCHANGED <<source, inSsa, pass, pending, applied, lines>>

FinishBlocks ==
  /\ phase = "applying" /\ pass \in BlockPasses /\ pending = <<>>
  /\ phase' = "verifying"
  /\ UNCHANGED <<source, function, inSsa, pass, pending, analyses, applied, lines>>

--------------------------------------------------------------------------
(* VerificationPass.                                                         *)
Definitions(fn) ==
  fn.arguments \o FlattenSeq([k \in DOMAIN fn.order |->
    LET code == SelectSeq(fn.code[fn.order[k]], HasReturnValue) IN [n \in DOMAIN code |-> code[n].result]])

CheckSsa(fn) == \A j, k \in DOMAIN Definitions(fn) : j # k => Definitions(fn)[j] # Definitions(fn)[k]

(* Mutant: the values of a phi may live on behind it.                        *)
CheckOrigins(fn, live, b, k) ==
  LET phi == fn.code[b][k]
  IN Len(phi.origins) = Len(Parents(fn, b)) /\ ToSet(Parents(fn, b)) \subseteq ToSet(phi.origins)

CheckPhi(fn, live, b, k) ==
  LET phi == fn.code[b][k] IN
  /\ Len(phi.origins) = Len(Parents(fn, b))
  /\ ToSet(phi.arguments) \cap live[b][k + 1] = {}
  /\ ToSet(Parents(fn, b)) \subseteq ToSet(phi.origins)

CheckBlock(fn, live, b) ==
  LET code == fn.code[b] IN
  /\ code # <<>>
  /\ {k \in DOMAIN code : IsControlFlow(code[k])} = {Len(code)}
  /\ \A k \in DOMAIN code : IsPhi(code[k]) => CheckPhi(fn, live, b, k)

Verified(fn, ssa, live) ==
  /\ ssa => CheckSsa(fn)
  /\ \A b \in Blocks(fn) : CheckBlock(fn, live, b)
  /\ live[fn.begin][1] \subseteq ToSet(fn.arguments)

Verify ==
  LET ssa == inSsa /\ pass \notin BreaksSsa IN
  /\ phase = "verifying"
  /\ phase' = IF Verified(function, ssa, GetAnalysis("liveness")) THEN "idle" ELSE "stopped"
  /\ analyses' = Asked({"liveness"})
  /\ inSsa' = ssa
  /\ applied' = applied + 1
  /\ UNCHANGED <<source, function, pass, pending, lines>>

(* A phi, or an instruction whose values are written down and still virtual, *)
(* is an exception.                                                          *)
Printable(i) ==
  /\ ~IsPhi(i)
  /\ i.op \notin {"call", "return", "jump"} => \A v \in ToSet(i.arguments) \cup {i.result} : v[1] # "virtual"

PrintAssembly ==
  /\ phase = "idle"
  /\ IF \A i \in Instructions(function) : Printable(i)
       THEN phase' = "printed" /\ lines' = PrintFunction(function)
       ELSE phase' = "stopped" /\ UNCHANGED lines
  /\ UNCHANGED <<source, function, inSsa, pass, pending, analyses, applied>>

Init ==
  /\ source \in Functions /\ function = source
  /\ inSsa = TRUE /\ phase = "idle" /\ pass = "none" /\ pending = <<>>
  /\ analyses = NothingCached /\ applied = 0 /\ lines = <<>>

Next ==
  \/ \E p \in BlockPasses \cup FunctionPasses : StartPass(p)
  \/ ApplyToBlock \/ VisitErasedBlock \/ FinishBlocks
  \/ ApplyToFunction \/ AllocateRegisters
  \/ Verify \/ PrintAssembly

Spec == Init /\ [][Next]_vars

--------------------------------------------------------------------------
(* The cases in which the code changes what a function returns: calls of     *)
(* different functions with equal arguments become one, a phi whose parents  *)
(* are not in the order of the branch becomes a select, registers are        *)
(* allocated for a result nobody uses or for a call that takes a value       *)
(* twice, and results nobody uses are removed after that.  Once registers    *)
(* are allocated every result counts as unused, as the liveness analysis     *)
(* looks at virtual registers only.                                          *)
Allocated == \A a \in ToSet(function.arguments) : a[1] = "basic"
CallsConfused ==
  \E b \in Blocks(function) : \E i, j \in ToSet(function.code[b]) :
    i.op = "call" /\ j.op = "call" /\ i.callee # j.callee /\ Len(i.arguments) = Len(j.arguments)
BranchTurned ==
  \E b, g \in Blocks(function) : \E i \in ToSet(function.code[b]) :
    ToSet(i.origins) = ToSet(function.children[g]) /\ i.origins # function.children[g]
ResultUnused ==
  LET live == Liveness(function)
  IN \E b \in Blocks(function) : \E k \in DOMAIN function.code[b] : Unused(function.code[b][k], live[b][k + 1])
ArgumentRepeated == \E i \in Instructions(function) : i.op = "call" /\ ~IsInjective(i.arguments)

LosesMeaning ==
  CASE pass = "common" -> CallsConfused
    [] pass = "select" -> BranchTurned
    [] pass = "registers" -> ResultUnused \/ ArgumentRepeated
    [] pass = "unused" -> Allocated
    [] OTHER -> FALSE

(* Whatever was applied before, a step of a pass that changes the function   *)
(* leaves what it returns as it was, or the verification will refuse it; and *)
(* printing leaves it as it was once registers are allocated: but for the    *)
(* cases above, PassManager::apply.                                          *)
MeaningKept ==
  [][\A input \in Inputs :
       LET meant == Meaning(function, input, Fuel) IN
       meant[1] = "returned" =>
         /\ function' # function /\ phase' # "undefined" /\ ~LosesMeaning =>
              Meaning(function', input, Fuel) = meant \/ ~Verified(function', inSsa /\ pass \notin BreaksSsa, Liveness(function'))
         /\ phase' = "printed" /\ Allocated => RunAssembly(function, lines', input, 20 * Fuel) = meant]_vars

(* Paths, without the data flow equations of the analyses.                   *)
RECURSIVE Avoiding(_, _, _)
Avoiding(fn, found, wall) ==
  LET next == found \cup (UNION {ToSet(fn.children[b]) : b \in found} \ {wall})
  IN IF next = found THEN found ELSE Avoiding(fn, next, wall)
OnEveryPath(fn, d, b) == d = b \/ b \notin Avoiding(fn, {fn.begin} \ {d}, d)

DefinedAt(fn, v) == {<<b, k>> \in UNION {{<<b, k>> : k \in DOMAIN fn.code[b]} : b \in Blocks(fn)} : fn.code[b][k].result = v}
Available(fn, v, b, k) ==
  \/ v[1] = "constant" \/ v \in ToSet(fn.arguments)
  \/ \E at \in DefinedAt(fn, v) : IF at[1] = b THEN at[2] < k ELSE OnEveryPath(fn, at[1], b)

(* As long as the manager takes a verified function to be in SSA, a value is *)
(* assigned once, and each use, for a phi at the end of the parent it names, *)
(* is reached only through the assignment (is_in_ssa_, VerificationPass).    *)
SsaKept ==
  phase = "idle" /\ inSsa =>
    /\ \A v \in Temporaries(function) : Cardinality(DefinedAt(function, v)) + (IF v \in ToSet(function.arguments) THEN 1 ELSE 0) = 1
    /\ \A b \in Blocks(function) : \A k \in DOMAIN function.code[b] :
         LET i == function.code[b][k] IN
         IF IsPhi(i) THEN ToSet(i.origins) = ToSet(Parents(function, b)) /\
                          \A a \in DOMAIN i.arguments : Available(function, i.arguments[a], i.origins[a], Len(function.code[i.origins[a]]) + 1)
         ELSE \A v \in ToSet(i.arguments) : Available(function, v, b, k)

(* A value is live at a position of a block if the rest of the block uses it *)
(* before it assigns it, or leaves it alone and a child does that.           *)
RECURSIVE UsedFrom(_, _, _, _)
UsedFrom(fn, v, todo, seen) ==
  IF todo = {} THEN FALSE
  ELSE LET at == CHOOSE at \in todo : TRUE
           code == fn.code[at[1]]
           touching == {k \in at[2]..Len(code) : v \in ToSet(code[k].arguments) \cup {code[k].result}}
           later == IF touching = {} THEN {<<c, 1>> : c \in ToSet(fn.children[at[1]])} \ seen ELSE {}
       IN \/ touching # {} /\ v \in ToSet(code[Min(touching)].arguments)
          \/ UsedFrom(fn, v, (todo \ {at}) \cup later, seen \cup {at})

LivenessTrue(fn, live) ==
  \A b \in Blocks(fn) : \A k \in 1..Len(fn.code[b]) + 1 :
    live[b][k] = {v \in {t \in Temporaries(fn) : t[1] = "virtual"} : UsedFrom(fn, v, {<<b, k>>}, {})}

(* A first block with parents is taken to be dominated by every block.       *)
DominatorsTrue(fn, info) ==
  Parents(fn, fn.begin) = <<>> =>
  /\ \A b \in Blocks(fn) : info.dominators[b] = {d \in Blocks(fn) : OnEveryPath(fn, d, b)}
  /\ \A k \in DOMAIN info.loops : \A b \in info.loops[k].blocks :
       OnEveryPath(fn, info.loops[k].header, b) /\ info.loops[k].header \in Avoiding(fn, ToSet(fn.children[b]), 0)

(* The values a value is moved from, directly or through other moves.        *)
RECURSIVE MovedFrom(_, _)
MovedFrom(fn, found) ==
  LET next == found \cup {i.arguments[1] : i \in {i \in Instructions(fn) : i.op = "move" /\ i.result \in found}}
  IN IF next = found THEN found ELSE MovedFrom(fn, next)

(* Two loops whose headers are one block or become one when the outer one is *)
(* rotated, or a loop the function begins with.                              *)
HeadersMeet ==
  LET loops == Dominators(function).loops IN
  \E j, k \in DOMAIN loops :
    \/ loops[k].header = function.begin
    \/ j # k /\ loops[j].header \in {loops[k].header} \cup ToSet(function.children[loops[k].header])

(* No pass, and no verification, works on what is no longer so: a block that *)
(* is gone is visited only if the function came with blocks to join or erase,*)
(* and a header that is gone is read only if loops meet in it; and an        *)
(* analysis that counts as valid says what the paths of the function as it   *)
(* is now say (get_analysis, BasicBlockLevelPass::base_apply,                *)
(* LoopRotationPass::apply).                                                 *)
NothingStale ==
  /\ phase = "undefined" => SimplifyBlocks(source) # source \/ (pass = "rotate" /\ HeadersMeet)
  /\ phase \in {"applying", "verifying"} =>
       /\ analyses.liveness.valid =>
            IF Phis(function) = <<>> /\ ~Allocated THEN LivenessTrue(function, analyses.liveness.data)
            ELSE analyses.liveness.data = Liveness(function)
       /\ analyses.dominators.valid => DominatorsTrue(function, analyses.dominators.data)
       /\ analyses.equalities.valid =>
            \A v \in DOMAIN analyses.equalities.data : analyses.equalities.data[v] \in MovedFrom(function, {v})
=============================================================================
