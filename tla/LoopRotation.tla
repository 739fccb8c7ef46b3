--------------------------- MODULE LoopRotation ---------------------------
(* LoopRotationPass: a loop that is left through its header alone has the    *)
(* header copied to the end of each of its parents, so that the test comes   *)
(* last.                                                                     *)
EXTENDS Analyses

Results(fn, b) ==
  LET code == SelectSeq(fn.code[b], HasReturnValue) IN [k \in DOMAIN code |-> code[k].result]

CanRotate(fn, loop) ==
  ExitBlocks(fn, loop) = {loop.header} /\ loop.header \notin ToSet(Parents(fn, loop.header))

NewHeader(fn, loop) == CHOOSE c \in ToSet(fn.children[loop.header]) : c \in loop.blocks
OuterBlock(fn, loop) == CHOOSE c \in ToSet(fn.children[loop.header]) : c \notin loop.blocks

(* The copy of the header for its p-th parent, and the temporaries given to  *)
(* the v-th result of the header there and, for p one more than the parents, *)
(* outside the loop.                                                         *)
CopyBlock(fn, p) == Max(Blocks(fn)) + p
CopyValue(fn, loop, p, v) == AllocateVreg(fn, (p - 1) * Len(Results(fn, loop.header)) + v)

Renaming(fn, loop, p) ==
  LET results == Results(fn, loop.header)
  IN [r \in ToSet(results) |-> CopyValue(fn, loop, p, CHOOSE v \in DOMAIN results : results[v] = r)]

(* In the copy a phi is a move of the value that comes from that parent.     *)
CopyOfHeader(fn, loop, p) ==
  LET parent == Parents(fn, loop.header)[p]
      names == Renaming(fn, loop, p)
      Copied(i) == IF ~IsPhi(i) THEN ReplaceValues(i, names)
                   ELSE IF parent \in ToSet(i.origins)
                   THEN Move(Replaced(i.result, names), CHOOSE v \in FromParent(i, parent) : TRUE)
                   ELSE i
  IN [k \in DOMAIN fn.code[loop.header] |-> Copied(fn.code[loop.header][k])]

(* The phi instructions that join the copies of each result again.           *)
JoiningPhis(fn, loop, names) ==
  LET parents == Parents(fn, loop.header)
      results == Results(fn, loop.header)
      copies == [p \in DOMAIN parents |-> CopyBlock(fn, p)]
  IN [v \in DOMAIN results |->
        Phi(Replaced(results[v], names), copies, [p \in DOMAIN parents |-> CopyValue(fn, loop, p, v)])]

Rotated(fn, loop) ==
  LET parents == Parents(fn, loop.header)
      copies == [p \in DOMAIN parents |-> CopyBlock(fn, p)]
      parentOf == [c \in ToSet(copies) |-> CHOOSE p \in DOMAIN copies : copies[p] = c]
      inside == loop.blocks \cup {copies[p] : p \in {p \in DOMAIN parents : parents[p] \in loop.blocks}}
      outer == Renaming(fn, loop, Len(parents) + 1)
      header == fn.children[loop.header]
      Redirected(b) == [c \in DOMAIN fn.children[b] |->
        IF fn.children[b][c] = loop.header /\ b \in ToSet(parents)
          THEN CopyBlock(fn, CHOOSE p \in DOMAIN parents : parents[p] = b) ELSE fn.children[b][c]]
      Code(b) == IF b \in ToSet(copies) THEN CopyOfHeader(fn, loop, parentOf[b]) ELSE fn.code[b]
      Outside(b) == LET code == IF b = OuterBlock(fn, loop) THEN JoiningPhis(fn, loop, outer) \o Code(b) ELSE Code(b)
                    IN [k \in DOMAIN code |-> ReplaceValues(code[k], outer)]
      all == ToSet(fn.order) \cup ToSet(copies)
      result == [fn EXCEPT
        !.order = fn.order \o copies,
        !.children = [b \in all |-> IF b \in ToSet(copies) THEN header ELSE Redirected(b)],
        !.code = [b \in all |-> IF b \notin inside THEN Outside(b)
                                ELSE IF b = NewHeader(fn, loop) THEN JoiningPhis(fn, loop, <<>>) \o Code(b)
                                ELSE Code(b)]]
  IN EraseBlocks(result, {loop.header})

(* After a rotation the loops are found again from their headers, the first  *)
(* of them with the old header taking the new one.                           *)
ChangeHeader(loops, old, new) ==
  LET k == Min({k \in DOMAIN loops : loops[k].header = old}) IN [loops EXCEPT ![k].header = new]

(* What is read through a pointer to the erased header: the loop of another  *)
(* back edge may keep one, and so does the function when it began there.     *)
Dangling(fn, loops) == ~HasBegin(fn) \/ \E k \in DOMAIN loops : loops[k].header \notin Blocks(fn)

(* A header without a child in its loop is an exception.                     *)
RECURSIVE RotateFrom(_, _, _)
RotateNext(fn, result, loops, k) ==
  IF Dangling(result, loops) THEN [function |-> fn, ends |-> "undefined"]
  ELSE RotateFrom(result, UpdateLoops(result, loops), k + 1)

RotateFrom(fn, loops, k) ==
  IF k > Len(loops) THEN [function |-> fn, ends |-> "done"]
  ELSE IF ~CanRotate(fn, loops[k]) THEN RotateFrom(fn, loops, k + 1)
  ELSE IF ToSet(fn.children[loops[k].header]) \cap loops[k].blocks = {} THEN [function |-> fn, ends |-> "thrown"]
  ELSE RotateNext(fn, Finalize(Rotated(fn, loops[k])), ChangeHeader(loops, loops[k].header, NewHeader(fn, loops[k])), k)

Compared(fn, last) == last @@ [changed |-> last.function # fn]
RotateLoops(fn, loops) == Compared(fn, RotateFrom(fn, loops, 1))
===========================================================================
