--------------------------- MODULE MCPassManager ---------------------------
(* Small functions for TLC.                                                  *)
EXTENDS PassManager

V(n) == Virtual(n)
C(n) == Constant(n)
Add(to, x, y) == Instruction("add", V(to), <<x, y>>)
Sub(to, x, y) == Instruction("sub", V(to), <<x, y>>)
Mov(to, x) == Move(V(to), x)
Call(to, name, args) == FunctionCall(V(to), name, args)
Join(to, b1, x1, b2, x2) == Phi(V(to), <<b1, b2>>, <<x1, x2>>)

(* Every function has the parameters V(0) and V(1).                          *)
Code(children, code) ==
  [begin |-> 1, order |-> [k \in DOMAIN code |-> k], code |-> code, children |-> children,
   arguments |-> <<V(0), V(1)>>]

(* One block.                                                                *)
Line1 == {Add(2, V(0), C(1)), Mov(2, C(1)), Mov(2, V(1)), Call(2, "f", <<V(1), V(0)>>)}
Line2 == {Sub(3, V(2), V(0)), Add(3, V(0), C(1)), Call(3, "f", <<V(1), V(0)>>)}
Straight ==
  {Code(<<<<>>>>, <<<<i, j, l, Return(V(4))>>>>) :
     i \in Line1, j \in Line2, l \in {Add(4, V(2), V(3)), Call(4, "f", <<V(3), V(2)>>)}}

(* A branch that joins again.                                                *)
Diamond ==
  {Code(<<<<2, 3>>, <<4>>, <<4>>, <<>>>>,
        <<<<Mov(2, V(1)), Branch(V(0))>>, <<l, Jump>>, <<r, Jump>>,
          <<Join(5, 2, x, 3, V(4)), Add(6, V(5), V(1)), Return(V(6))>>>>) :
     l \in {Mov(3, V(2)), Call(3, "f", <<V(1), V(2)>>)},
     r \in {Sub(4, V(0), V(2)), Mov(4, V(1))}, x \in {V(3), C(0)}}

(* A loop that counts V(0) down.                                             *)
Loop ==
  {Code(<<<<2>>, <<4, 3>>, <<2>>, <<>>>>,
        <<<<first[1], Jump>>,
          <<Join(3, 1, V(0), 3, V(6)), Join(4, 1, first[2], 3, V(7))>> \o h \o <<Branch(V(3))>>,
          <<Sub(6, V(3), C(1)), l, Jump>>,
          <<Return(V(4))>>>>) :
     first \in {<<Mov(2, C(1)), V(2)>>, <<Add(2, V(1), C(1)), C(0)>>}, h \in {<<>>, <<Add(5, V(4), V(1))>>},
     l \in {Add(7, V(4), V(1)), Mov(7, V(3)), Mov(7, V(2)), Call(7, "f", <<V(3), V(4)>>)}}

(* A loop that exchanges two values, one with a branch in it, one behind a   *)
(* branch, and a loop in a loop.                                             *)
Swap ==
  Code(<<<<2>>, <<4, 3>>, <<2>>, <<>>>>,
       <<<<Mov(2, C(1)), Jump>>,
         <<Join(3, 1, V(0), 3, V(6)), Join(4, 1, V(1), 3, V(5)), Join(5, 1, V(2), 3, V(4)), Branch(V(3))>>,
         <<Sub(6, V(3), C(1)), Jump>>,
         <<Sub(7, V(4), V(5)), Return(V(7))>>>>)
BranchInLoop ==
  Code(<<<<2>>, <<6, 3>>, <<4, 5>>, <<7>>, <<7>>, <<>>, <<2>>>>,
       <<<<Jump>>, <<Join(3, 1, V(0), 7, V(6)), Join(4, 1, C(0), 7, V(9)), Branch(V(3))>>,
         <<Sub(6, V(3), C(1)), Branch(V(6))>>, <<Add(7, V(4), V(1)), Jump>>, <<Mov(8, V(4)), Jump>>,
         <<Return(V(4))>>, <<Join(9, 4, V(7), 5, V(8)), Jump>>>>)
LoopBehindBranch ==
  Code(<<<<2, 3>>, <<6>>, <<4>>, <<6, 5>>, <<4>>, <<>>>>,
       <<<<Branch(V(1))>>, <<Mov(2, C(3)), Jump>>, <<Mov(3, C(5)), Jump>>,
         <<Join(4, 3, V(0), 5, V(5)), Branch(V(4))>>, <<Sub(5, V(4), C(1)), Jump>>,
         <<Join(6, 2, V(2), 4, V(3)), Return(V(6))>>>>)
LoopInLoop ==
  Code(<<<<2>>, <<6, 3>>, <<4>>, <<7, 5>>, <<4>>, <<>>, <<2>>>>,
       <<<<Jump>>, <<Join(3, 1, V(0), 7, V(8)), Join(4, 1, C(0), 7, V(5)), Branch(V(3))>>, <<Jump>>,
         <<Join(5, 3, V(4), 5, V(6)), Join(7, 3, V(3), 5, V(9)), Branch(V(7))>>,
         <<Add(6, V(5), V(1)), Sub(9, V(7), C(1)), Jump>>, <<Return(V(4))>>, <<Sub(8, V(3), C(1)), Jump>>>>)

(* A loop whose body begins with the header of another, with the inner and   *)
(* the outer edge back first.                                                *)
HeadersTouch ==
  {[Code(<<<<2>>, <<6, 3>>, <<5, 4>>, <<3>>, <<2>>, <<>>>>,
        <<<<Jump>>, <<Join(3, 1, V(0), 5, V(8)), Join(4, 1, C(0), 5, V(9)), Mov(11, V(1)), Branch(V(3))>>,
          <<Join(5, 2, V(4), 4, V(6)), Join(7, 2, V(11), 4, V(10)), Branch(V(7))>>,
          <<Add(6, V(5), C(2)), Sub(10, V(7), C(1)), Jump>>, <<Sub(8, V(3), C(1)), Mov(9, V(5)), Jump>>, <<Return(V(4))>>>>)
     EXCEPT !.order = order] : order \in {<<1, 2, 3, 4, 5, 6>>, <<1, 2, 3, 5, 4, 6>>}}

(* Two edges back to one header: of a loop in which the header is left, or   *)
(* of a loop that branches and is continued early.                           *)
SharedHeader ==
  Code(<<<<2>>, <<4, 3>>, <<2>>, <<5, 2>>, <<>>>>,
       <<<<Jump>>,
         <<Phi(V(3), <<1, 3, 4>>, <<V(0), V(5), C(0)>>), Phi(V(4), <<1, 3, 4>>, <<V(1), V(8), V(7)>>), Branch(V(3))>>,
         <<Sub(5, V(3), C(1)), Mov(8, V(4)), Jump>>, <<Sub(7, V(4), C(1)), Branch(V(4))>>, <<Return(V(4))>>>>)
Continue ==
  Code(<<<<2>>, <<6, 3>>, <<4, 5>>, <<2>>, <<2>>, <<>>>>,
       <<<<Jump>>, <<Phi(V(3), <<1, 4, 5>>, <<V(0), V(6), V(7)>>), Branch(V(3))>>, <<Branch(V(1))>>,
         <<Sub(6, V(3), C(1)), Jump>>, <<Mov(7, C(0)), Jump>>, <<Return(V(1))>>>>)

(* A function that begins with the header of its loop.                       *)
HeaderFirst == Code(<<<<3, 2>>, <<1>>, <<>>>>, <<<<Branch(V(0))>>, <<Call(2, "f", <<V(1)>>), Jump>>, <<Return(V(1))>>>>)

(* Blocks that have still to be joined, and blocks nothing leads to.         *)
Unsimplified ==
  {Code(<<<<2>>, <<>>>>, <<<<Mov(2, C(1)), Jump>>, <<Add(3, V(2), V(0)), Return(V(3))>>>>),
   Code(<<<<3>>, <<3>>, <<5, 4>>, <<>>, <<>>>>,
        <<<<Mov(2, V(1)), Jump>>, <<Jump>>, <<Branch(V(0))>>, <<Return(V(2))>>, <<Return(C(1))>>>>)}

(* What is not like the others in one thing: calls of two functions with the *)
(* same arguments, a call that passes a value twice, a phi whose parents are *)
(* turned round.                                                             *)
Odd ==
  {Code(<<<<>>>>, <<<<Call(2, "f", <<V(1), V(0)>>), Call(3, "g", <<V(1), V(0)>>), Sub(4, V(2), V(3)), Return(V(4))>>>>),
   Code(<<<<>>>>, <<<<Call(2, "f", <<V(1), V(0), V(0)>>), Return(V(2))>>>>),
   Code(<<<<2, 3>>, <<4>>, <<4>>, <<>>>>,
        <<<<Branch(V(0))>>, <<Add(3, V(1), C(1)), Jump>>, <<Sub(4, V(0), V(1)), Jump>>,
          <<Join(5, 3, V(4), 2, V(3)), Return(V(5))>>>>)}

(* All of them pass the verification, as what the passes leave does.         *)
MCFunctions ==
  {fn \in Straight \cup Diamond \cup Loop \cup HeadersTouch \cup Unsimplified \cup Odd
            \cup {Swap, BranchInLoop, LoopBehindBranch, LoopInLoop, SharedHeader, Continue, HeaderFirst} :
     Verified(fn, TRUE, Liveness(fn))}

MCInputs == {<<0, 3>>, <<1, 0>>, <<2, 5>>}
=============================================================================
