---------------------------- MODULE ModuleBuild ----------------------------
(* What a build of a program made of several modules promises, whatever      *)
(* order the driver chooses: a module is built only on top of what it        *)
(* imports, success means that every module was built, and a failed build    *)
(* stays failed.  TeaFrontend implements this specification.                 *)
EXTENDS Sequences, Functions

CONSTANTS
  Modules,     \* names of the modules given on the command line
  Projects     \* the import maps considered: module -> sequence of names

VARIABLES
  imports,     \* the import map of this build
  built,       \* modules whose compilation has finished
  verdict      \* "building", or how the build ended

vars == <<imports, built, verdict>>

Init ==
  /\ imports \in Projects
  /\ built = {}
  /\ verdict = "building"

(* A module is built once, after everything it imports. *)
Build(m) ==
  /\ verdict = "building"
  /\ m \notin built
  /\ Range(imports[m]) \subseteq built
  /\ built' = built \cup {m}
  /\ UNCHANGED <<imports, verdict>>

(* The whole program is emitted. *)
Emit ==
  /\ verdict = "building"
  /\ built = Modules
  /\ verdict' = "program"
  /\ UNCHANGED <<imports, built>>

(* Only the syntax trees were asked for: nothing is built. *)
EmitTrees ==
  /\ verdict = "building"
  /\ built = {}
  /\ verdict' = "trees"
  /\ UNCHANGED <<imports, built>>

GiveUp ==
  /\ verdict = "building"
  /\ verdict' = "error"
  /\ UNCHANGED <<imports, built>>

Next == (\E m \in Modules : Build(m)) \/ Emit \/ EmitTrees \/ GiveUp

Spec == Init /\ [][Next]_vars
=============================================================================
