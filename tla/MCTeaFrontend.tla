--------------------------- MODULE MCTeaFrontend ---------------------------
(* Small programs for TLC.                                                   *)
EXTENDS TeaFrontendInv, FiniteSets

CONSTANTS a, b, c, d, x

(* Every import list of at most n entries. *)
Lists(S, n) == UNION {[1..k -> S] : k \in 0..n}

ThreeNames == <<a, b, c>>
(* Three modules, each importing at most two different modules. *)
ThreeProjects ==
  [{a, b, c} -> {s \in Lists({a, b, c}, 2) : Len(s) = 2 => s[1] # s[2]}]
(* Two of them import anything: themselves, twice, or no module at all. *)
TwoProjects ==
  {p \in [{a, b, c} -> Lists({a, b, x}, 2)] : p[c] = <<>>}
SmallProjects == ThreeProjects \cup TwoProjects

FourNames == <<a, b, c, d>>
(* A diamond: d imports two of the others, b and c import a. *)
DiamondProjects ==
  {p \in [{a, b, c, d} -> Lists({a, b, c}, 2)] :
     p[a] = <<>> /\ p[b] = <<a>> /\ p[c] = <<a>> /\ Len(p[d]) = 2}
=============================================================================
