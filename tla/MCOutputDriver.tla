--------------------------- MODULE MCOutputDriver ---------------------------
(***************************************************************************)
(* Three processes, two that open at the same time and one that releases,  *)
(* and displays of three rows and lines, with five digits.                 *)
(***************************************************************************)
EXTENDS OutputDriver, TLC

CONSTANTS p1, p2, p3

MCProcs == {p1, p2, p3}
Symmetry == Permutations(MCProcs)

\* Digits that share lines, with an empty and a full row.
MCnum == [d \in 0..(Base - 1) |-> [i \in Lines |-> {l \in Lines : (d + 2 * i * l + l) % 3 # 0}]]
MCfnd_values == [v \in 0..(Base + 2) |-> {l \in Lines : (v + l) % 3 # 1}]
=============================================================================
