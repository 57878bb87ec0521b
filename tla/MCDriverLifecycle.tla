--------------------------- MODULE MCDriverLifecycle ---------------------------
(***************************************************************************)
(* Three processes: two that open at the same time and one that releases.  *)
(***************************************************************************)
EXTENDS DriverLifecycle, TLC

CONSTANTS p1, p2, p3

MCProcs == {p1, p2, p3}
Symmetry == Permutations(MCProcs)
=============================================================================
