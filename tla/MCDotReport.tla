---------------------------- MODULE MCDotReport ----------------------------
(***************************************************************************)
(* Counts with one, two and three digits, on both sides of each power of   *)
(* ten, with a 0 inside and at the end.                                    *)
(***************************************************************************)
EXTENDS DotReport

MCCounts == {0, 1, 9, 10, 99, 100, 205}
=============================================================================
