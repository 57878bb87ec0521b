--------------------------- MODULE MCCoinMachine ---------------------------
(***************************************************************************)
(* The machine with two sensor threads.  They and the main thread are in   *)
(* different programs of calls, so only the sensors are symmetric.         *)
(***************************************************************************)
EXTENDS CoinMachine, TLC

CONSTANTS m, s1, s2

MCSensors == {s1, s2}
MCThreads == {m, s1, s2}
Symmetry == Permutations(MCSensors)
=============================================================================
