------------------------ MODULE MCCoinMachineHistory ------------------------
(***************************************************************************)
(* The machine of MCCoinMachine, with its history.                         *)
(***************************************************************************)
EXTENDS CoinMachineHistory, TLC

CONSTANTS m, s1, s2

MCSensors == {s1, s2}
MCThreads == {m, s1, s2}
Symmetry == Permutations(MCSensors)
=============================================================================
