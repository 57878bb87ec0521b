------------------------------ MODULE MCKeyLed ------------------------------
(***************************************************************************)
(* A char of three values, so that the count of presses wraps around.      *)
(***************************************************************************)
EXTENDS KeyLed

CONSTANT app

MCThreads == {app}
=============================================================================
