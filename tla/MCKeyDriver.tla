---------------------------- MODULE MCKeyDriver ----------------------------
(***************************************************************************)
(* Two threads and two keys: the first thread polls both keys as the menu  *)
(* of test_mac.c does, the second only key 2 as its sensor threads do.     *)
(***************************************************************************)
EXTENDS KeyDriver, TLC

CONSTANTS t1, t2

MCThreads == {t1, t2}
MCWatch == (t1 :> <<1, 2>>) @@ (t2 :> <<2>>)
=============================================================================
