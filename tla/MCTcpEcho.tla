----------------------------- MODULE MCTcpEcho -----------------------------
(***************************************************************************)
(* Three lines of one to three bytes: a reply of three bytes comes in up   *)
(* to three parts, and the server's buffer holds more than a line.         *)
(***************************************************************************)
EXTENDS TcpEcho
=============================================================================
