---------------------------- MODULE CoinSession ----------------------------
(***************************************************************************)
(* What a session of the coin machine promises, without its keys, its poll *)
(* calls and its thread life: counting is stopped once, from then on no    *)
(* sensor looks for a coin again, each look that was under way adds one    *)
(* coin at most, and the menu opens only when all of them have ended.  So  *)
(* what the menu reports is final.                                         *)
(***************************************************************************)
EXTENDS Naturals

CONSTANT Sensors

VARIABLES
  phase,   \* of the session: idle, counting, stopping or menu
  counts,  \* the coins of each sensor
  busy     \* the sensors that began a look and did not add its result yet

vars == <<phase, counts, busy>>

NoCoins == [s \in Sensors |-> 0]

Init ==
  /\ phase = "idle"
  /\ counts = NoCoins
  /\ busy = {}

Move(from, to) == phase = from /\ phase' = to /\ UNCHANGED <<counts, busy>>

Start == Move("idle", "counting")
Stop == Move("counting", "stopping")
Finish == busy = {} /\ Move("stopping", "menu")

Look(s) ==
  /\ phase = "counting"
  /\ s \notin busy
  /\ busy' = busy \cup {s}
  /\ UNCHANGED <<phase, counts>>

\* The look has found a coin, or none.
Add(s) ==
  /\ s \in busy
  /\ busy' = busy \ {s}
  /\ \E coin \in {0, 1} : counts' = [counts EXCEPT ![s] = counts[s] + coin]
  /\ UNCHANGED phase

\* The program ends, or is killed at any time.
Leave ==
  /\ phase' = "idle"
  /\ counts' = NoCoins
  /\ busy' = {}

Next ==
  \/ Start \/ Stop \/ Finish \/ Leave
  \/ \E s \in Sensors : Look(s) \/ Add(s)

Spec == Init /\ [][Next]_vars
=============================================================================
