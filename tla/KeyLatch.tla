------------------------------ MODULE KeyLatch ------------------------------
(***************************************************************************)
(* What a key driver promises to the threads that poll it: an event is     *)
(* reported to a thread only if an interrupt raised it, and no interrupt   *)
(* is reported twice to the same thread.  Several interrupts may be        *)
(* reported as one, and an interrupt may never be reported at all.         *)
(***************************************************************************)
EXTENDS Naturals

CONSTANTS Keys, Threads

VARIABLES
  raised,   \* raised[k]: interrupts of key k that were counted
  reports   \* reports[t][k]: POLLIN events of key k that thread t received

latchVars == <<raised, reports>>

Init ==
  /\ raised = [k \in Keys |-> 0]
  /\ reports = [t \in Threads |-> [k \in Keys |-> 0]]

Raise(k) ==
  /\ raised' = [raised EXCEPT ![k] = @ + 1]
  /\ UNCHANGED reports

Report(t, ready) ==
  /\ \A k \in ready : reports[t][k] < raised[k]
  /\ reports' = [reports EXCEPT ![t] =
                   [k \in Keys |-> IF k \in ready THEN @[k] + 1 ELSE @[k]]]
  /\ UNCHANGED raised

Next ==
  \/ \E k \in Keys : Raise(k)
  \/ \E t \in Threads : \E ready \in SUBSET Keys : Report(t, ready)

Spec == Init /\ [][Next]_latchVars
=============================================================================
