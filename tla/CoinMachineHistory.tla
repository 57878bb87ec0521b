------------------------ MODULE CoinMachineHistory ------------------------
(***************************************************************************)
(* The coin machine with history variables that relate what it does to the *)
(* presses of the keys.  They record steps of CoinMachine and constrain    *)
(* nothing.                                                                *)
(***************************************************************************)
EXTENDS CoinMachine, Integers

CONSTANT MaxCredit   \* credit is not counted beyond this

\* Two: an event that a thread holds, and one in the flag.
ASSUME MaxCreditAssumption == MaxCredit \in Nat \ {0, 1}

VARIABLES
  credit,   \* credit[k]: interrupts of key k that nothing was done for yet
  pressed   \* key 1 had an edge since the program began to wait for it

historyVars == <<vars, credit, pressed>>

HistoryInit ==
  /\ Init
  /\ credit = [k \in Keys |-> 0]
  /\ pressed = FALSE

----------------------------------------------------------------------------
(* What a step is, seen from outside. *)

Interrupts(k) == isr[k] = "idle" /\ isr'[k] = "count"
Raises(k)     == isr[k] = "count" /\ isr'[k] = "idle"

Starts    == mac_state = 0 /\ mac_state' = 1
Stops     == mac_state = 1 /\ mac_state' = 2
TurnsOff  == mainPc = "menu" /\ mainPc' = "exit"
Shows(k)  == /\ mainPc = "menu"
             /\ k \in call[Main].ready \ call'[Main].ready
             /\ call'[Main].phase = "done"

ActsOn(k) ==
  \/ k = Key1 /\ (Starts \/ TurnsOff)
  \/ k = Key2 /\ Stops
  \/ Shows(k)

\* To count no further than MaxCredit only makes the credit smaller.
HistoryNext ==
  /\ Next
  /\ credit' = [k \in Keys |->
                  LET granted == IF Raises(k) /\ credit[k] < MaxCredit THEN 1 ELSE 0
                      used    == IF ActsOn(k) THEN 1 ELSE 0
                  IN  credit[k] + granted - used]
  /\ pressed' = (mainPc = "prepare" /\ mainPc' = "prepare" /\ (pressed \/ Interrupts(Key1)))

HistorySpec == HistoryInit /\ [][HistoryNext]_historyVars

----------------------------------------------------------------------------
\* No interrupt makes the program act twice: three sensor threads and the
\* menu poll key 2 without a lock, and the flags outlive the process, yet
\* the press that stops the counting does not also open a report, nor does
\* the press that ended a session start the next one (key_driver.c:43-54,
\* test_mac.c:103, 152-185, 598).
OnePressOneAction ==
  \A k \in Keys : credit[k] >= 0

\* What the project's README says: the machine waits until key 1 is pressed.
\* The code starts it on a flag that an earlier session left in the driver.
MachineWaitsForKey1 ==
  [][Starts => pressed]_historyVars
=============================================================================
