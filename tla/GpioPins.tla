------------------------------ MODULE GpioPins ------------------------------
(***************************************************************************)
(* The function select registers of the GPIO controller, which all drivers *)
(* of receive/ share.  A register holds the functions of ten pins in one   *)
(* word, and the open method of a driver changes the bits of its pins by   *)
(* reading the word, modifying it and writing it back, twice per pin and   *)
(* without a lock.  main opens the keys, the motor and the dot matrix; then *)
(* three threads open the sensors at the same time.                        *)
(*                                                                         *)
(* Load and store of a word are steps of their own.  An open that fails,   *)
(* because the device is in use or ioremap fails, touches no pin; no       *)
(* release resets one.  The edge detect bits that key_open also sets are   *)
(* left out: request_irq sets them for the line it is given.               *)
(***************************************************************************)
EXTENDS Integers, Sequences

CONSTANT Boots   \* the functions the pins may have when the system has booted

Pins == 0 .. 29
Functions == 0 .. 7
Input == 0
Output == 1

ASSUME BootsAssumption == Boots \subseteq [Pins -> Functions]

\* GPFSEL0 to GPFSEL2.
Register(pin) == pin \div 10

\* What the open method of each driver does to which pins.
key_driver   == [pins |-> <<2>>,  bits |-> Input]
key_driver2  == [pins |-> <<3>>,  bits |-> Input]
key_driver3  == [pins |-> <<4>>,  bits |-> Input]
key_driver4  == [pins |-> <<6>>,  bits |-> Input]
mot_driver   == [pins |-> <<9>>,  bits |-> Output]
dot_driver   == [pins |-> [i \in 1 .. 16 |-> IF i <= 8 THEN 9 + i ELSE 11 + i],
                 bits |-> Output]
sens_driver  == [pins |-> <<18>>, bits |-> Input]
sens_driver2 == [pins |-> <<7>>,  bits |-> Input]
sens_driver3 == [pins |-> <<8>>,  bits |-> Input]

KeyDrivers == <<key_driver, key_driver2, key_driver3, key_driver4>>
MainDrivers == KeyDrivers \o <<mot_driver, dot_driver>>
SensorDrivers == <<sens_driver, sens_driver2, sens_driver3>>

Keys == {KeyDrivers[i] : i \in 1 .. 4}
Drivers == {MainDrivers[i] : i \in 1 .. 6} \cup {SensorDrivers[i] : i \in 1 .. 3}

Main == 0
Sensors == 1 .. 3
Threads == {Main} \cup Sensors

VARIABLES
  function,   \* function[p]: what the registers say of pin p
  todo,       \* todo[t]: the drivers thread t has still to open
  updates,    \* updates[t]: the updates of a word left in the open under way
  word,       \* word[t]: what thread t loaded, and has not stored yet
  opened,     \* the drivers the process opened, the one under way included
  spawned     \* the sensor threads were created

vars == <<function, todo, updates, word, opened, spawned>>

NothingLoaded == [p \in {} |-> Input]

Init ==
  /\ function \in Boots
  /\ todo = [t \in Threads |-> IF t = Main THEN MainDrivers ELSE <<>>]
  /\ updates = [t \in Threads |-> <<>>]
  /\ word = [t \in Threads |-> NothingLoaded]
  /\ opened = {}
  /\ spawned = FALSE

----------------------------------------------------------------------------
\* Mutant: |= without the &= ~0x7 before it.
UpdatesUncleared(driver) ==
  [i \in 1 .. Len(driver.pins) |->
     [pin |-> driver.pins[i], clear |-> FALSE, bits |-> driver.bits]]

\* &= ~0x7 and |= for each pin in turn.
Updates(driver) ==
  [i \in 1 .. 2 * Len(driver.pins) |->
     [pin |-> driver.pins[(i + 1) \div 2], clear |-> i % 2 = 1, bits |-> driver.bits]]

OrBits(f, bits) == IF bits = Output /\ f % 2 = 0 THEN f + 1 ELSE f

Modified(f, update) == IF update.clear THEN 0 ELSE OrBits(f, update.bits)

Idle(t) == todo[t] = <<>> /\ updates[t] = <<>>

AllKeysOpen == Keys \subseteq opened

\* Only the keys are checked, once all four opens have been tried.
Open(t) ==
  /\ updates[t] = <<>>
  /\ todo[t] # <<>>
  /\ Head(todo[t]) \in Keys \/ AllKeysOpen
  /\ todo' = [todo EXCEPT ![t] = Tail(@)]
  /\ updates' = [updates EXCEPT ![t] = Updates(Head(todo[t]))]
  /\ opened' = opened \cup {Head(todo[t])}
  /\ UNCHANGED <<function, word, spawned>>

OpenFails(t) ==
  /\ updates[t] = <<>>
  /\ todo[t] # <<>>
  /\ todo' = [todo EXCEPT ![t] = Tail(@)]
  /\ UNCHANGED <<function, updates, word, opened, spawned>>

Load(t) ==
  /\ updates[t] # <<>>
  /\ word[t] = NothingLoaded
  /\ word' = [word EXCEPT ![t] =
                [p \in {q \in Pins : Register(q) = Register(updates[t][1].pin)} |->
                   function[p]]]
  /\ UNCHANGED <<function, todo, updates, opened, spawned>>

\* Mutant: the word is kept for the next update.
StoreKeepsWord(t) ==
  LET update == Head(updates[t]) IN
  /\ word[t] # NothingLoaded
  /\ updates[t] # <<>>
  /\ function' = [p \in Pins |->
                    IF p = update.pin THEN Modified(word[t][p], update)
                    ELSE IF p \in DOMAIN word[t] THEN word[t][p] ELSE function[p]]
  /\ updates' = [updates EXCEPT ![t] = Tail(@)]
  /\ UNCHANGED <<todo, word, opened, spawned>>

Store(t) ==
  LET update == Head(updates[t]) IN
  /\ word[t] # NothingLoaded
  /\ function' = [p \in Pins |->
                    IF p = update.pin THEN Modified(word[t][p], update)
                    ELSE IF p \in DOMAIN word[t] THEN word[t][p] ELSE function[p]]
  /\ word' = [word EXCEPT ![t] = NothingLoaded]
  /\ updates' = [updates EXCEPT ![t] = Tail(@)]
  /\ UNCHANGED <<todo, opened, spawned>>

StartSensors ==
  /\ ~spawned
  /\ spawned' = TRUE
  /\ todo' = [t \in Threads |-> IF t = Main THEN todo[Main] ELSE <<SensorDrivers[t]>>]
  /\ UNCHANGED <<function, updates, word, opened>>

\* Mutant: the threads are created before the motor and the dot matrix are open.
SpawnAfterKeys == AllKeysOpen /\ StartSensors

\* pthread_create, three times, after the last open of main.
Spawn == AllKeysOpen /\ Idle(Main) /\ StartSensors

\* The process exits or is killed, not inside an open, and is started again.
Relaunch ==
  /\ \A t \in Threads : updates[t] = <<>>
  /\ todo' = [t \in Threads |-> IF t = Main THEN MainDrivers ELSE <<>>]
  /\ opened' = {}
  /\ spawned' = FALSE
  /\ UNCHANGED <<function, updates, word>>

Next ==
  \/ \E t \in Threads : Open(t) \/ OpenFails(t) \/ Load(t) \/ Store(t)
  \/ Spawn \/ Relaunch

Spec == Init /\ [][Next]_vars

----------------------------------------------------------------------------
\* The values each variable takes; a word is held only inside an update.
TypeOK ==
  /\ function \in [Pins -> Functions]
  /\ \A t \in Threads :
       /\ \A i \in DOMAIN todo[t] : todo[t][i] \in Drivers
       /\ \A i \in DOMAIN updates[t] : updates[t][i].pin \in Pins
       /\ word[t] # NothingLoaded => updates[t] # <<>>
  /\ opened \subseteq Drivers
  /\ spawned \in BOOLEAN

Configured(driver) ==
  \A i \in DOMAIN driver.pins : function[driver.pins[i]] = driver.bits

\* The pins of the keys, the motor and the dot matrix keep the function their
\* open gave them while three threads write back whole words that hold them:
\* main has opened its devices before it creates the threads
\* (test_mac.c:70-73, 112-123, 585, 621, 658; mot_driver.c:35-36).
MainPinsConfigured ==
  spawned => \A d \in opened \cap {MainDrivers[i] : i \in 1 .. 6} : Configured(d)

\* The opens of sensors 2 and 3 update the same word at the same time.  Each
\* can undo what the other did to its pin, but not both: a pin whose function
\* at boot was another one is left behind by one of them at most
\* (sens_driver2.c:47-48, sens_driver3.c:47-48).
OneSensorSurvives ==
  /\ spawned
  /\ \A t \in Sensors : Idle(t)
  /\ {sens_driver2, sens_driver3} \subseteq opened
  => Configured(sens_driver2) \/ Configured(sens_driver3)
=============================================================================
