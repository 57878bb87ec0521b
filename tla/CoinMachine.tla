---------------------------- MODULE CoinMachine ----------------------------
(***************************************************************************)
(* The coin sorting machine of receive/: the program test_mac.c, its main  *)
(* thread and its three sensor threads, over the key drivers of KeyPoll    *)
(* and the motor driver.                                                   *)
(*                                                                         *)
(* Key 1 starts the motor and the sensor threads, key 2 ends the counting, *)
(* then the menu shows a report for each of keys 2, 3 and 4 until key 1    *)
(* ends the program.  The drivers stay loaded when the program ends, so    *)
(* their flags and the state of the motor pin outlive it.                  *)
(*                                                                         *)
(* mac_state and the counters are plain ints shared by the threads.  The   *)
(* Makefile builds without optimisation, so each access is one load or     *)
(* store of a word, and each is in an action of its own.                   *)
(***************************************************************************)
EXTENDS KeyPoll, FiniteSets

CONSTANTS
  Main,      \* the main thread
  Sensors,   \* the sensor threads: 500, 100 and 50 won in test_mac.c
  MaxCoins   \* bound for model checking: coins a thread counts in a session

ASSUME MachineAssumption ==
  /\ Threads = {Main} \cup Sensors
  /\ Main \notin Sensors
  /\ Sensors # {}
  /\ NKeys >= 2
  /\ MaxCoins \in Nat

Key1 == 1
Key2 == 2
MenuFds == [i \in 1 .. NKeys |-> i]   \* key2_ev: all keys, in order

VARIABLES
  mac_state,  \* 0 before key 1, 1 while counting, 2 in the menu
  EA,         \* EA[s]: the coins thread s counted (EA500, EA100, EA50)
  mainPc,     \* where main stands; "off" when no process runs
  sensPc,     \* where the sensor threads stand
  sample,     \* sample[s]: the sensor level thread s read (sens_value)
  motor,      \* the output of GPIO 9
  motFd,      \* open of the motor device succeeded
  dotFd       \* open of the dot matrix device succeeded

appVars == <<mac_state, EA, mainPc, sensPc, sample, motor, motFd, dotFd>>
vars == <<keyVars, appVars>>

----------------------------------------------------------------------------
(* A process that does not exist has its globals at their initial values. *)

NoProcess ==
  /\ mac_state' = 0
  /\ EA' = [s \in Sensors |-> 0]
  /\ sample' = [s \in Sensors |-> 0]
  /\ sensPc' = [s \in Sensors |-> "none"]
  /\ motFd' = FALSE
  /\ dotFd' = FALSE

Init ==
  /\ KeyInit
  /\ mac_state = 0
  /\ EA = [s \in Sensors |-> 0]
  /\ sample = [s \in Sensors |-> 0]
  /\ sensPc = [s \in Sensors |-> "none"]
  /\ mainPc = "off"
  /\ motor = "off"
  /\ motFd = FALSE
  /\ dotFd = FALSE

\* The kernel closes what the process had open.  No thread dies inside a
\* driver's poll method, and free_irq waits for a running handler.
ProcessGone ==
  /\ \A t \in Threads : call[t].phase \notin {"test", "clear"}
  /\ \A k \in Keys : isr[k] = "idle"
  /\ call' = [t \in Threads |-> NotPolling]
  /\ mainPc' = "off"
  /\ NoProcess
  /\ UNCHANGED <<eventFlag, isr, motor>>

\* A falling edge on a key line.  The line has a handler only while the key
\* is open; bounces of a key are edges like any other.
Edge(k) ==
  /\ mainPc # "off"
  /\ IsrWake(k)
  /\ UNCHANGED appVars

Count(k) == IsrCount(k) /\ UNCHANGED appVars

Poll(t) == PollStep(t) /\ UNCHANGED appVars

Timeout(t) == PollTimeout(t) /\ UNCHANGED appVars

----------------------------------------------------------------------------
(* The main thread. *)

\* ./test_mac opens the four keys.  When an open fails main returns -1 at
\* once, which changes nothing here.
Launch ==
  /\ mainPc = "off"
  /\ mainPc' = "prepare"
  /\ UNCHANGED <<keyVars, mac_state, EA, sensPc, sample, motor, motFd, dotFd>>

PreparePoll ==
  /\ mainPc = "prepare"
  /\ PollEnter(Main, <<Key1>>)
  /\ UNCHANGED appVars

PrepareReturn ==
  /\ mainPc = "prepare"
  /\ PollReturn(Main)
  /\ IF Key1 \in call[Main].ready
     THEN mac_state' = 1 /\ mainPc' = "open"
     ELSE UNCHANGED <<mac_state, mainPc>>
  /\ UNCHANGED <<EA, sensPc, sample, motor, motFd, dotFd>>

\* Neither open is checked here.
OpenDevices ==
  /\ mainPc = "open"
  /\ motFd' \in BOOLEAN
  /\ dotFd' \in BOOLEAN
  /\ mainPc' = "spawn"
  /\ UNCHANGED <<keyVars, mac_state, EA, sensPc, sample, motor>>

\* while (mac_state == 1): the three pthread_create calls.
Spawn ==
  /\ mainPc = "spawn"
  /\ mac_state = 1
  /\ sensPc' = [s \in Sensors |-> "head"]
  /\ mainPc' = "motorOn"
  /\ UNCHANGED <<keyVars, mac_state, EA, sample, motor, motFd, dotFd>>

\* The pin is set or cleared; without a device the write fails.
motor_write(mot_data) ==
  motor' = IF ~motFd THEN motor ELSE IF mot_data = 1 THEN "on" ELSE "off"

MotorOn ==
  /\ mainPc = "motorOn"
  /\ motor_write(1)
  /\ mainPc' = "join"
  /\ UNCHANGED <<keyVars, mac_state, EA, sensPc, sample, motFd, dotFd>>

\* Mutant: main joins only the thread that ends first.
JoinFirst ==
  /\ mainPc = "join"
  /\ \E s \in Sensors : /\ sensPc[s] = "exited"
                        /\ sensPc' = [sensPc EXCEPT ![s] = "none"]
  /\ mainPc' = "spawn"
  /\ UNCHANGED <<keyVars, mac_state, EA, sample, motor, motFd, dotFd>>

\* The three pthread_join calls, then the loop condition again.
Join ==
  /\ mainPc = "join"
  /\ \A s \in Sensors : sensPc[s] = "exited"
  /\ sensPc' = [s \in Sensors |-> "none"]
  /\ mainPc' = "spawn"
  /\ UNCHANGED <<keyVars, mac_state, EA, sample, motor, motFd, dotFd>>

\* Mutant: the motor is not written to after the loop.
MotorOffForgotten ==
  /\ mainPc = "spawn"
  /\ mac_state # 1
  /\ mainPc' = IF dotFd THEN "menu" ELSE "exit"
  /\ UNCHANGED <<keyVars, mac_state, EA, sensPc, sample, motor, motFd, dotFd>>

\* The loop has ended: motor off.  Only now is dot_fd checked.
MotorOff ==
  /\ mainPc = "spawn"
  /\ mac_state # 1
  /\ motor_write(0)
  /\ mainPc' = IF dotFd THEN "menu" ELSE "exit"
  /\ UNCHANGED <<keyVars, mac_state, EA, sensPc, sample, motFd, dotFd>>

MenuPoll ==
  /\ mainPc = "menu"
  /\ mac_state = 2
  /\ PollEnter(Main, MenuFds)
  /\ UNCHANGED appVars

\* Key 1 is looked at first, and ends the loop whatever else is ready.
MenuOff ==
  /\ mainPc = "menu"
  /\ Key1 \in call[Main].ready
  /\ PollReturn(Main)
  /\ mainPc' = "exit"
  /\ UNCHANGED <<mac_state, EA, sensPc, sample, motor, motFd, dotFd>>

\* The report of key k scrolls over the dot matrix; then the next key of
\* revents is looked at.
MenuShow(k) ==
  /\ mainPc = "menu"
  /\ call[Main].phase = "done"
  /\ Key1 \notin call[Main].ready
  /\ k \in call[Main].ready
  /\ \A j \in call[Main].ready : k <= j
  /\ call' = [call EXCEPT ![Main].ready = @ \ {k}]
  /\ UNCHANGED <<eventFlag, isr, appVars>>

MenuNext ==
  /\ mainPc = "menu"
  /\ call[Main].ready = {}
  /\ PollReturn(Main)
  /\ UNCHANGED appVars

\* poll(2) itself fails in the preparation or in the menu: exit(0).
PollError ==
  /\ mainPc \in {"prepare", "menu"}
  /\ call[Main].phase = "idle"
  /\ ProcessGone

Exit == mainPc = "exit" /\ ProcessGone

----------------------------------------------------------------------------
(* A sensor thread.  The flag fir is 0 at every test of it, because the    *)
(* iteration that sets it also clears it, so it is left out; the six reads *)
(* that follow a coin only take time, which CoinSensor models.             *)

\* Mutant: the loop tests mac_state for any state but 0.
SensorHeadWhileOn(s) ==
  /\ sensPc[s] = "head"
  /\ sensPc' = [sensPc EXCEPT ![s] = IF mac_state # 0 THEN "read" ELSE "exited"]
  /\ UNCHANGED <<keyVars, mac_state, EA, mainPc, sample, motor, motFd, dotFd>>

SensorHead(s) ==
  /\ sensPc[s] = "head"
  /\ sensPc' = [sensPc EXCEPT ![s] = IF mac_state = 1 THEN "read" ELSE "exited"]
  /\ UNCHANGED <<keyVars, mac_state, EA, mainPc, sample, motor, motFd, dotFd>>

\* read(2) of the sensor, then poll(2) of key 2.  Either level may be read, also
\* when the sensor could not be opened and sens_value is what the stack held.
SensorRead(s) ==
  /\ sensPc[s] = "read"
  /\ \E level \in {0, 1} :
       /\ level = 1 => EA[s] < MaxCoins
       /\ sample' = [sample EXCEPT ![s] = level]
  /\ PollEnter(s, <<Key2>>)
  /\ sensPc' = [sensPc EXCEPT ![s] = "poll"]
  /\ UNCHANGED <<mac_state, EA, mainPc, motor, motFd, dotFd>>

SensorCount(s) ==
  /\ sensPc[s] = "poll"
  /\ call[s].phase = "done"
  /\ EA' = [EA EXCEPT ![s] = @ + sample[s]]
  /\ sensPc' = [sensPc EXCEPT ![s] = "decide"]
  /\ UNCHANGED <<keyVars, mac_state, mainPc, sample, motor, motFd, dotFd>>

\* Mutant: every thread that saw key 2 moves the machine one state on.
SensorDecideIncrements(s) ==
  /\ sensPc[s] = "decide"
  /\ PollReturn(s)
  /\ mac_state' = IF Key2 \in call[s].ready THEN mac_state + 1 ELSE mac_state
  /\ sample' = [sample EXCEPT ![s] = 0]
  /\ sensPc' = [sensPc EXCEPT ![s] = "head"]
  /\ UNCHANGED <<EA, mainPc, motor, motFd, dotFd>>

\* Mutant: the thread that saw key 2 ends its own loop only.
SensorDecideBreaks(s) ==
  /\ sensPc[s] = "decide"
  /\ PollReturn(s)
  /\ sample' = [sample EXCEPT ![s] = 0]
  /\ sensPc' = [sensPc EXCEPT ![s] = IF Key2 \in call[s].ready THEN "exited" ELSE "head"]
  /\ UNCHANGED <<mac_state, EA, mainPc, motor, motFd, dotFd>>

\* Only after the coin: was key 2 pressed?  The sample is not used again: it is
\* forgotten here, and the next iteration reads it anew.
SensorDecide(s) ==
  /\ sensPc[s] = "decide"
  /\ PollReturn(s)
  /\ mac_state' = IF Key2 \in call[s].ready THEN 2 ELSE mac_state
  /\ sample' = [sample EXCEPT ![s] = 0]
  /\ sensPc' = [sensPc EXCEPT ![s] = "head"]
  /\ UNCHANGED <<EA, mainPc, motor, motFd, dotFd>>

----------------------------------------------------------------------------
\* The process is killed, by a signal for instance.
Kill == mainPc # "off" /\ ProcessGone

MainStep ==
  \/ PreparePoll \/ PrepareReturn \/ OpenDevices \/ Spawn \/ MotorOn \/ Join
  \/ MotorOff \/ MenuPoll \/ MenuOff \/ (\E k \in Keys : MenuShow(k))
  \/ MenuNext \/ Exit \/ Poll(Main)

SensorStep(s) ==
  SensorHead(s) \/ SensorRead(s) \/ SensorCount(s) \/ SensorDecide(s) \/ Poll(s)

Next ==
  \/ \E k \in Keys : Edge(k) \/ Count(k)
  \/ Launch \/ MainStep \/ PollError \/ Kill
  \/ \E s \in Sensors : SensorStep(s)

Spec == Init /\ [][Next]_vars

\* Threads of a live process are scheduled and handlers complete; nobody has
\* to launch the program, press a key or kill it.  The timeout of poll(2) is
\* a point in time, so wake-ups that find nothing do not put it off for ever.
Fairness ==
  /\ \A k \in Keys : WF_vars(Count(k))
  /\ WF_vars(MainStep)
  /\ \A s \in Sensors : WF_vars(SensorStep(s)) /\ SF_vars(Timeout(s))

FairSpec == Spec /\ Fairness

----------------------------------------------------------------------------
\* The values each variable takes; mac_state only ever becomes 0, 1 or 2, although
\* every sensor thread writes to it (test_mac.c:107, 604, 640, 677).
TypeOK ==
  /\ KeyTypeOK
  /\ mac_state \in 0 .. 2
  /\ EA \in [Sensors -> Nat]
  /\ mainPc \in {"off", "prepare", "open", "spawn", "motorOn", "join", "menu", "exit"}
  /\ sensPc \in [Sensors -> {"none", "head", "read", "poll", "decide", "exited"}]
  /\ sample \in [Sensors -> {0, 1}]
  /\ motor \in {"on", "off"}
  /\ motFd \in BOOLEAN
  /\ dotFd \in BOOLEAN

\* Whatever an earlier process left on the pin, a motor device that could be
\* opened is off once the counting has ended (test_mac.c:131-132).
MotorOffInMenu ==
  mainPc \in {"menu", "exit"} /\ motFd => motor = "off"

\* The phase of the session, and the sensor threads that have passed the test of
\* mac_state and not added their sample yet.
SessionPhase ==
  IF mainPc \in {"menu", "exit"} THEN "menu"
  ELSE IF mac_state = 2 THEN "stopping"
  ELSE IF mainPc \in {"motorOn", "join"} THEN "counting"
  ELSE "idle"

Looking == {s \in Sensors : sensPc[s] \in {"read", "poll"}}

Session == INSTANCE CoinSession WITH phase <- SessionPhase, counts <- EA, busy <- Looking

\* The machine implements the session: one stop for all threads, at most the looks
\* under way counted after it, and a menu only after all have ended, whichever
\* thread saw key 2 and whatever the process was killed at (test_mac.c:120-144,
\* 573-680).
ImplementsSession == Session!Spec

\* Once mac_state is 2 the threads end and main reaches the end of the loop:
\* every thread comes back from a poll nobody answers by its timeout.
CountingEnds ==
  mac_state = 2 ~> mainPc \in {"menu", "exit", "off"}

\* A press of key 2 that no poller is about to overwrite ends the counting.
VisiblePressStopsCounting ==
  mainPc = "join" /\ mac_state = 1 /\ Visible(Key2) ~> mac_state # 1

\* What the project's README says of key 2: pressing it ends the counting.
\* The code loses a press that is counted between the test and the clearing
\* of event_flag by a sensor thread (key_driver2.c:48-51).
PressStopsCounting ==
  mac_state = 1 /\ isr[Key2] = "count" ~> mac_state # 1
=============================================================================
