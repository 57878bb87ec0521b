------------------------------- MODULE KeyLed -------------------------------
(***************************************************************************)
(* The key demonstration of code/key: key_driver.c, a key on GPIO 27 and a *)
(* LED on GPIO 17 in one driver, and test_key.c, which lights the LED and  *)
(* shows the number of presses when the key is pressed, sleeps, and turns  *)
(* the LED off when no key was pressed for a second.  The interrupt        *)
(* handler and the poll method are those of KeyPoll; here tmp_buf, the     *)
(* count of presses, is read, so it is modelled: a char, incremented       *)
(* before the wake-up if the key is still down.                            *)
(* key_driver.c has one key; others, if any, are not touched.              *)
(***************************************************************************)
EXTENDS KeyPoll

CONSTANTS
  App,         \* the thread of test_key.c
  CharValues,  \* the values of a char: 256
  MaxPresses   \* bound for model checking: edges with the key still down

Key == 1

ASSUME KeyLedAssumption ==
  /\ Key \in Keys /\ App \in Threads
  /\ CharValues \in Nat \ {0} /\ MaxPresses \in Nat

VARIABLES
  tmp_buf,    \* the driver's count of presses
  led,        \* the output of GPIO 17: the LED is lit by a 0 from the program
  pc,         \* "off", "poll", "read" or "sleep"
  key,        \* the number shown last
  presses,    \* history: presses that the handler found
  completed,  \* history: those of them whose handler has returned
  due         \* history: completed when the event being shown was found

appVars == <<tmp_buf, led, pc, key, presses, completed, due>>
ledVars == <<keyVars, appVars>>

LedInit ==
  /\ KeyInit
  /\ tmp_buf = 0 /\ led = "off" /\ pc = "off" /\ key = 0
  /\ presses = 0 /\ completed = 0 /\ due = 0

----------------------------------------------------------------------------
(* The driver. *)

\* Mutant: the count is an int.
IncrementedInt(n) == n + 1

Incremented(n) == (n + 1) % CharValues

\* The handler finds the key down, counts it and wakes the pollers.
Press ==
  /\ pc # "off"
  /\ presses < MaxPresses
  /\ IsrWake(Key)
  /\ tmp_buf' = Incremented(tmp_buf)
  /\ presses' = presses + 1
  /\ UNCHANGED <<led, pc, key, completed, due>>

\* The key is up again when the handler looks: not counted, but an event.
Bounce == pc # "off" /\ IsrWake(Key) /\ UNCHANGED appVars

CountPress ==
  /\ IsrCount(Key)
  /\ completed' = presses
  /\ UNCHANGED <<tmp_buf, led, pc, key, presses, due>>

\* 0 sets GPIO 17, anything else clears it.
KeyWrite(led_onoff) == led' = IF led_onoff = 0 THEN "on" ELSE "off"

----------------------------------------------------------------------------
(* The program. *)

Launch ==
  /\ pc = "off"
  /\ pc' = "poll" /\ key' = 0
  /\ UNCHANGED <<keyVars, tmp_buf, led, presses, completed, due>>

Wait == pc = "poll" /\ PollEnter(App, <<Key>>) /\ UNCHANGED appVars

LedPoll ==
  /\ PollStep(App)
  /\ due' = IF call'[App].ready # call[App].ready THEN completed ELSE due
  /\ UNCHANGED <<tmp_buf, led, pc, key, presses, completed>>

\* Mutant: a poll without an event changes nothing.
NoEventIgnored ==
  /\ pc = "poll"
  /\ call[App].ready = {}
  /\ PollReturn(App)
  /\ UNCHANGED appVars

\* retval == 0.
NoEvent ==
  /\ pc = "poll"
  /\ call[App].ready = {}
  /\ PollReturn(App)
  /\ KeyWrite(1)
  /\ UNCHANGED <<tmp_buf, pc, key, presses, completed, due>>

\* revents & POLLIN.
Event ==
  /\ pc = "poll"
  /\ Key \in call[App].ready
  /\ PollReturn(App)
  /\ KeyWrite(0)
  /\ pc' = "read"
  /\ UNCHANGED <<tmp_buf, key, presses, completed, due>>

\* Mutant: key_read gives the count and starts it anew.
ReadResets ==
  /\ pc = "read"
  /\ key' = tmp_buf
  /\ tmp_buf' = 0
  /\ pc' = "sleep"
  /\ UNCHANGED <<keyVars, led, presses, completed, due>>

Read ==
  /\ pc = "read"
  /\ key' = tmp_buf
  /\ pc' = "sleep"
  /\ UNCHANGED <<keyVars, tmp_buf, led, presses, completed, due>>

\* sleep(2) is over.
Wake ==
  /\ pc = "sleep"
  /\ pc' = "poll"
  /\ UNCHANGED <<keyVars, tmp_buf, led, key, presses, completed, due>>

\* exit(0) after a failed poll, or a signal: the LED stays as it is.
Gone ==
  /\ pc # "off"
  /\ isr[Key] = "idle"
  /\ call[App].phase \notin {"test", "clear"}
  /\ call' = [call EXCEPT ![App] = NotPolling]
  /\ pc' = "off"
  /\ UNCHANGED <<eventFlag, isr, tmp_buf, led, key, presses, completed, due>>

Program == Wait \/ LedPoll \/ NoEvent \/ Event \/ Read \/ Wake

LedNext == Press \/ Bounce \/ CountPress \/ Launch \/ Program \/ Gone

LedSpec == LedInit /\ [][LedNext]_ledVars

\* The handler returns, the program is scheduled, and its timeout is a point
\* in time that bouncing keys do not put off.
LedFairness ==
  /\ WF_ledVars(CountPress) /\ WF_ledVars(Program)
  /\ SF_ledVars(LedPoll /\ PollTimeout(App))

LedFairSpec == LedSpec /\ LedFairness

----------------------------------------------------------------------------
\* The values each variable takes; the counts shown and kept are chars.
LedTypeOK ==
  /\ KeyTypeOK
  /\ tmp_buf \in 0 .. CharValues - 1 /\ key \in 0 .. CharValues - 1
  /\ led \in {"on", "off"}
  /\ pc \in {"off", "poll", "read", "sleep"}
  /\ presses \in Nat /\ completed \in Nat /\ due \in Nat

\* The number shown for an event counts every press whose handler had returned
\* when the event was found, and no press that did not happen, modulo the size
\* of a char (code/key/key_driver.c:34-38, 48; test_key.c:47-54).
ShownCountIsCurrent ==
  pc = "sleep" => \E n \in due .. presses : key = n % CharValues

\* A press that the program is not about to overwrite is shown, also one that
\* came while it slept for two seconds.
VisiblePressIsShown ==
  Visible(Key) ~> pc \in {"sleep", "off"}

\* Once the key is left alone the LED goes off and stays off, unless the
\* program has ended with the LED lit.
LedGoesOff ==
  <>[](isr[Key] = "idle") => <>[](led = "off" \/ pc = "off") \/ []<>(pc = "off")
=============================================================================
