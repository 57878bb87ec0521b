----------------------------- MODULE CoinSensor -----------------------------
(***************************************************************************)
(* One sensor thread of test_mac.c against the coins that fall past its    *)
(* sensor, in time.  sens_read waits 100 ms and then samples the pin; poll *)
(* waits 50 ms for key 2; after a coin six more reads only pass time.  A   *)
(* coin holds the pin high for a while, and the thread sees it only where  *)
(* it samples.                                                             *)
(*                                                                         *)
(* One tick is 50 ms.  mdelay and poll wait at least as long as they are   *)
(* told and, with the scheduling of the thread, at most Jitter longer.     *)
(***************************************************************************)
EXTENDS Integers

CONSTANTS
  ReadDelay,   \* mdelay(100) in sens_read: 2 ticks
  PollDelay,   \* the timeout of poll in the thread: 1 tick
  DeadReads,   \* reads after a coin: 6
  Jitter,      \* how late a wait may end
  MinDwell,    \* how long a coin is before the sensor, at least
  MaxDwell,    \* and at most
  Spacing,     \* time from one coin to the next, at least
  MaxCoins     \* bound for model checking: coins that pass

ASSUME DelayAssumption ==
  /\ ReadDelay \in Nat \ {0} /\ PollDelay \in Nat /\ DeadReads \in Nat \ {0}
  /\ Jitter \in Nat /\ MaxCoins \in Nat

\* A coin has left before the first sample after the six reads.
ASSUME DwellAssumption ==
  /\ MinDwell \in Nat \ {0} /\ MaxDwell \in Nat /\ Spacing \in Nat
  /\ MinDwell <= MaxDwell /\ MaxDwell <= Spacing
  /\ MaxDwell <= (DeadReads + 1) * ReadDelay

\* A coin stays longer than the time from one sample to the next at its longest,
\* and the next one comes no sooner than the first sample after the six reads.
ASSUME SightAssumption ==
  /\ PollDelay + Jitter + ReadDelay + Jitter < MinDwell
  /\ PollDelay + Jitter + (DeadReads + 1) * (ReadDelay + Jitter) <= Spacing

VARIABLES
  mac_state,  \* 1 while counting, 2 when a thread has seen key 2
  pc,         \* "head", "read", "poll", "dead" or "exited"
  wait,       \* ticks until the current wait ends, at the earliest
  late,       \* ticks it may still take after that
  sens_value, \* the sample of this iteration
  revents,    \* poll returned POLLIN for key 2
  j,          \* reads left after a coin
  EA,         \* coins counted
  left,       \* ticks until the coin before the sensor has passed, 0 if none
  gap,        \* ticks until the next coin may come
  hits,       \* history: samples in which the latest coin was seen, to be counted
  seen,       \* history: all such samples
  coins       \* history: coins that came

threadVars == <<mac_state, pc, wait, late, sens_value, revents, j, EA>>
coinVars   == <<left, gap, hits, seen, coins>>
vars       == <<threadVars, coinVars>>

Init ==
  /\ mac_state = 1 /\ pc = "head" /\ wait = 0 /\ late = 0
  /\ sens_value = 0 /\ revents = FALSE /\ j = 0 /\ EA = 0
  /\ left = 0 /\ gap = 0 /\ hits = 0 /\ seen = 0 /\ coins = 0

----------------------------------------------------------------------------
(* Coins and time. *)

CoinCome ==
  /\ gap = 0
  /\ coins < MaxCoins
  /\ left' \in MinDwell .. MaxDwell
  /\ gap' = Spacing
  /\ coins' = coins + 1
  /\ hits' = 0
  /\ UNCHANGED <<threadVars, seen>>

Less(n) == IF n = 0 THEN 0 ELSE n - 1

\* Time passes while the thread waits; steps of the program take none.
Tick ==
  /\ pc \in {"read", "poll", "dead"}
  /\ wait + late > 0
  /\ IF wait > 0 THEN wait' = wait - 1 /\ late' = late
                 ELSE wait' = 0 /\ late' = late - 1
  /\ left' = Less(left)
  /\ gap' = Less(gap)
  /\ UNCHANGED <<mac_state, pc, sens_value, revents, j, EA, hits, seen, coins>>

WaitFor(delay) == wait' = delay /\ late' = Jitter

----------------------------------------------------------------------------
(* The thread. *)

\* while (mac_state == 1), and the first read starts.
Head ==
  /\ pc = "head"
  /\ IF mac_state = 1 THEN pc' = "read" /\ WaitFor(ReadDelay)
                      ELSE pc' = "exited" /\ UNCHANGED <<wait, late>>
  /\ UNCHANGED <<mac_state, sens_value, revents, j, EA, coinVars>>

\* Mutant: poll is given twice the timeout.
SampleSlowPoll ==
  LET level == IF left > 0 THEN 1 ELSE 0 IN
  /\ pc = "read"
  /\ wait = 0
  /\ sens_value' = level
  /\ hits' = hits + level
  /\ seen' = seen + level
  /\ \E event \in BOOLEAN, delay \in 0 .. 2 * PollDelay :
       /\ ~event => delay = 2 * PollDelay
       /\ revents' = event
       /\ WaitFor(delay)
  /\ pc' = "poll"
  /\ UNCHANGED <<mac_state, j, EA, left, gap, coins>>

\* The pin is sampled at the end of the delay.  Then poll: an event of key 2 ends
\* its wait at any time, the timeout ends it after PollDelay, and the pass after the
\* timeout may find an event too.
Sample ==
  LET level == IF left > 0 THEN 1 ELSE 0 IN
  /\ pc = "read"
  /\ wait = 0
  /\ sens_value' = level
  /\ hits' = hits + level
  /\ seen' = seen + level
  /\ \E event \in BOOLEAN, delay \in 0 .. PollDelay :
       /\ ~event => delay = PollDelay
       /\ revents' = event
       /\ WaitFor(delay)
  /\ pc' = "poll"
  /\ UNCHANGED <<mac_state, j, EA, left, gap, coins>>

\* if (revents & POLLIN) mac_state = 2, at the end of the iteration.
EndIteration(event) ==
  /\ mac_state' = IF event THEN 2 ELSE mac_state
  /\ pc' = "head"

\* No coin: the iteration ends.
NoCoin ==
  /\ pc = "poll" /\ wait = 0
  /\ sens_value = 0
  /\ EndIteration(revents)
  /\ UNCHANGED <<wait, late, sens_value, revents, j, EA, coinVars>>

\* Mutant: no reads after a coin.
CountCoinNoDeadTime ==
  /\ pc = "poll" /\ wait = 0
  /\ sens_value = 1
  /\ EA' = EA + 1
  /\ EndIteration(revents)
  /\ UNCHANGED <<wait, late, sens_value, revents, j, coinVars>>

\* Mutant: key 2 is looked at before the coin is counted.
CountCoinUnlessStopped ==
  /\ pc = "poll" /\ wait = 0
  /\ sens_value = 1
  /\ EA' = IF revents THEN EA ELSE EA + 1
  /\ j' = DeadReads
  /\ pc' = "dead"
  /\ WaitFor(ReadDelay)
  /\ UNCHANGED <<mac_state, sens_value, revents, coinVars>>

\* A coin: it is counted before key 2 is looked at, and the reads begin.
CountCoin ==
  /\ pc = "poll" /\ wait = 0
  /\ sens_value = 1
  /\ EA' = EA + 1
  /\ j' = DeadReads
  /\ pc' = "dead"
  /\ WaitFor(ReadDelay)
  /\ UNCHANGED <<mac_state, sens_value, revents, coinVars>>

\* Mutant: one read too many.
DeadReadOneMore ==
  /\ pc = "dead" /\ wait = 0
  /\ j' = j - 1
  /\ IF j >= 1 THEN pc' = "dead" /\ WaitFor(ReadDelay) /\ UNCHANGED mac_state
               ELSE EndIteration(revents) /\ UNCHANGED <<wait, late>>
  /\ UNCHANGED <<sens_value, revents, EA, coinVars>>

DeadRead ==
  /\ pc = "dead" /\ wait = 0
  /\ j' = j - 1
  /\ IF j > 1 THEN pc' = "dead" /\ WaitFor(ReadDelay) /\ UNCHANGED mac_state
              ELSE EndIteration(revents) /\ UNCHANGED <<wait, late>>
  /\ UNCHANGED <<sens_value, revents, EA, coinVars>>

\* Another thread saw key 2.
OthersStop ==
  /\ mac_state = 1
  /\ mac_state' = 2
  /\ UNCHANGED <<pc, wait, late, sens_value, revents, j, EA, coinVars>>

Next ==
  \/ CoinCome \/ Tick \/ Head \/ Sample \/ NoCoin \/ CountCoin \/ DeadRead
  \/ OthersStop

Spec == Init /\ [][Next]_vars

----------------------------------------------------------------------------
\* The values each variable takes; the loop of six reads never runs a seventh
\* time (test_mac.c:596-598).
TypeOK ==
  /\ mac_state \in {1, 2}
  /\ pc \in {"head", "read", "poll", "dead", "exited"}
  /\ wait \in Nat /\ late \in Nat
  /\ sens_value \in {0, 1}
  /\ revents \in BOOLEAN
  /\ j \in 0 .. DeadReads
  /\ EA \in Nat
  /\ left \in 0 .. MaxDwell /\ gap \in 0 .. Spacing
  /\ hits \in Nat /\ seen \in Nat /\ coins \in Nat

\* The six reads keep the thread from a coin it has counted until the coin has
\* passed, however fast the rest of the iteration is (test_mac.c:593-595).
CoinCountedOnce == hits <= 1

\* A coin is seen before it has passed, although the thread is blind for the
\* rest of the iteration that counted the one before: 150 ms between samples,
\* 750 ms after a coin (test_mac.c:580-596, sens_driver.c:65-67).
NoCoinMissed ==
  [][left = 1 /\ left' = 0 /\ mac_state = 1 => hits >= 1]_vars

\* A coin that was sampled is counted, also by the iteration that ends the
\* counting, because the thread looks at key 2 last (test_mac.c:587-602).
SeenCoinsAreCounted ==
  pc = "exited" => EA = seen
=============================================================================
