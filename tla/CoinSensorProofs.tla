-------------------------- MODULE CoinSensorProofs --------------------------
(***************************************************************************)
(* What is proved about the sensor thread, for all delays, for coins of    *)
(* every length that DwellAssumption allows and any number of them.        *)
(***************************************************************************)
EXTENDS CoinSensor, TLAPS

USE DelayAssumption, DwellAssumption

\* The types, with the bound that keeps the count of reads from going below 0.
TypeInv == TypeOK /\ (pc = "dead" => j > 0)

\* The thread starts with its types.
LEMMA InitTypeInv == Init => TypeInv
<1>1. Init => revents \in BOOLEAN
  BY Zenon DEF Init
<1>2. Init => TypeOK
  BY <1>1 DEF Init, TypeOK
<1>3. QED
  BY <1>2 DEF Init, TypeInv

\* Every step keeps the types, whatever the delays.
LEMMA NextTypeInv == TypeInv /\ [Next]_vars => TypeInv'
<1> SUFFICES ASSUME TypeInv, [Next]_vars PROVE TypeInv'
  OBVIOUS
<1> USE DEF TypeInv, TypeOK, threadVars, coinVars
<1>1. CASE CoinCome
  BY <1>1 DEF CoinCome
<1>2. CASE Tick
  BY <1>2 DEF Tick, Less
<1>3. CASE Head
  BY <1>3 DEF Head, WaitFor
<1>4. CASE Sample
  BY <1>4 DEF Sample, WaitFor
<1>5. CASE NoCoin
  BY <1>5 DEF NoCoin, EndIteration
<1>6. CASE CountCoin
  BY <1>6 DEF CountCoin, WaitFor
<1>7. CASE DeadRead
  BY <1>7 DEF DeadRead, EndIteration, WaitFor
<1>8. CASE OthersStop
  BY <1>8 DEF OthersStop
<1>9. CASE UNCHANGED vars
  BY <1>9 DEF vars
<1>10. QED
  BY <1>1, <1>2, <1>3, <1>4, <1>5, <1>6, <1>7, <1>8, <1>9 DEF Next

\* Every variable always has its type.
THEOREM TypeCorrect == Spec => []TypeOK
<1>1. TypeInv => TypeOK
  BY DEF TypeInv
<1>2. QED
  BY <1>1, InitTypeInv, NextTypeInv, PTL DEF Spec

----------------------------------------------------------------------------
(* A coin that was counted has passed before the next sample: what is left *)
(* of it is at most what is left of the waits until then.                  *)

\* The least time until the next sample that can count.
BlindTime ==
  CASE pc = "poll" -> IF sens_value = 1 THEN (DeadReads + 1) * ReadDelay ELSE 0
    [] pc = "dead" -> wait + j * ReadDelay
    [] pc = "head" -> ReadDelay
    [] pc = "read" -> wait
    [] OTHER       -> MaxDwell

\* A coin that was counted is gone by then: it is inductive.
BlindInv ==
  /\ TypeInv
  /\ hits <= 1
  /\ hits = 1 => left <= BlindTime

\* The waits of the reads add up.
LEMMA OneReadLess ==
  ASSUME NEW n \in Nat \ {0}
  PROVE  /\ (n - 1) * ReadDelay \in Nat
         /\ n * ReadDelay = (n - 1) * ReadDelay + ReadDelay
  OBVIOUS

\* The blind time shrinks no faster than the coin passes.
LEMMA NextBlindInv == BlindInv /\ [Next]_vars => BlindInv'
<1> SUFFICES ASSUME BlindInv, [Next]_vars PROVE BlindInv'
  OBVIOUS
<1>0. TypeInv'
  BY NextTypeInv DEF BlindInv
<1> USE <1>0 DEF BlindInv, TypeInv, TypeOK, threadVars, coinVars
<1>1. CASE CoinCome
  BY <1>1 DEF CoinCome
<1>2. CASE Tick
  BY <1>2 DEF Tick, Less, BlindTime
<1>3. CASE Head
  BY <1>3 DEF Head, WaitFor, BlindTime
<1>4. CASE Sample
  BY <1>4 DEF Sample, WaitFor, BlindTime
<1>5. CASE NoCoin
  BY <1>5 DEF NoCoin, EndIteration, BlindTime
<1>6. CASE CountCoin
  <2>1. BlindTime = (DeadReads + 1) * ReadDelay /\ BlindTime' = ReadDelay + DeadReads * ReadDelay
    BY <1>6 DEF CountCoin, WaitFor, BlindTime
  <2>2. (DeadReads + 1) * ReadDelay = DeadReads * ReadDelay + ReadDelay
    OBVIOUS
  <2>3. QED
    BY <1>6, <2>1, <2>2 DEF CountCoin
<1>7. CASE DeadRead
  <2>1. j \in Nat \ {0} /\ BlindTime = j * ReadDelay
    BY <1>7 DEF DeadRead, BlindTime
  <2>2. CASE j > 1
    <3>1. BlindTime' = ReadDelay + (j - 1) * ReadDelay
      BY <1>7, <2>2 DEF DeadRead, WaitFor, BlindTime
    <3>2. BlindTime' = BlindTime
      BY <2>1, <3>1, OneReadLess
    <3>3. QED
      BY <1>7, <2>2, <3>2 DEF DeadRead
  <2>3. CASE j = 1
    <3>1. BlindTime = ReadDelay /\ BlindTime' = ReadDelay
      BY <1>7, <2>1, <2>3 DEF DeadRead, EndIteration, BlindTime
    <3>2. QED
      BY <1>7, <2>3, <3>1 DEF DeadRead, EndIteration
  <2>4. QED
    BY <2>1, <2>2, <2>3
<1>8. CASE OthersStop
  BY <1>8 DEF OthersStop, BlindTime
<1>9. CASE UNCHANGED vars
  BY <1>9 DEF vars, BlindTime
<1>10. QED
  BY <1>1, <1>2, <1>3, <1>4, <1>5, <1>6, <1>7, <1>8, <1>9 DEF Next

\* No coin that passes within the six reads and the one after is counted
\* twice, for any jitter of the waits.
THEOREM CountedOnce == Spec => []CoinCountedOnce
<1>1. Init => BlindInv
  BY InitTypeInv DEF Init, BlindInv
<1>2. BlindInv => CoinCountedOnce
  BY DEF BlindInv, CoinCountedOnce
<1>3. QED
  BY <1>1, <1>2, NextBlindInv, PTL DEF Spec

----------------------------------------------------------------------------
\* Every sample that saw a coin is counted, but the one in hand.
Counted ==
  /\ TypeInv
  /\ seen = EA + (IF pc = "poll" THEN sens_value ELSE 0)

\* A sample that saw a coin is counted before the thread does anything else.
LEMMA NextCounted == Counted /\ [Next]_vars => Counted'
<1> SUFFICES ASSUME Counted, [Next]_vars PROVE Counted'
  OBVIOUS
<1>0. TypeInv'
  BY NextTypeInv DEF Counted
<1> USE <1>0 DEF Counted, TypeInv, TypeOK, threadVars, coinVars
<1>1. CASE CoinCome
  BY <1>1 DEF CoinCome
<1>2. CASE Tick
  BY <1>2 DEF Tick
<1>3. CASE Head
  BY <1>3 DEF Head
<1>4. CASE Sample
  BY <1>4 DEF Sample
<1>5. CASE NoCoin
  BY <1>5 DEF NoCoin, EndIteration
<1>6. CASE CountCoin
  BY <1>6 DEF CountCoin
<1>7. CASE DeadRead
  BY <1>7 DEF DeadRead, EndIteration
<1>8. CASE OthersStop
  BY <1>8 DEF OthersStop
<1>9. CASE UNCHANGED vars
  BY <1>9 DEF vars
<1>10. QED
  BY <1>1, <1>2, <1>3, <1>4, <1>5, <1>6, <1>7, <1>8, <1>9 DEF Next

\* Every coin that was sampled is counted before the thread ends.
THEOREM SeenIsCounted == Spec => []SeenCoinsAreCounted
<1>1. Init => Counted
  BY InitTypeInv DEF Init, Counted
<1>2. Counted => SeenCoinsAreCounted
  BY DEF Counted, SeenCoinsAreCounted, TypeInv, TypeOK
<1>3. QED
  BY <1>1, <1>2, NextCounted, PTL DEF Spec

----------------------------------------------------------------------------
(* A coin is sampled before it has passed.                                 *)

\* A read and its delay, at most.
Read == ReadDelay + Jitter

\* That many reads, at most.
Reads(n) == n * Read

\* The time until the next sample, at most.
SampleIn ==
  CASE pc = "head" -> Read
    [] pc = "read" -> wait + late
    [] pc = "poll" -> wait + late + (IF sens_value = 1 THEN Reads(DeadReads + 1) ELSE Read)
    [] pc = "dead" -> wait + late + Reads(j)
    [] OTHER       -> 0

\* While the thread counts: the coin before the sensor came Spacing - gap ago;
\* no coin, when it comes, can pass before the next sample, and one that was not
\* sampled yet will not.
Sight(ms, at, l, g, h, next) ==
  /\ at = "exited" => ms = 2
  /\ l > 0 => l <= g /\ MinDwell + g <= l + Spacing
  /\ ms = 1 =>
       /\ next < MinDwell + g
       /\ l > 0 /\ h = 0 => next + Spacing < MinDwell + g

\* That, of the state.
InSight == Sight(mac_state, pc, left, gap, hits, SampleIn)

\* With the types and what is known of counted coins it is inductive.
SightInv == BlindInv /\ InSight

\* The longest waits of the reads add up, and SightAssumption in their terms.
LEMMA ReadsLess ==
  /\ Read \in Nat
  /\ \A n \in Nat : Reads(n) \in Nat /\ Reads(n + 1) = Reads(n) + Read
  /\ PollDelay + Jitter + Read < MinDwell
  /\ PollDelay + Jitter + Reads(DeadReads + 1) <= Spacing
<1>1. Read \in Nat
  BY DEF Read
<1>2. ASSUME NEW n \in Nat PROVE n * Read \in Nat /\ (n + 1) * Read = n * Read + Read
  BY <1>1
<1>3. PollDelay + Jitter + Read < MinDwell
  BY SightAssumption DEF Read
<1>4. PollDelay + Jitter + (DeadReads + 1) * Read <= Spacing
  BY SightAssumption DEF Read
<1>5. QED
  BY <1>1, <1>2, <1>3, <1>4 DEF Reads

\* A coin comes as soon as it may.
LEMMA SightOfNewCoin ==
  ASSUME NEW ms, NEW at, NEW l, NEW l1 \in MinDwell .. MaxDwell, NEW h, NEW next \in Nat,
         Sight(ms, at, l, 0, h, next)
  PROVE  Sight(ms, at, l1, Spacing, 0, next)
  BY DEF Sight

\* A tick of the clock, for the coins and for the thread.
LEMMA SightLater ==
  ASSUME NEW ms, NEW at, NEW l \in Nat, NEW g \in Nat, NEW h \in Nat, NEW next \in Nat \ {0},
         Sight(ms, at, l, g, h, next)
  PROVE  Sight(ms, at, Less(l), Less(g), h, next - 1)
  BY DEF Sight, Less

\* A step of the thread that does not put off the next sample, or that stops it.
LEMMA SightOfStep ==
  ASSUME NEW ms, NEW at, NEW ms1, NEW at1, NEW l \in Nat, NEW g \in Nat, NEW h \in Nat,
         NEW next \in Nat, NEW next1 \in Nat,
         ms1 = 1 => ms = 1 /\ next1 <= next, at1 = "exited" => ms1 = 2,
         Sight(ms, at, l, g, h, next)
  PROVE  Sight(ms1, at1, l, g, h, next1)
  BY DEF Sight

\* A sample without a coin: the next one is close.
LEMMA SightOfNoCoin ==
  ASSUME NEW ms, NEW at, NEW g \in Nat, NEW h, NEW h1, NEW next, NEW next1 \in Nat,
         next1 < MinDwell, Sight(ms, at, 0, g, h, next)
  PROVE  Sight(ms, "poll", 0, g, h1, next1)
  BY DEF Sight

\* A sample of a coin: the next one may be as far as the next coin.
LEMMA SightOfCoin ==
  ASSUME NEW ms, NEW at, NEW l \in Nat \ {0}, NEW g \in Nat, NEW next \in Nat, NEW next1 \in Nat,
         next1 <= Spacing, Sight(ms, at, l, g, 0, next)
  PROVE  Sight(ms, "poll", l, g, 1, next1)
  BY DEF Sight

\* The next sample comes nearer with every tick, as the next coin does, and the
\* steps of the thread put it off only after a coin was sampled.
LEMMA NextSightInv == SightInv /\ [Next]_vars => SightInv'
<1> SUFFICES ASSUME SightInv, [Next]_vars PROVE InSight'
  BY NextBlindInv DEF SightInv
<1>0. TypeInv /\ TypeInv' /\ BlindInv
  BY NextBlindInv DEF SightInv, BlindInv
<1>a. /\ DeadReads + 1 \in Nat /\ Reads(DeadReads + 1) = Reads(DeadReads) + Read
      /\ Reads(j) \in Nat /\ Reads(DeadReads) \in Nat /\ Reads(DeadReads + 1) \in Nat
      /\ Read \in Nat
  BY <1>0, ReadsLess DEF TypeInv, TypeOK
<1>b. SampleIn \in Nat /\ left \in Nat /\ gap \in Nat /\ hits \in Nat
  BY <1>0, <1>a DEF SampleIn, TypeInv, TypeOK
<1>c. Sight(mac_state, pc, left, gap, hits, SampleIn) /\ (pc = "exited" => mac_state = 2)
  BY DEF SightInv, InSight, Sight
<1> SUFFICES Sight(mac_state', pc', left', gap', hits', SampleIn')
  BY DEF InSight
<1>1. CASE CoinCome
  <2>1. SampleIn' = SampleIn /\ mac_state' = mac_state /\ pc' = pc
    BY <1>1 DEF CoinCome, threadVars, SampleIn
  <2>2. left' \in MinDwell .. MaxDwell /\ gap' = Spacing /\ gap = 0 /\ hits' = 0
    BY <1>1 DEF CoinCome
  <2>3. QED
    BY <1>b, <1>c, <2>1, <2>2, SightOfNewCoin, Zenon
<1>2. CASE Tick
  <2>1. SampleIn' = SampleIn - 1 /\ SampleIn # 0
    <3>0. UNCHANGED <<pc, sens_value, j>> /\ wait \in Nat /\ late \in Nat /\ wait + late > 0
      BY <1>0, <1>2 DEF Tick, TypeInv, TypeOK
    <3>1. CASE wait > 0
      <4>1. wait' = wait - 1 /\ late' = late
        BY <1>2, <3>1 DEF Tick
      <4>2. CASE pc = "read"
        BY <3>0, <3>1, <4>1, <4>2 DEF SampleIn
      <4>3. CASE pc = "poll"
        BY <1>a, <3>0, <3>1, <4>1, <4>3 DEF SampleIn
      <4>4. CASE pc = "dead"
        BY <1>a, <3>0, <3>1, <4>1, <4>4 DEF SampleIn
      <4>5. QED
        BY <1>2, <4>2, <4>3, <4>4 DEF Tick
    <3>2. CASE wait = 0
      <4>1. wait' = 0 /\ late' = late - 1 /\ late > 0
        BY <1>2, <3>0, <3>2 DEF Tick
      <4>2. CASE pc = "read"
        BY <3>0, <3>2, <4>1, <4>2 DEF SampleIn
      <4>3. CASE pc = "poll"
        BY <1>a, <3>0, <3>2, <4>1, <4>3 DEF SampleIn
      <4>4. CASE pc = "dead"
        BY <1>a, <3>0, <3>2, <4>1, <4>4 DEF SampleIn
      <4>5. QED
        BY <1>2, <4>2, <4>3, <4>4 DEF Tick
    <3>3. QED
      BY <3>0, <3>1, <3>2
  <2>2. UNCHANGED <<mac_state, pc, hits>> /\ left' = Less(left) /\ gap' = Less(gap)
    BY <1>2 DEF Tick
  <2>3. QED
    BY <1>b, <1>c, <2>1, <2>2, SightLater, Zenon
<1>3. CASE Head
  <2>1. SampleIn' \in Nat /\ (mac_state = 1 => SampleIn' = SampleIn)
    BY <1>0, <1>3, <1>a DEF Head, WaitFor, SampleIn, Read, TypeInv, TypeOK
  <2>2. UNCHANGED <<mac_state, left, gap, hits>> /\ (pc' = "exited" => mac_state' = 2)
    BY <1>0, <1>3 DEF Head, coinVars, TypeInv, TypeOK
  <2>3. mac_state' = 1 => mac_state = 1 /\ SampleIn' <= SampleIn
    BY <1>b, <2>1, <2>2
  <2>4. QED
    BY <1>b, <1>c, <2>1, <2>2, <2>3, SightOfStep, Zenon
<1>4. CASE Sample
  <2>1. late' = Jitter /\ wait' \in 0 .. PollDelay /\ pc' = "poll"
    BY <1>4 DEF Sample, WaitFor
  <2>2. left > 0 => hits = 0
    BY <1>0, <1>4 DEF Sample, BlindInv, BlindTime, TypeInv, TypeOK
  <2>3. UNCHANGED <<mac_state, left, gap>>
    BY <1>4 DEF Sample
  <2>4. CASE left # 0
    <3>1. sens_value' = 1 /\ hits' = 1 /\ hits = 0 /\ left \in Nat \ {0}
      BY <1>4, <1>b, <2>2, <2>4 DEF Sample
    <3>2. SampleIn' <= PollDelay + Jitter + Reads(DeadReads + 1) /\ SampleIn' \in Nat
      BY <2>1, <3>1, <1>a DEF SampleIn
    <3>3. SampleIn' <= Spacing
      BY <3>2, <1>a, ReadsLess
    <3>4. QED
      BY <1>b, <1>c, <2>1, <2>3, <3>1, <3>2, <3>3, SightOfCoin, Zenon
  <2>5. CASE left = 0
    <3>1. sens_value' = 0
      BY <1>4, <2>5 DEF Sample
    <3>2. SampleIn' <= PollDelay + Jitter + Read /\ SampleIn' \in Nat
      BY <2>1, <3>1, <1>a DEF SampleIn
    <3>3. SampleIn' < MinDwell
      BY <3>2, <1>a, ReadsLess
    <3>4. QED
      BY <1>b, <1>c, <2>1, <2>3, <2>5, <3>2, <3>3, SightOfNoCoin, Zenon
  <2>6. QED
    BY <2>4, <2>5
<1>5. CASE NoCoin
  <2>1. SampleIn' <= SampleIn /\ SampleIn' \in Nat
    BY <1>0, <1>5, <1>a DEF NoCoin, EndIteration, SampleIn, TypeInv, TypeOK
  <2>2. UNCHANGED <<left, gap, hits>> /\ pc' # "exited" /\ (mac_state' = 1 => mac_state = 1)
    BY <1>5 DEF NoCoin, EndIteration, coinVars
  <2>3. QED
    BY <1>b, <1>c, <2>1, <2>2, SightOfStep, Zenon
<1>6. CASE CountCoin
  <2>1. SampleIn = wait + late + Reads(DeadReads + 1) /\ SampleIn' = Read + Reads(DeadReads)
    BY <1>6 DEF CountCoin, WaitFor, SampleIn, Read
  <2>2. SampleIn' <= SampleIn /\ SampleIn' \in Nat
    BY <1>0, <1>a, <2>1 DEF TypeInv, TypeOK
  <2>3. UNCHANGED <<mac_state, left, gap, hits>> /\ pc' # "exited"
    BY <1>6 DEF CountCoin, coinVars
  <2>4. QED
    BY <1>b, <1>c, <2>2, <2>3, SightOfStep, Zenon
<1>7. CASE DeadRead
  <2>1. SampleIn = late + Reads(j)
    BY <1>0, <1>a, <1>7 DEF DeadRead, SampleIn, TypeInv, TypeOK
  <2>2. Reads(j - 1) \in Nat /\ Reads(j) = Reads(j - 1) + Read
    <3>1. j - 1 \in Nat /\ j = (j - 1) + 1
      BY <1>0, <1>7 DEF DeadRead, TypeInv, TypeOK
    <3>2. QED
      BY <3>1, ReadsLess
  <2>3. SampleIn' = IF j > 1 THEN Read + Reads(j - 1) ELSE Read
    BY <1>0, <1>7 DEF DeadRead, WaitFor, EndIteration, SampleIn, Read, TypeInv, TypeOK
  <2>4. SampleIn' <= SampleIn /\ SampleIn' \in Nat
    BY <1>0, <1>a, <2>1, <2>2, <2>3 DEF TypeInv, TypeOK
  <2>5. UNCHANGED <<left, gap, hits>> /\ pc' # "exited" /\ (mac_state' = 1 => mac_state = 1)
    BY <1>7 DEF DeadRead, EndIteration, coinVars
  <2>6. QED
    BY <1>b, <1>c, <2>4, <2>5, SightOfStep, Zenon
<1>8. CASE OthersStop
  <2>1. SampleIn' = SampleIn
    BY <1>8 DEF OthersStop, SampleIn
  <2>2. UNCHANGED <<left, gap, hits>> /\ mac_state' = 2 /\ mac_state' # 1
    BY <1>8 DEF OthersStop, coinVars
  <2>3. QED
    BY <1>b, <1>c, <2>1, <2>2, SightOfStep, Zenon
<1>9. CASE UNCHANGED vars
  <2>1. SampleIn' = SampleIn /\ UNCHANGED <<mac_state, pc, left, gap, hits>>
    BY <1>9 DEF vars, threadVars, coinVars, SampleIn
  <2>2. QED
    BY <1>c, <2>1, Zenon
<1>10. QED
  BY <1>1, <1>2, <1>3, <1>4, <1>5, <1>6, <1>7, <1>8, <1>9 DEF Next

\* No coin passes the sensor unseen while the thread counts, for all delays and
\* any jitter that SightAssumption allows: two samples without a coin between them
\* are closer than the shortest coin is long, and after a coin the thread is ready
\* for the next one before that can have passed (test_mac.c:580-596,
\* sens_driver.c:65-67).
THEOREM NoneMissed == Spec => NoCoinMissed
<1>1. Init => SightInv
  <2> SUFFICES ASSUME Init PROVE SightInv
    OBVIOUS
  <2>1. BlindInv
    BY InitTypeInv DEF Init, BlindInv
  <2>2. InSight
    BY ReadsLess DEF Init, InSight, Sight, SampleIn
  <2>3. QED
    BY <2>1, <2>2 DEF SightInv
<1>2. SightInv /\ [Next]_vars => [left = 1 /\ left' = 0 /\ mac_state = 1 => hits >= 1]_vars
  <2> SUFFICES ASSUME SightInv, [Next]_vars, left = 1, left' = 0, mac_state = 1
               PROVE  hits >= 1
    OBVIOUS
  <2>0. TypeInv /\ InSight /\ gap > 0
    BY DEF SightInv, BlindInv, InSight, Sight, TypeInv, TypeOK
  <2>1. Tick
    BY <2>0 DEF Next, vars, threadVars, coinVars, CoinCome, Head, Sample, NoCoin,
                CountCoin, DeadRead, OthersStop
  <2>2. Reads(j) \in Nat /\ Reads(DeadReads + 1) \in Nat /\ Read \in Nat
    BY <2>0, ReadsLess, DeadReads + 1 \in Nat DEF TypeInv, TypeOK
  <2>3. SampleIn > 0 /\ SampleIn \in Nat
    BY <2>0, <2>1, <2>2 DEF Tick, SampleIn, TypeInv, TypeOK
  <2>4. hits # 0
    BY <2>0, <2>3 DEF InSight, Sight, TypeInv, TypeOK
  <2>5. QED
    BY <2>0, <2>4 DEF TypeInv, TypeOK
<1>3. QED
  BY <1>1, <1>2, NextSightInv, PTL DEF Spec, NoCoinMissed

----------------------------------------------------------------------------
(* The thread ends in time.                                                *)

\* The time until the thread has ended, at most, when it has seen that the counting is
\* stopped or will when it looks: what is left of its wait, of its iteration and of the
\* reads that a coin in hand brings.
EndsIn ==
  CASE pc = "read" -> wait + late + PollDelay + Jitter + Reads(DeadReads)
    [] pc = "poll" -> wait + late + (IF sens_value = 1 THEN Reads(DeadReads) ELSE 0)
    [] pc = "dead" -> wait + late + Reads(j - 1)
    [] OTHER       -> 0

\* One iteration, with a coin.
Iteration == Read + PollDelay + Jitter + Reads(DeadReads)

\* No wait is longer than it began.
WaitInv ==
  /\ late <= Jitter
  /\ pc \in {"read", "dead"} => wait <= ReadDelay
  /\ pc = "poll" => wait <= PollDelay

\* The waits of the reads add up, for any delays.
LEMMA ReadsAdd ==
  /\ Read = ReadDelay + Jitter /\ Read \in Nat
  /\ \A n \in Nat : Reads(n) \in Nat /\ Reads(n + 1) = Reads(n) + Read
<1>1. Read = ReadDelay + Jitter /\ Read \in Nat
  BY DEF Read
<1>2. ASSUME NEW n \in Nat PROVE n * Read \in Nat /\ (n + 1) * Read = n * Read + Read
  BY <1>1
<1> QED
  BY <1>1, <1>2 DEF Reads

HIDE DwellAssumption

\* No wait is longer than it began.
LEMMA NextWaitInv == TypeInv /\ WaitInv /\ [Next]_vars => WaitInv'
<1> SUFFICES ASSUME TypeInv, WaitInv, [Next]_vars PROVE WaitInv'
  OBVIOUS
<1> USE DEF TypeInv, TypeOK, WaitInv, threadVars, coinVars
<1>1. CASE CoinCome \/ OthersStop
  BY <1>1 DEF CoinCome, OthersStop
<1>2. CASE Tick
  BY <1>2 DEF Tick
<1>3. CASE Head
  BY <1>3 DEF Head, WaitFor
<1>4. CASE Sample
  BY <1>4 DEF Sample, WaitFor
<1>5. CASE NoCoin
  BY <1>5 DEF NoCoin, EndIteration
<1>6. CASE CountCoin
  BY <1>6 DEF CountCoin, WaitFor
<1>7. CASE DeadRead
  BY <1>7 DEF DeadRead, EndIteration, WaitFor
<1>8. CASE UNCHANGED vars
  BY <1>8 DEF vars
<1> QED
  BY <1>1, <1>2, <1>3, <1>4, <1>5, <1>6, <1>7, <1>8 DEF Next

\* What is left is never more than an iteration.
LEMMA EndsInBound ==
  ASSUME TypeInv, WaitInv
  PROVE  EndsIn \in 0 .. Iteration
<1>1. /\ Read = ReadDelay + Jitter /\ Reads(DeadReads) \in Nat
      /\ pc = "dead" => Reads(j - 1) \in Nat /\ Read + Reads(j - 1) <= Reads(DeadReads)
  <2>1. Read \in Nat /\ \A n \in Nat : Reads(n) \in Nat /\ Reads(n + 1) = Reads(n) + Read
    BY ReadsAdd
  <2>2. ASSUME pc = "dead" PROVE Read + Reads(j - 1) <= Reads(DeadReads)
    <3>1. j - 1 \in Nat /\ DeadReads - j \in Nat /\ j \in Nat
      BY <2>2 DEF TypeInv, TypeOK
    <3>2. DeadReads * Read = j * Read + (DeadReads - j) * Read /\ (DeadReads - j) * Read \in Nat
      BY <2>1, <3>1
    <3>3. Reads(j) = Reads(j - 1) + Read
      BY <2>1, <3>1
    <3>4. Reads(j) <= Reads(DeadReads)
      BY <2>1, <3>1, <3>2 DEF Reads
    <3> QED
      BY <2>1, <3>1, <3>3, <3>4
  <2>3. pc = "dead" => j - 1 \in Nat
    BY DEF TypeInv, TypeOK
  <2> QED
    BY <2>1, <2>2, <2>3 DEF Read
<1>2. /\ wait \in Nat /\ late \in 0 .. Jitter
      /\ pc \in {"read", "dead"} => wait <= ReadDelay
      /\ pc = "poll" => wait <= PollDelay
  BY DEF TypeInv, TypeOK, WaitInv
<1> QED
  BY <1>1, <1>2 DEF EndsIn, Iteration

\* Time uses it up, and no step of the thread adds to it.
LEMMA NextEndsIn ==
  ASSUME TypeInv, WaitInv, [Next]_vars, mac_state = 2
  PROVE  EndsIn' <= EndsIn /\ (Tick => EndsIn' < EndsIn)
<1>1. /\ Read = ReadDelay + Jitter /\ Read \in Nat
      /\ \A n \in Nat : Reads(n) \in Nat /\ Reads(n + 1) = Reads(n) + Read
  BY ReadsAdd
<1>2. wait \in Nat /\ late \in Nat /\ j \in 0 .. DeadReads
  BY DEF TypeInv, TypeOK
<1>3. CASE Tick
  <2>1. /\ pc' = pc /\ j' = j /\ sens_value' = sens_value
        /\ wait' + late' = wait + late - 1 /\ pc \in {"read", "poll", "dead"}
    BY <1>2, <1>3 DEF Tick
  <2>2. pc = "dead" => Reads(j - 1) \in Nat
    BY <1>1, <1>2 DEF TypeInv
  <2>3. wait' \in Nat /\ late' \in Nat
    BY <1>2, <1>3 DEF Tick
  <2>4. CASE pc = "read"
    BY <1>1, <1>2, <2>1, <2>3, <2>4 DEF EndsIn
  <2>5. CASE pc = "poll"
    BY <1>1, <1>2, <2>1, <2>3, <2>5 DEF EndsIn
  <2>6. CASE pc = "dead"
    BY <1>1, <1>2, <2>1, <2>2, <2>3, <2>6 DEF EndsIn
  <2> QED
    BY <2>1, <2>4, <2>5, <2>6
<1>4. ~Tick \/ Tick
  OBVIOUS
<1>5. ASSUME ~Tick PROVE EndsIn' <= EndsIn
  <2>0. 0 <= EndsIn /\ EndsIn \in Int
    BY EndsInBound
  <2>1. CASE CoinCome \/ UNCHANGED vars
    <3>1. EndsIn' = EndsIn
      BY <2>1 DEF CoinCome, vars, threadVars, EndsIn
    <3> QED
      BY <2>0, <3>1
  <2>2. CASE Head \/ NoCoin \/ OthersStop
    <3>1. pc' \in {"exited", "head"}
      BY <2>2 DEF Head, NoCoin, EndIteration, OthersStop
    <3>2. EndsIn' = 0
      BY <3>1 DEF EndsIn
    <3> QED
      BY <2>0, <3>2
  <2>3. CASE Sample
    <3>1. pc = "read" /\ wait = 0 /\ pc' = "poll" /\ late' = Jitter /\ wait' \in 0 .. PollDelay
      BY <2>3 DEF Sample, WaitFor
    <3>2. EndsIn = late + PollDelay + Jitter + Reads(DeadReads)
      BY <1>1, <1>2, <3>1 DEF EndsIn
    <3>3. PICK c \in {0, Reads(DeadReads)} : EndsIn' = wait' + late' + c
      BY <1>1, <3>1 DEF EndsIn
    <3> QED
      BY <1>1, <1>2, <3>1, <3>2, <3>3
  <2>4. CASE CountCoin
    <3>1. /\ pc = "poll" /\ wait = 0 /\ sens_value = 1
          /\ pc' = "dead" /\ j' = DeadReads /\ wait' = ReadDelay /\ late' = Jitter
      BY <2>4 DEF CountCoin, WaitFor
    <3>2. EndsIn = late + Reads(DeadReads) /\ EndsIn' = Read + Reads(DeadReads - 1)
      BY <1>1, <1>2, <3>1 DEF EndsIn
    <3>3. DeadReads - 1 \in Nat /\ Reads(DeadReads) = Reads(DeadReads - 1) + Read
      BY <1>1
    <3> QED
      BY <1>1, <1>2, <3>2, <3>3
  <2>5. CASE DeadRead /\ j > 1
    <3>1. /\ pc = "dead" /\ wait = 0 /\ pc' = "dead" /\ j' = j - 1
          /\ wait' = ReadDelay /\ late' = Jitter
      BY <2>5 DEF DeadRead, WaitFor
    <3>2. EndsIn = late + Reads(j - 1) /\ EndsIn' = Read + Reads(j - 1 - 1)
      BY <1>1, <1>2, <2>5, <3>1 DEF EndsIn
    <3>3. j - 1 - 1 \in Nat /\ Reads(j - 1) = Reads(j - 1 - 1) + Read /\ Reads(j - 1 - 1) \in Nat
      BY <1>1, <1>2, <2>5
    <3> QED
      BY <1>1, <1>2, <3>2, <3>3
  <2>6. CASE DeadRead /\ ~(j > 1)
    <3>1. pc' = "head"
      BY <2>6 DEF DeadRead, EndIteration
    <3>2. EndsIn' = 0
      BY <3>1 DEF EndsIn
    <3> QED
      BY <2>0, <3>2
  <2> QED
    BY <1>5, <2>1, <2>2, <2>3, <2>4, <2>5, <2>6 DEF Next
<1> QED
  BY <1>3, <1>5

\* CountingEnds, as far as it is safety, and in time: when the counting is stopped the
\* thread has at most the rest of an iteration before it, which is never longer than
\* Iteration (1.15 s with the delays of the source), and all time that passes is taken
\* off that (test_mac.c:573-609).
THEOREM EndsInTime ==
  Spec => /\ [](EndsIn \in 0 .. Iteration)
          /\ [][mac_state = 2 => EndsIn' <= EndsIn /\ (Tick => EndsIn' < EndsIn)]_vars
<1>1. Init => WaitInv
  BY DEF Init, WaitInv
<1>2. TypeInv /\ WaitInv /\ [Next]_vars
        => [mac_state = 2 => EndsIn' <= EndsIn /\ (Tick => EndsIn' < EndsIn)]_vars
  BY NextEndsIn
<1> QED
  BY <1>1, <1>2, InitTypeInv, NextTypeInv, NextWaitInv, EndsInBound, PTL DEF Spec
=============================================================================
