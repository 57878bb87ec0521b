-------------------------- MODULE KeyDriverProofs --------------------------
(***************************************************************************)
(* What is proved about the key drivers: on their own, for every set of    *)
(* threads, number of keys, pollfd arrays and interrupt bound; and, last,  *)
(* in the key demonstration, for every size of its count.                  *)
(***************************************************************************)
EXTENDS KeyDriver, KeyLed, KeyPollProofs, Integers

USE WatchAssumption, MaxRaisedAssumption

\* The typing invariant, with the lists that Head and Tail are applied to.
TypeInv == TypeOK /\ PassOK

\* The drivers and the history start with their types.
LEMMA InitTypeInv == Init => TypeInv
  BY KeyInitType DEF Init, KeyTypeInv, TypeInv, TypeOK

\* Every step keeps the types.
LEMMA NextTypeInv == TypeInv /\ [Next]_vars => TypeInv'
<1> SUFFICES ASSUME TypeInv, [Next]_vars PROVE TypeInv'
  OBVIOUS
<1> USE DEF TypeInv, TypeOK, KeyTypeInv
<1>1. ASSUME NEW k \in Keys, Edge(k) PROVE TypeInv'
  BY <1>1, IsrWakeType DEF Edge
<1>2. ASSUME NEW k \in Keys, Count(k) PROVE TypeInv'
  BY <1>2, IsrCountType DEF Count
<1>3. ASSUME NEW t \in Threads, Enter(t) PROVE TypeInv'
  BY <1>3, PollEnterType DEF Enter
<1>4. ASSUME NEW t \in Threads, Poll(t) PROVE TypeInv'
  BY <1>4, PollStepType DEF Poll
<1>5. ASSUME NEW t \in Threads, Return(t) PROVE TypeInv'
  BY <1>5, PollReturnType DEF Return
<1>6. CASE UNCHANGED vars
  BY <1>6, KeyStutterType DEF vars, keyVars
<1>7. QED
  BY <1>1, <1>2, <1>3, <1>4, <1>5, <1>6 DEF Next, Thread

\* No pass over a pollfd array runs off the end of it.
LEMMA TypeInvariant == Spec => []TypeInv
  BY InitTypeInv, NextTypeInv, PTL DEF Spec

\* The state of the drivers and of the poll(2) calls always has its type.
THEOREM TypeCorrect == Spec => []TypeOK
<1>1. TypeInv => TypeOK
  BY DEF TypeInv
<1>2. QED
  BY <1>1, TypeInvariant, PTL

----------------------------------------------------------------------------
\* Nothing was reported and nothing is pending at first.
LEMMA InitPressBudget == Init => PressBudget
  BY DEF Init, KeyInit, PressBudget, NotPolling, Clearing

\* No step of a handler or of a poll(2) call overdraws the budget of a key.
LEMMA NextPressBudget ==
  TypeInv /\ PressBudget /\ [Next]_vars => PressBudget'
<1> SUFFICES ASSUME TypeInv, PressBudget, [Next]_vars,
                    NEW u \in Threads, NEW j \in Keys
             PROVE  (LET held == IF j \in call[u].ready THEN 1 ELSE 0
                         pending == IF eventFlag[j] /\ ~Clearing(u, j) THEN 1 ELSE 0
                     IN  reports[u][j] + held + pending <= raised[j])'
  BY DEF PressBudget
<1> DEFINE held == IF j \in call[u].ready THEN 1 ELSE 0
           pending == IF eventFlag[j] /\ ~Clearing(u, j) THEN 1 ELSE 0
           Goal == reports[u][j] + held + pending <= raised[j]
<1>0. /\ Goal
      /\ reports[u][j] \in Nat /\ raised[j] \in Nat
      /\ held \in {0, 1} /\ pending \in {0, 1}
  BY DEF PressBudget, TypeInv, TypeOK
<1> USE DEF TypeInv, TypeOK, KeyTypeOK
<1>1. ASSUME NEW k \in Keys, Edge(k) PROVE Goal'
  <2>1. UNCHANGED <<held, pending, reports, raised>>
    BY <1>1 DEF Edge, IsrWake, Clearing, PollCall
  <2>2. QED
    BY <1>0, <2>1
<1>2. ASSUME NEW k \in Keys, Count(k) PROVE Goal'
  <2>1. UNCHANGED held /\ UNCHANGED reports /\ pending' \in {0, 1}
    BY <1>2 DEF Count, IsrCount
  <2>2. CASE k = j
    <3>1. raised'[j] = raised[j] + 1
      BY <1>2, <2>2 DEF Count
    <3>2. QED
      BY <1>0, <2>1, <3>1
  <2>3. CASE k # j
    <3>1. UNCHANGED <<pending, raised[j]>>
      BY <1>2, <2>3 DEF Count, IsrCount, Clearing
    <3>2. QED
      BY <1>0, <2>1, <3>1
  <2>4. QED
    BY <2>2, <2>3
<1>3. ASSUME NEW t \in Threads, Enter(t) PROVE Goal'
  <2>1. UNCHANGED <<reports, raised, eventFlag>>
    BY <1>3 DEF Enter, PollEnter
  <2>2. held' \in {0, held}
    BY <1>3 DEF Enter, PollEnter, NotPolling
  <2>3. Clearing(u, j)' = Clearing(u, j)
    BY <1>3 DEF Enter, PollEnter, NotPolling, Clearing
  <2>4. QED
    BY <1>0, <2>1, <2>2, <2>3, SMTT(30)
<1>4. ASSUME NEW t \in Threads, KeyPollTest(t), UNCHANGED <<raised, reports>>
      PROVE  Goal'
  <2>1. UNCHANGED eventFlag
    BY <1>4 DEF KeyPollTest
  <2>2. CASE u = t /\ Head(call[t].todo) = j
    <3>1. pending' = 0 /\ ~Clearing(u, j)
      BY <1>4, <2>2 DEF KeyPollTest, Clearing, PollCall
    <3>2. held' = IF eventFlag[j] THEN 1 ELSE held
      BY <1>4, <2>2 DEF KeyPollTest, PollCall
    <3>3. QED
      BY <1>0, <1>4, <3>1, <3>2, SMTT(30)
  <2>3. CASE ~(u = t /\ Head(call[t].todo) = j)
    <3>1. held' = held
      BY <1>4, <2>3 DEF KeyPollTest, PollCall
    <3>2. Clearing(u, j)' = Clearing(u, j)
      BY <1>4, <2>3 DEF KeyPollTest, Clearing, PollCall
    <3>3. QED
      BY <1>0, <1>4, <2>1, <3>1, <3>2
  <2>4. QED
    BY <2>2, <2>3
<1>5. ASSUME NEW t \in Threads, KeyPollClear(t), UNCHANGED <<raised, reports>>
      PROVE  Goal'
  <2>1. held' = held
    BY <1>5 DEF KeyPollClear, PollCall
  <2>2. CASE Head(call[t].todo) = j
    <3>1. pending' = 0
      BY <1>5, <2>2 DEF KeyPollClear
    <3>2. QED
      BY <1>0, <1>5, <2>1, <3>1, SMTT(30)
  <2>3. CASE Head(call[t].todo) # j
    <3>1. eventFlag'[j] = eventFlag[j]
      BY <1>5, <2>3 DEF KeyPollClear
    <3>2. Clearing(u, j) => u # t
      BY <2>3 DEF Clearing
    <3>3. Clearing(u, j) => Clearing(u, j)'
      BY <1>5, <3>2 DEF KeyPollClear, Clearing
    <3>4. QED
      BY <1>0, <1>5, <2>1, <3>1, <3>3, SMTT(30)
  <2>4. QED
    BY <2>2, <2>3
<1>6. ASSUME NEW t \in Threads, NEW late \in BOOLEAN, AnotherPass(t, late),
             UNCHANGED <<raised, reports>>
      PROVE  Goal'
  <2>1. UNCHANGED eventFlag /\ held' = held
    BY <1>6 DEF AnotherPass, PollCall
  <2>2. Clearing(u, j)' = Clearing(u, j)
    BY <1>6 DEF AnotherPass, Clearing, PollCall
  <2>3. QED
    BY <1>0, <1>6, <2>1, <2>2
<1>7. ASSUME NEW t \in Threads, Return(t) PROVE Goal'
  <2>1. UNCHANGED <<eventFlag, raised>>
    BY <1>7 DEF Return, PollReturn
  <2>2. Clearing(u, j)' = Clearing(u, j)
    BY <1>7 DEF Return, PollReturn, NotPolling, Clearing
  <2>3. CASE u = t
    <3>1. held' = 0
      BY <1>7, <2>3 DEF Return, PollReturn, NotPolling
    <3>2. reports'[u][j] = reports[u][j] + held
      BY <1>0, <1>7, <2>3 DEF Return
    <3>3. QED
      BY <1>0, <2>1, <2>2, <3>1, <3>2, SMTT(30)
  <2>4. CASE u # t
    <3>1. held' = held /\ reports'[u] = reports[u]
      BY <1>7, <2>4 DEF Return, PollReturn
    <3>2. QED
      BY <1>0, <2>1, <2>2, <3>1
  <2>5. QED
    BY <2>3, <2>4
<1>8. CASE UNCHANGED vars
  BY <1>0, <1>8 DEF vars, Clearing
<1>9. QED
  BY <1>1, <1>2, <1>3, <1>4, <1>5, <1>6, <1>7, <1>8
  DEF Next, Thread, Poll, PollStep, PollWoken, PollTimeout

\* No thread is told of more events of a key than its interrupt raised,
\* whatever the interleaving of the unlocked test and clear of event_flag.
THEOREM PressBudgetHolds == Spec => []PressBudget
<1>1. Init => TypeInv /\ PressBudget
  BY InitTypeInv, InitPressBudget
<1>2. TypeInv /\ PressBudget /\ [Next]_vars => (TypeInv /\ PressBudget)'
  BY NextTypeInv, NextPressBudget
<1>3. QED
  BY <1>1, <1>2, PTL DEF Spec

----------------------------------------------------------------------------
(* What is kept.                                                           *)

\* A step loses no event that is kept, unless it returns it to a thread.
LEMMA NextKept ==
  ASSUME TypeInv, IdleOK, [Next]_vars, NEW j \in Keys, Kept(j), ~Kept(j)'
  PROVE  \E t \in Threads : reports'[t][j] = reports[t][j] + 1
<1> USE DEF TypeInv, TypeOK, KeyTypeInv
<1>1. ASSUME NEW k \in Keys, Edge(k) \/ Count(k) PROVE FALSE
  BY <1>1, IsrKeeps DEF Edge, Count
<1>2. ASSUME NEW t \in Threads, Enter(t) \/ Poll(t) PROVE FALSE
  BY <1>2, PassKeeps, PollStepKeeps DEF Enter, Poll
<1>3. ASSUME NEW t \in Threads, Return(t) PROVE reports'[t][j] = reports[t][j] + 1
  <2>1. j \in call[t].ready
    BY <1>3, ReturnKeeps DEF Return
  <2>2. QED
    BY <1>3, <2>1 DEF Return
<1>4. CASE UNCHANGED vars
  BY <1>4, KeyStutterKeeps DEF vars, keyVars
<1>5. QED
  BY <1>1, <1>2, <1>3, <1>4 DEF Next, Thread

\* KeptUntilReported: an event that no poller is about to overwrite when it is counted
\* is returned to some thread, if any step ends it, for any number of threads and keys
\* (key_driver.c:47-51).
THEOREM KeptIsReported == Spec => KeptUntilReported
<1>1. Init => IdleOK
  BY KeyInitIdle DEF Init
<1>2. TypeInv /\ IdleOK /\ [Next]_vars => IdleOK'
  <2> SUFFICES ASSUME TypeInv, IdleOK, [Next]_vars PROVE IdleOK'
    OBVIOUS
  <2>1. KeyTypeInv
    BY DEF TypeInv, TypeOK, KeyTypeInv
  <2>2. \/ \E k \in Keys : IsrWake(k) \/ IsrCount(k)
        \/ \E t \in Threads : PollStep(t) \/ PollReturn(t) \/ \E keys : PollEnter(t, keys)
        \/ UNCHANGED keyVars
    BY DEF Next, Thread, Edge, Count, Enter, Poll, Return, vars, keyVars
  <2>3. QED
    BY <2>1, <2>2, KeyStepIdle
<1>3. TypeInv /\ IdleOK /\ [Next]_vars
        => [\A k \in Keys : Kept(k) /\ ~Kept(k)' =>
              \E t \in Threads : reports'[t][k] = reports[t][k] + 1]_vars
  BY NextKept
<1>4. QED
  BY <1>1, <1>2, <1>3, TypeInvariant, PTL DEF Spec, KeptUntilReported

----------------------------------------------------------------------------
(* Refinement: counting an interrupt is Raise, the return of poll(2) is    *)
(* Report, and everything else stutters.                                   *)

\* A poll(2) call that returns reports only interrupts that were raised.
LEMMA ReturnIsReport ==
  ASSUME TypeInv, PressBudget, NEW t \in Threads, Return(t)
  PROVE  Latch!Next
<1> DEFINE ready == call[t].ready
<1>1. ready \in SUBSET Keys
  BY DEF TypeInv, TypeOK, KeyTypeOK, PollCall
<1>2. ASSUME NEW k \in ready PROVE reports[t][k] < raised[k]
  <2>1. k \in Keys
    BY <1>1, <1>2
  <2>2. /\ reports[t][k] \in Nat
        /\ raised[k] \in Nat
    BY <2>1 DEF TypeInv, TypeOK
  <2>3. reports[t][k] + 1 <= raised[k]
    <3>1. \E pending \in {0, 1} : reports[t][k] + 1 + pending <= raised[k]
      BY <1>2, <2>1 DEF PressBudget
    <3>2. QED
      BY <2>2, <3>1
  <2>4. QED
    BY <2>2, <2>3
<1>3. Latch!Report(t, ready)
  BY <1>2 DEF Return, Latch!Report
<1>4. QED
  BY <1>1, <1>3 DEF Latch!Next

\* Every step of the drivers is a step of the latch or leaves it alone.
LEMMA StepImplementsLatch ==
  TypeInv /\ PressBudget /\ [Next]_vars => [Latch!Next]_(Latch!latchVars)
<1> SUFFICES ASSUME TypeInv, PressBudget, [Next]_vars
             PROVE  Latch!Next \/ UNCHANGED <<raised, reports>>
  BY DEF Latch!latchVars
<1>1. ASSUME NEW k \in Keys, Edge(k) PROVE UNCHANGED <<raised, reports>>
  BY <1>1 DEF Edge
<1>2. ASSUME NEW k \in Keys, Count(k) PROVE Latch!Next
  BY <1>2 DEF Count, Latch!Next, Latch!Raise
<1>3. ASSUME NEW t \in Threads, Enter(t) PROVE UNCHANGED <<raised, reports>>
  BY <1>3 DEF Enter
<1>4. ASSUME NEW t \in Threads, Poll(t) PROVE UNCHANGED <<raised, reports>>
  BY <1>4 DEF Poll
<1>5. ASSUME NEW t \in Threads, Return(t) PROVE Latch!Next
  BY <1>5, ReturnIsReport
<1>6. CASE UNCHANGED vars
  BY <1>6 DEF vars
<1>7. QED
  BY <1>1, <1>2, <1>3, <1>4, <1>5, <1>6 DEF Next, Thread

\* The drivers together with poll(2) implement the abstract latch: every
\* event reported was raised, and none is reported twice to a thread.
THEOREM DriversImplementLatch == Spec => ImplementsLatch
<1>1. Init => Latch!Init
  BY DEF Init, Latch!Init
<1>2. QED
  BY <1>1, StepImplementsLatch, TypeInvariant, PressBudgetHolds, PTL
  DEF Spec, ImplementsLatch, Latch!Spec

----------------------------------------------------------------------------
(* The key demonstration.                                                  *)

\* A remainder is unique.
LEMMA ModUnique ==
  ASSUME NEW c \in Nat \ {0}, NEW q \in Int, NEW r \in 0 .. c - 1
  PROVE  (q * c + r) % c = r
<1>1. PICK m \in Int : m = q * c + r
  OBVIOUS
<1>2. PICK d \in Int, s \in 0 .. c - 1 : m = d * c + s /\ m % c = s
  <2>1. m = (m \div c) * c + (m % c) /\ m % c \in 0 .. c - 1 /\ m \div c \in Int
    OBVIOUS
  <2>2. QED
    BY <2>1, Zenon
<1>3. (d - q) * c = r - s
  BY <1>1, <1>2
<1>4. d - q < 1
  <2> SUFFICES ASSUME d - q >= 1 PROVE FALSE
    OBVIOUS
  <2>1. (d - q) * c >= c
    OBVIOUS
  <2>2. QED
    BY <1>3, <2>1
<1>5. d - q > -1
  <2> SUFFICES ASSUME d - q <= -1 PROVE FALSE
    OBVIOUS
  <2>1. (d - q) * c <= -c
    OBVIOUS
  <2>2. QED
    BY <1>3, <2>1
<1>6. d = q
  BY <1>4, <1>5
<1>7. QED
  BY <1>1, <1>2, <1>6

\* One more, counted in a char, is one more.
LEMMA CharSucc ==
  ASSUME NEW c \in Nat \ {0}, NEW n \in Nat
  PROVE  n % c \in 0 .. c - 1 /\ ((n % c) + 1) % c = (n + 1) % c
<1>1. PICK q \in Int, r \in 0 .. c - 1 : n = q * c + r /\ n % c = r
  <2>1. n = (n \div c) * c + (n % c) /\ n % c \in 0 .. c - 1 /\ n \div c \in Int
    OBVIOUS
  <2>2. QED
    BY <2>1, Zenon
<1>2. CASE r + 1 < c
  <2>1. r + 1 \in 0 .. c - 1 /\ n + 1 = q * c + (r + 1)
    BY <1>1, <1>2
  <2>2. (n + 1) % c = r + 1
    BY <2>1, ModUnique
  <2>3. 0 * c + (r + 1) = r + 1
    OBVIOUS
  <2>4. (r + 1) % c = r + 1
    BY <2>1, <2>3, ModUnique
  <2>5. QED
    BY <1>1, <2>2, <2>4
<1>3. CASE r + 1 = c
  <2>1. 0 \in 0 .. c - 1 /\ q + 1 \in Int /\ n + 1 = (q + 1) * c + 0 /\ r + 1 = 1 * c + 0
    BY <1>1, <1>3
  <2>2. (n + 1) % c = 0
    BY <2>1, ModUnique
  <2>3. (r + 1) % c = 0
    BY <2>1, ModUnique
  <2>4. QED
    BY <1>1, <2>2, <2>3
<1>4. QED
  BY <1>1, <1>2, <1>3

\* The driver's count is that of the presses in a char, those that are due have
\* happened, and only a program that polls is inside poll(2): with the types it is
\* inductive.
LedInv ==
  /\ LedTypeOK /\ PassOK
  /\ tmp_buf = presses % CharValues
  /\ due <= completed /\ completed <= presses
  /\ pc # "poll" => call[App].phase = "idle"
  /\ ShownCountIsCurrent

\* Nothing was pressed at first.
LEMMA InitLedInv == LedInit => LedInv
<1> SUFFICES ASSUME LedInit PROVE LedInv
  OBVIOUS
<1>1. KeyTypeOK /\ PassOK
  BY KeyInitType DEF LedInit, KeyTypeInv
<1>2. 0 % CharValues = 0 /\ 0 \in 0 .. CharValues - 1
  <2>1. 0 * CharValues + 0 = 0 /\ 0 \in Int /\ 0 \in 0 .. CharValues - 1
    BY KeyLedAssumption
  <2>2. QED
    BY <2>1, KeyLedAssumption, ModUnique
<1>3. call[App].phase = "idle"
  BY KeyLedAssumption DEF LedInit, KeyInit, NotPolling
<1>4. QED
  BY <1>1, <1>2, <1>3 DEF LedInit, LedInv, LedTypeOK, ShownCountIsCurrent

\* What the program has shown stays current while presses are counted.
LEMMA ShownStays ==
  ASSUME ShownCountIsCurrent, presses \in Nat, due \in Nat, pc' = pc, key' = key, due' = due,
         presses' \in Nat, presses <= presses'
  PROVE  ShownCountIsCurrent'
<1>1. due .. presses \subseteq due' .. presses'
  OBVIOUS
<1>2. QED
  BY <1>1 DEF ShownCountIsCurrent

\* Every step of the driver and of the program keeps it.
LEMMA NextLedInv == LedInv /\ [LedNext]_ledVars => LedInv'
<1> SUFFICES ASSUME LedInv, [LedNext]_ledVars PROVE LedInv'
  OBVIOUS
<1> USE KeyLedAssumption DEF appVars
<1>0. /\ KeyTypeInv /\ Key \in Keys /\ App \in Threads /\ <<Key>> \in Seq(Keys) /\ <<Key>> # <<>>
      /\ tmp_buf \in 0 .. CharValues - 1 /\ key \in 0 .. CharValues - 1
      /\ led \in {"on", "off"} /\ pc \in {"off", "poll", "read", "sleep"}
      /\ presses \in Nat /\ completed \in Nat /\ due \in Nat
      /\ 0 \in 0 .. CharValues - 1
      /\ call \in [Threads -> PollCall]
  BY DEF LedInv, LedTypeOK, KeyTypeInv, KeyTypeOK
<1>1. CASE Press
  <2>1. KeyTypeInv'
    BY <1>0, <1>1, IsrWakeType DEF Press
  <2>2. tmp_buf' = presses' % CharValues /\ tmp_buf' \in 0 .. CharValues - 1
        /\ presses' = presses + 1 /\ presses' \in Nat
    <3>1. presses' = presses + 1 /\ tmp_buf' = ((presses % CharValues) + 1) % CharValues
      BY <1>1 DEF Press, Incremented, LedInv
    <3>2. ((presses % CharValues) + 1) % CharValues = (presses + 1) % CharValues
      BY <1>0, CharSucc
    <3>3. presses + 1 \in Nat
      BY <1>0
    <3>4. (presses + 1) % CharValues \in 0 .. CharValues - 1
      BY <3>3, CharSucc
    <3>5. QED
      BY <3>1, <3>2, <3>3, <3>4
  <2>3. call'[App].phase = call[App].phase
    BY <1>0, <1>1 DEF Press, IsrWake, PollCall
  <2>4. UNCHANGED <<led, pc, key, completed, due>>
    BY <1>1 DEF Press
  <2>5. ShownCountIsCurrent'
    BY <1>0, <2>2, <2>4, ShownStays DEF LedInv
  <2>6. QED
    BY <1>0, <2>1, <2>2, <2>3, <2>4, <2>5 DEF LedInv, LedTypeOK, KeyTypeInv
<1>2. CASE Bounce
  <2>1. KeyTypeInv'
    BY <1>0, <1>2, IsrWakeType DEF Bounce
  <2>2. call'[App].phase = call[App].phase
    BY <1>0, <1>2 DEF Bounce, IsrWake, PollCall
  <2>3. UNCHANGED appVars
    BY <1>2 DEF Bounce
  <2>4. QED
    BY <1>0, <2>1, <2>2, <2>3 DEF LedInv, LedTypeOK, KeyTypeInv, ShownCountIsCurrent
<1>3. CASE CountPress
  <2>1. KeyTypeInv' /\ call' = call
    BY <1>0, <1>3, IsrCountType DEF CountPress, IsrCount
  <2>2. completed' = presses /\ UNCHANGED <<tmp_buf, led, pc, key, presses, due>>
    BY <1>3 DEF CountPress
  <2>3. due' <= completed' /\ completed' <= presses'
    BY <1>0, <2>2 DEF LedInv
  <2>4. QED
    BY <1>0, <2>1, <2>2, <2>3 DEF LedInv, LedTypeOK, KeyTypeInv, ShownCountIsCurrent
<1>4. CASE Launch
  BY <1>0, <1>4 DEF Launch, keyVars, LedInv, LedTypeOK, KeyTypeOK, PassOK, ShownCountIsCurrent
<1>5. CASE Wait
  <2>1. KeyTypeInv' /\ UNCHANGED appVars /\ pc = "poll"
    BY <1>0, <1>5, PollEnterType DEF Wait
  <2>2. QED
    BY <1>0, <2>1 DEF LedInv, LedTypeOK, KeyTypeInv, ShownCountIsCurrent
<1>6. CASE LedPoll
  <2>1. KeyTypeInv' /\ UNCHANGED <<tmp_buf, led, pc, key, presses, completed>>
    BY <1>0, <1>6, PollStepType DEF LedPoll
  <2>2. call[App].phase # "idle"
    BY <1>6 DEF LedPoll, PollStep, KeyPollTest, KeyPollClear, PollWoken, PollTimeout, AnotherPass
  <2>3. pc = "poll"
    BY <2>2 DEF LedInv
  <2>4. due' \in Nat /\ due' <= completed'
    BY <1>0, <1>6, <2>1 DEF LedPoll, LedInv
  <2>5. QED
    BY <1>0, <2>1, <2>3, <2>4 DEF LedInv, LedTypeOK, KeyTypeInv, ShownCountIsCurrent
<1>7. CASE NoEvent \/ Event
  <2>1. PollReturn(App) /\ led' \in {"on", "off"} /\ pc' \in {"poll", "read"}
        /\ UNCHANGED <<tmp_buf, key, presses, completed, due>>
    BY <1>7 DEF NoEvent, Event, KeyWrite
  <2>2. KeyTypeInv' /\ call'[App].phase = "idle"
    BY <1>0, <2>1, PollReturnType DEF PollReturn, NotPolling
  <2>3. QED
    BY <1>0, <2>1, <2>2 DEF LedInv, LedTypeOK, KeyTypeInv, ShownCountIsCurrent
<1>8. CASE Read
  <2>1. pc = "read" /\ pc' = "sleep" /\ key' = tmp_buf
        /\ UNCHANGED <<keyVars, tmp_buf, led, presses, completed, due>>
    BY <1>8 DEF Read
  <2>2. KeyTypeInv' /\ call'[App].phase = "idle"
    BY <1>0, <2>1, KeyStutterType DEF keyVars, LedInv
  <2>3. presses \in due .. presses
    BY <1>0 DEF LedInv
  <2>4. ShownCountIsCurrent'
    BY <2>1, <2>3 DEF LedInv, ShownCountIsCurrent
  <2>5. QED
    BY <1>0, <2>1, <2>2, <2>4 DEF LedInv, LedTypeOK, KeyTypeInv
<1>9. CASE Wake
  BY <1>0, <1>9 DEF Wake, keyVars, LedInv, LedTypeOK, KeyTypeOK, PassOK, ShownCountIsCurrent
<1>10. CASE Gone
  <2>1. call' = [call EXCEPT ![App] = NotPolling] /\ pc' = "off"
        /\ UNCHANGED <<eventFlag, isr, tmp_buf, led, key, presses, completed, due>>
    BY <1>10 DEF Gone
  <2>2. KeyTypeInv' /\ call'[App].phase = "idle"
    BY <1>0, <2>1, NotPollingType DEF KeyTypeInv, KeyTypeOK, PassOK, NotPolling
  <2>3. QED
    BY <1>0, <2>1, <2>2 DEF LedInv, LedTypeOK, KeyTypeInv, ShownCountIsCurrent
<1>11. CASE UNCHANGED ledVars
  BY <1>0, <1>11 DEF ledVars, keyVars, LedInv, LedTypeOK, KeyTypeOK, PassOK, ShownCountIsCurrent
<1>12. QED
  BY <1>1, <1>2, <1>3, <1>4, <1>5, <1>6, <1>7, <1>8, <1>9, <1>10, <1>11 DEF LedNext, Program

\* LedInv holds in every state of the demonstration.
LEMMA LedInvariant == LedSpec => []LedInv
  BY InitLedInv, NextLedInv, PTL DEF LedSpec

\* LedTypeOK: the count that the driver keeps and the number the program shows fit a
\* char, whatever its size and however often the key is pressed
\* (code/key/key_driver.c:34-35).
THEOREM LedTypeCorrect == LedSpec => []LedTypeOK
<1>1. LedInv => LedTypeOK
  BY DEF LedInv
<1>2. QED
  BY <1>1, LedInvariant, PTL

\* ShownCountIsCurrent: the number shown for an event leaves out no press whose
\* handler had returned when the event was found, although the event is cleared first
\* and the count read later (code/key/key_driver.c:34-48, test_key.c:47-54).
THEOREM ShownIsCurrent == LedSpec => []ShownCountIsCurrent
<1>1. LedInv => ShownCountIsCurrent
  BY DEF LedInv
<1>2. QED
  BY <1>1, LedInvariant, PTL

\* A press that is visible is not lost before it is shown, ...
KeptUntilShown == [][Kept(Key) => Kept(Key)' \/ pc' \in {"read", "off"}]_ledVars

\* ... as every step of the demonstration is one that keeps it, the return of a poll
\* that found it, or the end of the program.
LEMMA LedNextKept ==
  ASSUME LedInv, IdleOK, [LedNext]_ledVars
  PROVE  IdleOK' /\ (Kept(Key) => Kept(Key)' \/ pc' \in {"read", "off"})
<1> USE KeyLedAssumption
<1>0. KeyTypeInv
  BY DEF LedInv, LedTypeOK, KeyTypeInv
<1>1. CASE Press \/ Bounce \/ CountPress
  BY <1>0, <1>1, KeyStepIdle, IsrKeeps DEF Press, Bounce, CountPress
<1>2. CASE Launch \/ Read \/ Wake \/ UNCHANGED ledVars
  BY <1>0, <1>2, KeyStepIdle, KeyStutterKeeps DEF Launch, Read, Wake, ledVars
<1>3. CASE Wait
  BY <1>0, <1>3, KeyStepIdle, PassKeeps DEF Wait
<1>4. CASE LedPoll
  BY <1>0, <1>4, KeyStepIdle, PollStepKeeps DEF LedPoll
<1>5. CASE NoEvent
  <2>1. Key \notin call[App].ready /\ PollReturn(App)
    BY <1>5 DEF NoEvent
  <2>2. QED
    BY <1>0, <2>1, KeyStepIdle, ReturnKeeps
<1>6. CASE Event
  BY <1>0, <1>6, KeyStepIdle DEF Event
<1>7. CASE Gone
  BY <1>7 DEF Gone, NotPolling, IdleOK
<1>8. QED
  BY <1>1, <1>2, <1>3, <1>4, <1>5, <1>6, <1>7 DEF LedNext, Program

\* A press that no poll is about to overwrite when it is counted is kept until a poll
\* returns it to the program, also while that sleeps for two seconds
\* (code/key/key_driver.c:43-54, test_key.c:31-57).
THEOREM PressIsKeptUntilShown == LedSpec => KeptUntilShown
<1>1. LedInit => IdleOK
  BY KeyInitIdle DEF LedInit
<1>2. LedInv /\ IdleOK /\ [LedNext]_ledVars
        => IdleOK' /\ [Kept(Key) => Kept(Key)' \/ pc' \in {"read", "off"}]_ledVars
  BY LedNextKept
<1>3. QED
  BY <1>1, <1>2, LedInvariant, PTL DEF LedSpec, KeptUntilShown
=============================================================================
