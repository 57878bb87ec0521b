------------------------- MODULE OutputDriverProofs -------------------------
(***************************************************************************)
(* What is proved about opening and releasing a device, for every set of   *)
(* processes, and about what the output drivers put out, for displays of   *)
(* every size and for every picture of a value.                            *)
(***************************************************************************)
EXTENDS OutputDriver, SequenceTheorems, TLAPS

----------------------------------------------------------------------------
(* Open and release.                                                       *)

\* A process that holds a key device is the one the interrupt line is from.
HolderHasIrq == interrupt => \A p \in Procs : Holds(p) => irq = p

\* And the interrupt is that of a process that holds the device; only a line
\* that is requested interrupts.
IrqHasHolder ==
  /\ irq # None => irq \in Procs /\ Holds(irq) /\ interrupt
  /\ handler => irq # None

\* Only a driver with an interrupt requests and frees it.
RequestsInterrupt == \A p \in Procs : pc[p] \in {"request", "free"} => interrupt

\* A process that opens or has opened the device keeps the module loaded.
UsedIsLoaded == \A p \in Procs : pc[p] # "closed" => loaded

\* Without a race only one process is inside, and from the setting of the
\* flag to the release the flag is 1.
OneInside ==
  ~raced =>
    /\ \A p, q \in Procs : pc[p] # "closed" /\ pc[q] # "closed" => p = q
    /\ \A p \in Procs : pc[p] \in {"map", "configure", "request", "open"} => usage = 1
    /\ \A p \in Procs : pc[p] # "dead"

\* All of it together, with the properties themselves: it is inductive.
LifecycleInv ==
  /\ TypeOK
  /\ HolderHasIrq
  /\ IrqHasHolder
  /\ UsedIsLoaded
  /\ RequestsInterrupt
  /\ OneInside
  /\ MappedUnlessRaced
  /\ BusyHasCause

\* The variables that are TRUE or FALSE.
Flags == interrupt \in BOOLEAN /\ loaded \in BOOLEAN /\ handler \in BOOLEAN
           /\ failed \in BOOLEAN /\ raced \in BOOLEAN

\* They stay so.
LEMMA NextFlags == Flags /\ [Next]_vars => Flags'
BY ZenonT(40) DEF Flags, Next, vars, Go, Races, OpenTest, OpenTake, OpenMap, OpenMapFails,
     OpenPins, OpenFaults, OpenRequest, OpenRequestFails, ReleaseUsage, ReleaseUnmap,
     ReleaseFree, Edge, HandlerReads, Exit, Load

\* A fresh module has no holder.
LEMMA InitLifecycle == Init => LifecycleInv
<1>1. Init => Flags /\ ~handler /\ ~failed /\ ~raced
  BY Zenon DEF Init, Flags
<1>2. QED
  BY <1>1, NoneAssumption
  DEF Init, Flags, LifecycleInv, TypeOK, HolderHasIrq, IrqHasHolder, RequestsInterrupt,
      UsedIsLoaded, OneInside, MappedUnlessRaced, BusyHasCause, Holds

\* Every step keeps the types, the tie between holder and interrupt, and what
\* holds while nobody raced.
LEMMA NextLifecycle == LifecycleInv /\ [Next]_vars => LifecycleInv'
<1> SUFFICES ASSUME LifecycleInv, [Next]_vars PROVE LifecycleInv'
  OBVIOUS
<1>0. Flags'
  BY NextFlags, Zenon DEF LifecycleInv, TypeOK, Flags
<1> USE <1>0, NoneAssumption DEF Flags, LifecycleInv, TypeOK, HolderHasIrq, IrqHasHolder,
             RequestsInterrupt, UsedIsLoaded, OneInside, MappedUnlessRaced, BusyHasCause,
             Holds, Go, Races
<1>1. ASSUME NEW p \in Procs, OpenTest(p) PROVE LifecycleInv'
  BY <1>1 DEF OpenTest
<1>2. ASSUME NEW p \in Procs, OpenTake(p) PROVE LifecycleInv'
  BY <1>2 DEF OpenTake
<1>3. ASSUME NEW p \in Procs, OpenMap(p) PROVE LifecycleInv'
  BY <1>3 DEF OpenMap
<1>4. ASSUME NEW p \in Procs, OpenMapFails(p) PROVE LifecycleInv'
  BY <1>4 DEF OpenMapFails
<1>5. ASSUME NEW p \in Procs, OpenPins(p) PROVE LifecycleInv'
  BY <1>5 DEF OpenPins
<1>6. ASSUME NEW p \in Procs, OpenFaults(p) PROVE LifecycleInv'
  BY <1>6 DEF OpenFaults
<1>7. ASSUME NEW p \in Procs, OpenRequest(p) PROVE LifecycleInv'
  BY <1>7 DEF OpenRequest
<1>8. ASSUME NEW p \in Procs, OpenRequestFails(p) PROVE LifecycleInv'
  BY <1>8 DEF OpenRequestFails
<1>9. ASSUME NEW p \in Procs, ReleaseUsage(p) PROVE LifecycleInv'
  BY <1>9 DEF ReleaseUsage
<1>10. ASSUME NEW p \in Procs, ReleaseUnmap(p) PROVE LifecycleInv'
  BY <1>10 DEF ReleaseUnmap
<1>11. ASSUME NEW p \in Procs, ReleaseFree(p) PROVE LifecycleInv'
  BY <1>11 DEF ReleaseFree
<1>12. CASE Edge
  BY <1>12 DEF Edge
<1>13. CASE HandlerReads
  BY <1>13 DEF HandlerReads
<1>14. CASE Exit
  BY <1>14 DEF Exit
<1>15. CASE Load
  BY <1>15 DEF Load
<1>16. CASE UNCHANGED vars
  BY <1>16 DEF vars
<1>17. QED
  BY <1>1, <1>2, <1>3, <1>4, <1>5, <1>6, <1>7, <1>8, <1>9, <1>10, <1>11, <1>12,
     <1>13, <1>14, <1>15, <1>16
  DEF Next

\* The driver, its module and the processes always have their types.
THEOREM TypeCorrect == Spec => []TypeOK
<1>1. LifecycleInv => TypeOK
  BY DEF LifecycleInv
<1>2. QED
  BY <1>1, InitLifecycle, NextLifecycle, PTL DEF Spec

\* At most one process holds a key device, whatever the order of the unlocked
\* steps of open and release.
THEOREM AtMostOneHolder == Spec => []OneHolder
<1>1. LifecycleInv => OneHolder
  BY NoneAssumption DEF LifecycleInv, HolderHasIrq, OneHolder
<1>2. QED
  BY <1>1, InitLifecycle, NextLifecycle, PTL DEF Spec

\* No interrupt reaches a key module that was removed.
THEOREM InterruptFindsModule == Spec => []HandlerIsLoaded
<1>1. LifecycleInv => HandlerIsLoaded
  BY NoneAssumption DEF LifecycleInv, IrqHasHolder, UsedIsLoaded, HandlerIsLoaded, Holds
<1>2. QED
  BY <1>1, InitLifecycle, NextLifecycle, PTL DEF Spec

\* Without a race, whoever opens or has opened a device finds its registers mapped.
THEOREM RegistersAreMapped == Spec => []MappedUnlessRaced
<1>1. LifecycleInv => MappedUnlessRaced
  BY DEF LifecycleInv
<1>2. QED
  BY <1>1, InitLifecycle, NextLifecycle, PTL DEF Spec

\* The flag is set only while a process opens or has the device, or after an open
\* failed.
THEOREM BusyOnlyWithCause == Spec => []BusyHasCause
<1>1. LifecycleInv => BusyHasCause
  BY DEF LifecycleInv
<1>2. QED
  BY <1>1, InitLifecycle, NextLifecycle, PTL DEF Spec

----------------------------------------------------------------------------
(* Arithmetic, and the stores of a loop.                                   *)

\* Division with remainder, ...
LEMMA DivMod ==
  ASSUME NEW v \in Nat, NEW b \in Nat \ {0}
  PROVE  v \div b \in Nat /\ v % b \in 0..(b - 1) /\ v = b * (v \div b) + (v % b)
  OBVIOUS

\* ... and of a number below twice the divisor.
LEMMA DivModSmall ==
  ASSUME NEW v \in Nat, NEW b \in Nat \ {0}
  PROVE  /\ v < b => v \div b = 0
         /\ b <= v /\ v < 2 * b => v \div b = 1 /\ v % b = v - b
<1>1. PICK q \in Nat, r \in 0..(b - 1) : q = v \div b /\ r = v % b /\ v = b * q + r
  BY DivMod
<1>2. CASE q = 0
  BY <1>1, <1>2
<1>3. CASE q = 1
  BY <1>1, <1>3
<1>4. CASE q >= 2
  <2>1. b * q = b * (q - 2) + 2 * b
    OBVIOUS
  <2>2. b * (q - 2) >= 0
    BY <1>4
  <2>3. v >= 2 * b
    BY <1>1, <2>1, <2>2
  <2>4. QED
    BY <2>3
<1>5. QED
  BY <1>2, <1>3, <1>4

\* Store j of body k is number size * k + j of a loop.
LEMMA LoopIndex ==
  ASSUME NEW n \in Nat, NEW size \in {2, 4}
  PROVE  /\ n * size = size * n /\ size * n \in Nat
         /\ \A k \in 0..(n - 1), j \in 1..size :
              /\ size * k + j \in 1..(size * n)
              /\ ((size * k + j) - 1) \div size = k
              /\ (((size * k + j) - 1) % size) + 1 = j
         /\ \A m \in 1..(size * n) :
              /\ (m - 1) \div size \in 0..(n - 1)
              /\ ((m - 1) % size) + 1 \in 1..size
              /\ m = size * ((m - 1) \div size) + (((m - 1) % size) + 1)
<1>1. CASE size = 2
  BY <1>1
<1>2. CASE size = 4
  BY <1>2
<1>3. QED
  BY <1>1, <1>2

\* The bodies of a loop are size stores each, and w is what the loop stores.
Bodies(n, size, body, S) == \A k \in 0..(n - 1), j \in 1..size : body[k][j] \in S

IsLoop(w, n, size, body, S) ==
  /\ w \in Seq(S) /\ Len(w) = size * n
  /\ \A k \in 0..(n - 1), j \in 1..size : w[size * k + j] = body[k][j]

\* The stores of a loop are those of its bodies, one after the other; ...
LEMMA LoopStores ==
  ASSUME NEW n \in Nat, NEW size \in {2, 4}, NEW body, NEW S, Bodies(n, size, body, S)
  PROVE  IsLoop(Loop(n, size, body), n, size, body, S)
<1>1. Loop(n, size, body) =
        [m \in 1..(size * n) |-> body[(m - 1) \div size][((m - 1) % size) + 1]]
  BY LoopIndex DEF Loop
<1>2. \A m \in 1..(size * n) : body[(m - 1) \div size][((m - 1) % size) + 1] \in S
  BY LoopIndex DEF Bodies
<1>3. size * n \in Nat
  BY LoopIndex
<1>4. Loop(n, size, body) \in Seq(S) /\ Len(Loop(n, size, body)) = size * n
  BY <1>1, <1>2, <1>3
<1>5. ASSUME NEW k \in 0..(n - 1), NEW j \in 1..size
      PROVE  Loop(n, size, body)[size * k + j] = body[k][j]
  <2> DEFINE m == size * k + j
  <2>1. m \in 1..(size * n) /\ (m - 1) \div size = k /\ ((m - 1) % size) + 1 = j
    BY LoopIndex
  <2> HIDE DEF m
  <2>2. Loop(n, size, body)[m] = body[k][j]
    BY <1>1, <2>1
  <2>3. QED
    BY <2>2 DEF m
<1>6. QED
  BY <1>4, <1>5 DEF IsLoop

\* ... here for the displays ...
LEMMA LoopOfFour ==
  ASSUME NEW n \in Nat, NEW body, NEW S, Bodies(n, 4, body, S)
  PROVE  IsLoop(Loop(n, 4, body), n, 4, body, S)
<1>1. 4 \in {2, 4}
  OBVIOUS
<1>2. QED
  BY <1>1, LoopStores, Zenon

\* ... and for the servo motor.
LEMMA LoopOfTwo ==
  ASSUME NEW n \in Nat, NEW body, NEW S, Bodies(n, 2, body, S)
  PROVE  IsLoop(Loop(n, 2, body), n, 2, body, S)
<1>1. 2 \in {2, 4}
  OBVIOUS
<1>2. QED
  BY <1>1, LoopStores, Zenon

\* Which numbers led_write takes for digits, and which for gauges.
LEMMA GaugeArithmetic ==
  /\ \A v \in 0..(Base - 1) : v \div Base = 0
  /\ \A v \in Base..(Base + N) : v \div Base = 1 /\ v % Base \in 0..N
<1>1. Base \in Nat \ {0} /\ N \in Nat /\ N < Base
  BY OutputAssumption
<1>2. ASSUME NEW v \in 0..(Base - 1) PROVE v \div Base = 0
  BY <1>1, DivModSmall
<1>3. ASSUME NEW v \in Base..(Base + N) PROVE v \div Base = 1 /\ v % Base \in 0..N
  <2>1. v \in Nat /\ Base <= v /\ v < 2 * Base
    BY <1>1
  <2>2. v \div Base = 1 /\ v % Base = v - Base
    BY <1>1, <2>1, DivModSmall
  <2>3. QED
    BY <1>1, <2>2
<1>4. QED
  BY <1>2, <1>3

\* The lines whose pins are high, and the rows of a matrix whose row pins begin at first.
Columns(high) == {l \in Lines : 10 + l \in high}
Rows(first, high) == {i \in Lines : first + i \in high}

\* The lines and rows are numbered from 0, at most 8 of them: so the pins from 2, from
\* 10 and from 20 on are different ones.
LEMMA LinesType == Lines \subseteq Int /\ \A l \in Lines : l >= 0 /\ l < 8
  BY OutputAssumption DEF Lines

\* A store to lines does nothing to the rows, ...
LEMMA PutColumns ==
  ASSUME NEW a \in SUBSET Lines, NEW high, NEW first \in {2, 20}
  PROVE  /\ Columns(Put(High(Data(a)), high)) = Columns(high) \cup a
         /\ Columns(Put(Low(Data(a)), high)) = Columns(high) \ a
         /\ Rows(first, Put(High(Data(a)), high)) = Rows(first, high)
         /\ Rows(first, Put(Low(Data(a)), high)) = Rows(first, high)
<1> USE DEF Columns, Rows, Put, High, Low, Data, Pins
<1> USE LinesType
<1>1. ASSUME NEW l \in Lines PROVE 10 + l \in Data(a) <=> l \in a
  OBVIOUS
<1>2. ASSUME NEW l \in Lines PROVE ~(first + l \in Data(a))
  OBVIOUS
<1> HIDE DEF Data, Pins, Lines
<1>3. QED
  BY <1>1, <1>2

\* ... and a store to rows nothing to the lines.
LEMMA PutRows ==
  ASSUME NEW a \in SUBSET Lines, NEW high, NEW first \in {2, 20}
  PROVE  /\ Rows(first, Put(High(Pins(first, a)), high)) = Rows(first, high) \cup a
         /\ Rows(first, Put(Low(Pins(first, a)), high)) = Rows(first, high) \ a
         /\ Columns(Put(High(Pins(first, a)), high)) = Columns(high)
         /\ Columns(Put(Low(Pins(first, a)), high)) = Columns(high)
<1> USE DEF Columns, Rows, Put, High, Low, Pins
<1> USE LinesType
<1>1. ASSUME NEW l \in Lines PROVE first + l \in Pins(first, a) <=> l \in a
  OBVIOUS
<1>2. ASSUME NEW l \in Lines PROVE ~(10 + l \in Pins(first, a))
  OBVIOUS
<1> HIDE DEF Data, Pins, Lines
<1>3. QED
  BY <1>1, <1>2

\* led_write starts again with row 0 after the last one.
LEMMA ModInLines == \A k \in Nat : k % N \in Lines
  BY OutputAssumption DEF Lines

----------------------------------------------------------------------------
\* The stores that only touch some pins.
StoresOn(pins) == [high : BOOLEAN, pins : SUBSET pins]

\* What each of the two registers is stored to is such a store, ...
LEMMA StoreType ==
  ASSUME NEW pins, NEW a \in SUBSET pins
  PROVE  High(a) \in StoresOn(pins) /\ Low(a) \in StoresOn(pins)
  BY DEF High, Low, StoresOn

\* ... the pins of some lines are among those of all, ...
LEMMA PinsType ==
  ASSUME NEW a \in SUBSET Lines, NEW first
  PROVE  Pins(first, a) \subseteq Pins(first, Lines)
  BY DEF Pins

\* ... and the row of a digit is a set of lines.
LEMMA NumType ==
  ASSUME NEW v \in DOMAIN num, NEW i \in Lines
  PROVE  num[v][i] \in SUBSET Lines
  BY OutputAssumption

\* The levels after k stores of the write of v to the dot matrix.
DotLevels(first, v, k, high) ==
  \E i \in Lines :
    \/ k = 4 * i + 1 /\ Rows(first, high) = {} /\ Columns(high) = num[v][i]
    \/ k = 4 * i + 2 /\ Rows(first, high) = {i} /\ Columns(high) = num[v][i]
    \/ k = 4 * i + 3 /\ Rows(first, high) = {} /\ Columns(high) = num[v][i]
    \/ k = 4 * i + 4 /\ Rows(first, high) = {} /\ Columns(high) = {}

\* The stores of the write of v to the dot matrix.
LEMMA DotStores ==
  ASSUME NEW v \in DOMAIN num, NEW first \in {2, 20}
  PROVE  /\ DotWrite(v, first) \in Seq(StoresOn(Dot(first).pins))
         /\ Len(DotWrite(v, first)) = 4 * N
         /\ \A i \in Lines :
              /\ DotWrite(v, first)[4 * i + 1] = High(Data(num[v][i]))
              /\ DotWrite(v, first)[4 * i + 2] = High(Pins(first, {i}))
              /\ DotWrite(v, first)[4 * i + 3] = Low(Pins(first, Lines))
              /\ DotWrite(v, first)[4 * i + 4] = Low(Data(Lines))
<1> DEFINE body == [i \in Lines |-> <<High(Data(num[v][i])), High(Pins(first, {i})),
                                     Low(Pins(first, Lines)), Low(Data(Lines))>>]
<1>1. DotWrite(v, first) = Loop(N, 4, body)
  BY DEF DotWrite
<1>2. N \in Nat /\ Lines = 0..(N - 1)
  BY OutputAssumption DEF Lines
<1>3. ASSUME NEW i \in Lines
      PROVE  /\ body[i][1] = High(Data(num[v][i])) /\ body[i][2] = High(Pins(first, {i}))
             /\ body[i][3] = Low(Pins(first, Lines)) /\ body[i][4] = Low(Data(Lines))
  OBVIOUS
<1>4. ASSUME NEW i \in Lines, NEW j \in 1..4
      PROVE  body[i][j] \in StoresOn(Dot(first).pins)
  <2>1. Data(num[v][i]) \subseteq Data(Lines) /\ Pins(first, {i}) \subseteq Pins(first, Lines)
    BY NumType, PinsType DEF Data
  <2>2. Dot(first).pins = Data(Lines) \cup Pins(first, Lines)
    BY DEF Dot
  <2>3. QED
    BY <1>3, <2>1, <2>2, StoreType
<1> HIDE DEF body
<1>5. /\ DotWrite(v, first) \in Seq(StoresOn(Dot(first).pins))
      /\ Len(DotWrite(v, first)) = 4 * N
      /\ \A i \in Lines, j \in 1..4 : DotWrite(v, first)[4 * i + j] = body[i][j]
  <2>1. Bodies(N, 4, body, StoresOn(Dot(first).pins))
    BY <1>2, <1>4 DEF Bodies
  <2>2. IsLoop(DotWrite(v, first), N, 4, body, StoresOn(Dot(first).pins))
    BY <1>1, <1>2, <2>1, LoopOfFour, Zenon
  <2>3. QED
    BY <1>2, <2>2 DEF IsLoop
<1>6. ASSUME NEW i \in Lines
      PROVE  /\ DotWrite(v, first)[4 * i + 1] = body[i][1]
             /\ DotWrite(v, first)[4 * i + 2] = body[i][2]
             /\ DotWrite(v, first)[4 * i + 3] = body[i][3]
             /\ DotWrite(v, first)[4 * i + 4] = body[i][4]
  BY <1>5
<1>7. QED
  BY <1>3, <1>5, <1>6

\* Each takes the levels after the one before to those after it: all rows are off when
\* the lines change.
LEMMA DotSteps ==
  ASSUME NEW v \in DOMAIN num, NEW first \in {2, 20}, NEW high
  PROVE  /\ Rows(first, high) = {} /\ Columns(high) = {} =>
              DotLevels(first, v, 1, Put(DotWrite(v, first)[1], high))
         /\ \A k \in 1..(4 * N - 1) :
              DotLevels(first, v, k, high) =>
                DotLevels(first, v, k + 1, Put(DotWrite(v, first)[k + 1], high))
<1> DEFINE w == DotWrite(v, first)
<1>0. N \in Nat /\ Lines = 0..(N - 1) /\ 0 \in Lines
  BY OutputAssumption DEF Lines
<1>1. \A i \in Lines :
        /\ num[v][i] \in SUBSET Lines /\ {i} \in SUBSET Lines /\ Lines \in SUBSET Lines
        /\ w[4 * i + 1] = High(Data(num[v][i])) /\ w[4 * i + 2] = High(Pins(first, {i}))
        /\ w[4 * i + 3] = Low(Pins(first, Lines)) /\ w[4 * i + 4] = Low(Data(Lines))
  BY DotStores, NumType
<1>2. Rows(first, high) \subseteq Lines /\ Columns(high) \subseteq Lines
  BY DEF Rows, Columns
<1> HIDE DEF w
<1>3. ASSUME Rows(first, high) = {}, Columns(high) = {}
      PROVE  DotLevels(first, v, 1, Put(w[1], high))
  <2>1. w[1] = High(Data(num[v][0])) /\ num[v][0] \in SUBSET Lines
    BY <1>0, <1>1, 4 * 0 + 1 = 1
  <2>2. Rows(first, Put(w[1], high)) = {} /\ Columns(Put(w[1], high)) = num[v][0]
    BY <1>3, <2>1, PutColumns
  <2>3. QED
    BY <1>0, <2>2, 1 = 4 * 0 + 1 DEF DotLevels
<1>4. ASSUME NEW k \in 1..(4 * N - 1), DotLevels(first, v, k, high)
      PROVE  DotLevels(first, v, k + 1, Put(w[k + 1], high))
  <2> SUFFICES ASSUME NEW st, st = w[k + 1]
               PROVE  DotLevels(first, v, k + 1, Put(st, high))
    OBVIOUS
  <2>1. PICK i \in Lines :
          \/ k = 4 * i + 1 /\ Rows(first, high) = {} /\ Columns(high) = num[v][i]
          \/ k = 4 * i + 2 /\ Rows(first, high) = {i} /\ Columns(high) = num[v][i]
          \/ k = 4 * i + 3 /\ Rows(first, high) = {} /\ Columns(high) = num[v][i]
          \/ k = 4 * i + 4 /\ Rows(first, high) = {} /\ Columns(high) = {}
    BY <1>4 DEF DotLevels
  <2>2. CASE k = 4 * i + 1 /\ Rows(first, high) = {} /\ Columns(high) = num[v][i]
    <3>1. k + 1 = 4 * i + 2
      BY <1>0, <2>2
    <3>a. st = High(Pins(first, {i}))
      BY <1>1, <3>1
    <3>2. /\ Rows(first, Put(st, high)) = {i}
          /\ Columns(Put(st, high)) = num[v][i]
      BY <2>2, <3>a, PutRows
    <3>3. QED
      BY <3>1, <3>2 DEF DotLevels
  <2>3. CASE k = 4 * i + 2 /\ Rows(first, high) = {i} /\ Columns(high) = num[v][i]
    <3>1. k + 1 = 4 * i + 3
      BY <1>0, <2>3
    <3>a. st = Low(Pins(first, Lines))
      BY <1>1, <3>1
    <3>2. /\ Rows(first, Put(st, high)) = {}
          /\ Columns(Put(st, high)) = num[v][i]
      BY <1>2, <2>3, <3>a, PutRows
    <3>3. QED
      BY <3>1, <3>2 DEF DotLevels
  <2>4. CASE k = 4 * i + 3 /\ Rows(first, high) = {} /\ Columns(high) = num[v][i]
    <3>1. k + 1 = 4 * i + 4
      BY <1>0, <2>4
    <3>a. st = Low(Data(Lines))
      BY <1>1, <3>1
    <3>2. /\ Rows(first, Put(st, high)) = {}
          /\ Columns(Put(st, high)) = {}
      BY <1>2, <2>4, <3>a, PutColumns
    <3>3. QED
      BY <3>1, <3>2 DEF DotLevels
  <2>5. CASE k = 4 * i + 4 /\ Rows(first, high) = {} /\ Columns(high) = {}
    <3>1. PICK j \in Lines : k + 1 = 4 * j + 1
      <4>1. i + 1 \in Lines /\ k + 1 = 4 * (i + 1) + 1
        BY <1>0, <2>5
      <4>2. QED
        BY <4>1
    <3>2. st = High(Data(num[v][j])) /\ num[v][j] \in SUBSET Lines
      BY <1>1, <3>1
    <3>3. /\ Columns(Put(st, high)) = Columns(high) \cup num[v][j]
          /\ Rows(first, Put(st, high)) = Rows(first, high)
      BY <3>2, PutColumns
    <3>4. Columns(high) \cup num[v][j] = num[v][j]
      BY <2>5
    <3>5. QED
      BY <2>5, <3>1, <3>3, <3>4 DEF DotLevels
  <2>6. QED
    BY <2>1, <2>2, <2>3, <2>4, <2>5
<1>5. QED
  BY <1>3, <1>4 DEF w

\* What is to be seen of a device when all its pins are outputs, ...
Shows(d, high) == Picture(d, high, d.pins)

\* ... of which nothing is added when some are not; ...
LEMMA InputsAreDark ==
  ASSUME NEW d, NEW high, NEW out \in SUBSET d.pins
  PROVE  Picture(d, high, out) \subseteq Shows(d, high)
  BY DEF Picture, Shows

\* ... on a matrix, by its rows and its lines.
LEMMA MatrixPicture ==
  ASSUME NEW high, NEW d, NEW first, d.rows = {first},
         Data(Lines) \cup Pins(first, Lines) \subseteq d.pins
  PROVE  /\ d.rowOn = TRUE => Shows(d, high) = Rows(first, high) \X (Lines \ Columns(high))
         /\ d.rowOn = FALSE => Shows(d, high) = (Lines \ Rows(first, high)) \X Columns(high)
<1>1. Shows(d, high) = {led \in Lines \X Lines :
          (first + led[1] \in high <=> d.rowOn) /\ (10 + led[2] \in high <=> ~d.rowOn)}
  <2>1. \A l \in Lines : 10 + l \in d.pins /\ first + l \in d.pins
    BY DEF Data, Pins
  <2>2. QED
    BY <2>1 DEF Shows, Picture
<1>2. QED
  BY <1>1 DEF Rows, Columns

\* After each store of a write one row of the digit is lit, or none; after the last, none.
LEMMA DotPictures ==
  ASSUME NEW v \in DOMAIN num, NEW first \in {2, 20}, NEW high, NEW k \in 1..(4 * N),
         DotLevels(first, v, k, high)
  PROVE  /\ Shows(Dot(first), high) \in Dot(first).during[v]
         /\ k = 4 * N => /\ Rows(first, high) = {} /\ Columns(high) = {}
                         /\ Shows(Dot(first), high) = Dot(first).rest[v]
<1>1. Dot(first).rows = {first} /\ Dot(first).rowOn = TRUE
  BY DEF Dot
<1>a. Data(Lines) \cup Pins(first, Lines) \subseteq Dot(first).pins
  BY DEF Dot
<1>2. Shows(Dot(first), high) = Rows(first, high) \X (Lines \ Columns(high))
  BY <1>1, <1>a, MatrixPicture
<1>3. /\ Dot(first).rest[v] = {}
      /\ Dot(first).during[v] = {{}} \cup {{i} \X (Lines \ num[v][i]) : i \in Lines}
  BY DEF Dot
<1>4. PICK i \in Lines :
        \/ k \in {4 * i + 1, 4 * i + 3} /\ Rows(first, high) = {} /\ Columns(high) = num[v][i]
        \/ k = 4 * i + 2 /\ Rows(first, high) = {i} /\ Columns(high) = num[v][i]
        \/ k = 4 * i + 4 /\ Rows(first, high) = {} /\ Columns(high) = {}
  BY DEF DotLevels
<1>5. k = 4 * N => Rows(first, high) = {} /\ Columns(high) = {}
  BY <1>4, OutputAssumption DEF Lines
<1>6. Rows(first, high) = {} => Shows(Dot(first), high) = {}
  BY <1>2
<1>7. CASE Rows(first, high) = {}
  BY <1>3, <1>5, <1>6, <1>7
<1>8. CASE Rows(first, high) = {i} /\ Columns(high) = num[v][i]
  <2>1. Shows(Dot(first), high) = {i} \X (Lines \ num[v][i])
    BY <1>2, <1>8
  <2>2. QED
    BY <1>3, <1>5, <1>8, <2>1
<1>9. QED
  BY <1>4, <1>7, <1>8

----------------------------------------------------------------------------
\* The levels after k stores of the write of a digit, ...
DigitLevels(v, k, high) ==
  \/ k = 1 /\ Columns(high) = {}
  \/ k = 2 /\ Rows(20, high) = Lines /\ Columns(high) = {}
  \/ \E i \in 0..(Refreshes * N - 1) :
       \/ k = 4 * i + 3 /\ Rows(20, high) = Lines \ {i % N} /\ Columns(high) = {}
       \/ k = 4 * i + 4 /\ Rows(20, high) = Lines \ {i % N} /\ Columns(high) = num[v][i % N]
       \/ k = 4 * i + 5 /\ Columns(high) = {}
       \/ k = 4 * i + 6 /\ Rows(20, high) = Lines /\ Columns(high) = {}

\* ... of a gauge ...
GaugeLevels(v, k, high) ==
  \/ k \in {1, 2} /\ Columns(high) = {}
  \/ k = 3 /\ Rows(20, high) = {} /\ Columns(high) = {}
  \/ k = 4 /\ Rows(20, high) = {} /\ Columns(high) = gauge[v % Base]

\* ... and of the open.
BlankLevels(k, high) == k \in {1, 2} /\ Columns(high) = {}

\* The pins of the LED bar.
LEMMA LedPins ==
  /\ LedBar.pins = Data(Lines) \cup Pins(20, Lines)
  /\ \A a \in SUBSET Lines : Data(a) \subseteq LedBar.pins /\ Pins(20, a) \subseteq LedBar.pins
<1>1. LedBar.pins = Data(Lines) \cup Pins(20, Lines)
  BY DEF LedBar
<1>2. QED
  BY <1>1, PinsType DEF Data

\* The stores that blank it.
LEMMA BlankStores ==
  /\ LedBlank \in Seq(StoresOn(LedBar.pins)) /\ Len(LedBlank) = 2
  /\ LedBlank[1] = Low(Data(Lines)) /\ LedBlank[2] = High(Pins(20, Lines))
<1>1. Low(Data(Lines)) \in StoresOn(LedBar.pins) /\ High(Pins(20, Lines)) \in StoresOn(LedBar.pins)
  BY LedPins, StoreType
<1>2. QED
  BY <1>1 DEF LedBlank

\* Two stores, and others after them.
LEMMA ConcatOfBlank ==
  ASSUME NEW S, NEW b \in Seq(S), Len(b) = 2, NEW s \in Seq(S), NEW n \in Nat, Len(s) = n
  PROVE  /\ b \o s \in Seq(S) /\ Len(b \o s) = n + 2
         /\ \A m \in 1..(n + 2) : (b \o s)[m] = IF m <= 2 THEN b[m] ELSE s[m - 2]
<1>1. /\ b \o s \in Seq(S) /\ Len(b \o s) = Len(b) + Len(s)
      /\ \A m \in 1..(Len(b) + Len(s)) :
           (b \o s)[m] = IF m <= Len(b) THEN b[m] ELSE s[m - Len(b)]
  BY ConcatProperties
<1>2. QED
  BY <1>1

\* The stores of the write of a digit, ...
LEMMA DigitStores ==
  ASSUME NEW v \in 0..(Base - 1)
  PROVE  /\ LedWrite(v) \in Seq(StoresOn(LedBar.pins))
         /\ Len(LedWrite(v)) = 4 * (Refreshes * N) + 2 /\ Refreshes * N \in Nat
         /\ LedWrite(v)[1] = Low(Data(Lines)) /\ LedWrite(v)[2] = High(Pins(20, Lines))
         /\ \A i \in 0..(Refreshes * N - 1) :
              /\ i % N \in Lines /\ num[v][i % N] \in SUBSET Lines
              /\ LedWrite(v)[4 * i + 3] = Low(Pins(20, {i % N}))
              /\ LedWrite(v)[4 * i + 4] = High(Data(num[v][i % N]))
              /\ LedWrite(v)[4 * i + 5] = Low(Data(Lines))
              /\ LedWrite(v)[4 * i + 6] = High(Pins(20, Lines))
<1>0. Refreshes * N \in Nat
  BY OutputAssumption
<1>a. PICK M \in Nat : M = Refreshes * N
  BY <1>0
<1> DEFINE body == [i \in 0..(M - 1) |->
                      <<Low(Pins(20, {i % N})), High(Data(num[v][i % N])),
                        Low(Data(Lines)), High(Pins(20, Lines))>>]
           S == StoresOn(LedBar.pins)
<1>1. ShowDigit(v) = Loop(M, 4, body)
  BY <1>a DEF ShowDigit
<1>2. M \in Nat /\ v \in DOMAIN num
  BY OutputAssumption
<1>3. LedWrite(v) = LedBlank \o ShowDigit(v)
  BY GaugeArithmetic DEF LedWrite
<1>4. ASSUME NEW i \in 0..(M - 1)
      PROVE  /\ i % N \in Lines /\ num[v][i % N] \in SUBSET Lines
             /\ body[i][1] = Low(Pins(20, {i % N})) /\ body[i][2] = High(Data(num[v][i % N]))
             /\ body[i][3] = Low(Data(Lines)) /\ body[i][4] = High(Pins(20, Lines))
  <2>1. i % N \in Lines
    BY <1>2, ModInLines
  <2>2. num[v][i % N] \in SUBSET Lines
    BY <1>2, <2>1, NumType
  <2>3. QED
    BY <2>1, <2>2
<1> HIDE DEF body
<1>5. ASSUME NEW i \in 0..(M - 1), NEW j \in 1..4
      PROVE  body[i][j] \in S
  <2>1. {i % N} \in SUBSET Lines /\ Lines \in SUBSET Lines /\ num[v][i % N] \in SUBSET Lines
    BY <1>4
  <2>2. /\ Low(Pins(20, {i % N})) \in S /\ High(Data(num[v][i % N])) \in S
        /\ Low(Data(Lines)) \in S /\ High(Pins(20, Lines)) \in S
    BY <2>1, LedPins, StoreType
  <2>3. QED
    BY <1>4, <2>2
<1> HIDE DEF S
<1>6. /\ ShowDigit(v) \in Seq(S) /\ Len(ShowDigit(v)) = 4 * M
      /\ \A i \in 0..(M - 1), j \in 1..4 : ShowDigit(v)[4 * i + j] = body[i][j]
  <2>1. Bodies(M, 4, body, S)
    BY <1>5 DEF Bodies
  <2>2. IsLoop(ShowDigit(v), M, 4, body, S)
    BY <1>1, <1>2, <2>1, LoopOfFour, Zenon
  <2>3. QED
    BY <2>2 DEF IsLoop
<1>7. /\ LedBlank \in Seq(S) /\ Len(LedBlank) = 2
      /\ LedBlank[1] = Low(Data(Lines)) /\ LedBlank[2] = High(Pins(20, Lines))
  BY BlankStores DEF S
<1>8. /\ LedWrite(v) \in Seq(S) /\ Len(LedWrite(v)) = 4 * M + 2
      /\ \A m \in 1..(4 * M + 2) :
           LedWrite(v)[m] = IF m <= 2 THEN LedBlank[m] ELSE ShowDigit(v)[m - 2]
  <2>1. PICK n \in Nat : n = 4 * M
    BY <1>2
  <2>2. ShowDigit(v) \in Seq(S) /\ Len(ShowDigit(v)) = n
    BY <1>6, <2>1
  <2>3. /\ LedBlank \o ShowDigit(v) \in Seq(S) /\ Len(LedBlank \o ShowDigit(v)) = n + 2
        /\ \A m \in 1..(n + 2) :
             (LedBlank \o ShowDigit(v))[m] = IF m <= 2 THEN LedBlank[m] ELSE ShowDigit(v)[m - 2]
    BY <1>7, <2>2, ConcatOfBlank
  <2>4. LedWrite(v) \in Seq(S) /\ Len(LedWrite(v)) = n + 2
    BY <1>3, <2>3, Zenon
  <2>5. ASSUME NEW m \in 1..(n + 2)
        PROVE  LedWrite(v)[m] = IF m <= 2 THEN LedBlank[m] ELSE ShowDigit(v)[m - 2]
    <3>1. (LedBlank \o ShowDigit(v))[m] = IF m <= 2 THEN LedBlank[m] ELSE ShowDigit(v)[m - 2]
      BY <2>3
    <3>2. QED
      BY <1>3, <3>1, Zenon
  <2>6. n + 2 = 4 * M + 2
    BY <2>1, Zenon
  <2>7. QED
    BY <2>4, <2>5, <2>6, Zenon
<1>9. ASSUME NEW i \in 0..(M - 1), NEW j \in 1..4
      PROVE  LedWrite(v)[(4 * i + j) + 2] = body[i][j]
  <2>1. (4 * i + j) + 2 \in 1..(4 * M + 2) /\ ~((4 * i + j) + 2 <= 2)
        /\ ((4 * i + j) + 2) - 2 = 4 * i + j
    BY <1>2
  <2>2. LedWrite(v)[(4 * i + j) + 2] = ShowDigit(v)[4 * i + j]
    BY <1>8, <2>1
  <2>3. QED
    BY <1>6, <2>2
<1>10. ASSUME NEW i \in 0..(M - 1)
       PROVE  /\ LedWrite(v)[4 * i + 3] = body[i][1] /\ LedWrite(v)[4 * i + 4] = body[i][2]
              /\ LedWrite(v)[4 * i + 5] = body[i][3] /\ LedWrite(v)[4 * i + 6] = body[i][4]
  BY <1>9
<1>11. LedWrite(v)[1] = Low(Data(Lines)) /\ LedWrite(v)[2] = High(Pins(20, Lines))
  BY <1>2, <1>7, <1>8
<1>12. QED
  BY <1>0, <1>a, <1>4, <1>8, <1>10, <1>11 DEF S

\* ... and of a gauge.
LEMMA GaugeStores ==
  ASSUME NEW v \in Base..(Base + N)
  PROVE  /\ LedWrite(v) \in Seq(StoresOn(LedBar.pins)) /\ Len(LedWrite(v)) = 4
         /\ LedWrite(v)[1] = Low(Data(Lines)) /\ LedWrite(v)[2] = High(Pins(20, Lines))
         /\ LedWrite(v)[3] = Low(Pins(20, Lines))
         /\ LedWrite(v)[4] = High(Data(gauge[v % Base])) /\ gauge[v % Base] \in SUBSET Lines
<1>1. v \div Base = 1 /\ v % Base \in 0..N
  BY GaugeArithmetic
<1>2. gauge[v % Base] = 0..((v % Base) - 1)
  BY <1>1 DEF gauge
<1>3. gauge[v % Base] \in SUBSET Lines
  BY <1>1, <1>2, OutputAssumption DEF Lines
<1>4. LedWrite(v) = LedBlank \o ShowGauge(v)
  BY <1>1 DEF LedWrite
<1>5. /\ Low(Pins(20, Lines)) \in StoresOn(LedBar.pins)
      /\ High(Data(gauge[v % Base])) \in StoresOn(LedBar.pins)
  BY <1>3, LedPins, StoreType
<1>6. /\ ShowGauge(v) \in Seq(StoresOn(LedBar.pins)) /\ Len(ShowGauge(v)) = 2
      /\ ShowGauge(v)[1] = Low(Pins(20, Lines)) /\ ShowGauge(v)[2] = High(Data(gauge[v % Base]))
  BY <1>5 DEF ShowGauge
<1>7. /\ LedWrite(v) \in Seq(StoresOn(LedBar.pins)) /\ Len(LedWrite(v)) = 2 + 2
      /\ \A m \in 1..(2 + 2) :
           LedWrite(v)[m] = IF m <= 2 THEN LedBlank[m] ELSE ShowGauge(v)[m - 2]
  BY <1>4, <1>6, BlankStores, ConcatOfBlank
<1>8. QED
  BY <1>3, <1>6, <1>7, BlankStores

\* What each of these stores does to the rows and lines that are high.
LEMMA LinesLow ==
  ASSUME NEW high
  PROVE  /\ Columns(Put(Low(Data(Lines)), high)) = {}
         /\ Rows(20, Put(Low(Data(Lines)), high)) = Rows(20, high)
<1>1. Columns(high) \ Lines = {} /\ Lines \in SUBSET Lines /\ 20 \in {2, 20}
  BY DEF Columns
<1>2. QED
  BY <1>1, PutColumns

\* All rows off ...
LEMMA RowsHigh ==
  ASSUME NEW high
  PROVE  /\ Columns(Put(High(Pins(20, Lines)), high)) = Columns(high)
         /\ Rows(20, Put(High(Pins(20, Lines)), high)) = Lines
<1>1. Rows(20, high) \cup Lines = Lines /\ Lines \in SUBSET Lines /\ 20 \in {2, 20}
  BY DEF Rows
<1>2. QED
  BY <1>1, PutRows

\* ... or on, ...
LEMMA RowsLow ==
  ASSUME NEW high
  PROVE  /\ Columns(Put(Low(Pins(20, Lines)), high)) = Columns(high)
         /\ Rows(20, Put(Low(Pins(20, Lines)), high)) = {}
<1>1. Rows(20, high) \ Lines = {} /\ Lines \in SUBSET Lines /\ 20 \in {2, 20}
  BY DEF Rows
<1>2. QED
  BY <1>1, PutRows

\* ... one of them on, ...
LEMMA RowLow ==
  ASSUME NEW high, NEW r \in Lines, Rows(20, high) = Lines
  PROVE  /\ Columns(Put(Low(Pins(20, {r})), high)) = Columns(high)
         /\ Rows(20, Put(Low(Pins(20, {r})), high)) = Lines \ {r}
<1>1. {r} \in SUBSET Lines /\ 20 \in {2, 20}
  OBVIOUS
<1>2. QED
  BY <1>1, PutRows

\* ... and the lines of a row.
LEMMA LinesHigh ==
  ASSUME NEW high, NEW a \in SUBSET Lines, Columns(high) = {}
  PROVE  /\ Columns(Put(High(Data(a)), high)) = a
         /\ Rows(20, Put(High(Data(a)), high)) = Rows(20, high)
<1>1. Columns(high) \cup a = a /\ 20 \in {2, 20}
  OBVIOUS
<1>2. QED
  BY <1>1, PutColumns

\* The stores of the open take the levels to those after the next, ...
LEMMA BlankSteps ==
  ASSUME NEW high
  PROVE  /\ BlankLevels(1, Put(LedBlank[1], high))
         /\ BlankLevels(1, high) => BlankLevels(2, Put(LedBlank[2], high))
  BY BlankStores, LinesLow, RowsHigh DEF BlankLevels

\* ... those of a gauge ...
LEMMA GaugeSteps ==
  ASSUME NEW v \in Base..(Base + N), NEW high
  PROVE  /\ GaugeLevels(v, 1, Put(LedWrite(v)[1], high))
         /\ \A k \in 1..3 :
              GaugeLevels(v, k, high) => GaugeLevels(v, k + 1, Put(LedWrite(v)[k + 1], high))
<1>0. /\ LedWrite(v)[1] = Low(Data(Lines)) /\ LedWrite(v)[2] = High(Pins(20, Lines))
      /\ LedWrite(v)[3] = Low(Pins(20, Lines)) /\ LedWrite(v)[4] = High(Data(gauge[v % Base]))
      /\ gauge[v % Base] \in SUBSET Lines
  BY GaugeStores
<1>1. GaugeLevels(v, 1, Put(LedWrite(v)[1], high))
  BY <1>0, LinesLow DEF GaugeLevels
<1>2. GaugeLevels(v, 1, high) => GaugeLevels(v, 2, Put(LedWrite(v)[2], high))
  BY <1>0, RowsHigh DEF GaugeLevels
<1>3. GaugeLevels(v, 2, high) => GaugeLevels(v, 3, Put(LedWrite(v)[3], high))
  BY <1>0, RowsLow DEF GaugeLevels
<1>4. GaugeLevels(v, 3, high) => GaugeLevels(v, 4, Put(LedWrite(v)[4], high))
  BY <1>0, LinesHigh DEF GaugeLevels
<1>5. QED
  BY <1>1, <1>2, <1>3, <1>4

\* ... and those of a digit, where row k + 1 follows row k, and row 0 the last.
LEMMA DigitSteps ==
  ASSUME NEW v \in 0..(Base - 1), NEW high
  PROVE  /\ DigitLevels(v, 1, Put(LedWrite(v)[1], high))
         /\ \A k \in 1..(4 * (Refreshes * N) + 1) :
              DigitLevels(v, k, high) => DigitLevels(v, k + 1, Put(LedWrite(v)[k + 1], high))
<1>0. PICK M \in Nat : M = Refreshes * N
  BY DigitStores
<1> DEFINE w == LedWrite(v)
<1>a. /\ w[1] = Low(Data(Lines)) /\ w[2] = High(Pins(20, Lines))
      /\ \A i \in 0..(M - 1) :
              /\ i % N \in Lines /\ num[v][i % N] \in SUBSET Lines
              /\ w[4 * i + 3] = Low(Pins(20, {i % N}))
              /\ w[4 * i + 4] = High(Data(num[v][i % N]))
              /\ w[4 * i + 5] = Low(Data(Lines))
              /\ w[4 * i + 6] = High(Pins(20, Lines))
  BY <1>0, DigitStores
<1> HIDE DEF w
<1>1. DigitLevels(v, 1, Put(w[1], high))
  BY <1>a, LinesLow DEF DigitLevels
<1>2. ASSUME NEW k \in 1..(4 * M + 1), DigitLevels(v, k, high)
      PROVE  DigitLevels(v, k + 1, Put(w[k + 1], high))
  <2> SUFFICES ASSUME NEW st, st = w[k + 1]
               PROVE  DigitLevels(v, k + 1, Put(st, high))
    OBVIOUS
  <2>1. CASE k = 1 /\ Columns(high) = {}
    <3>1. st = High(Pins(20, Lines))
      BY <1>a, <2>1
    <3>2. QED
      BY <2>1, <3>1, RowsHigh DEF DigitLevels
  <2>2. ASSUME NEW i \in 0..(M - 1), k = 4 * i + 2, Rows(20, high) = Lines, Columns(high) = {}
        PROVE  DigitLevels(v, k + 1, Put(st, high))
    <3>1. k + 1 = 4 * i + 3
      BY <2>2
    <3>2. st = Low(Pins(20, {i % N})) /\ i % N \in Lines
      BY <1>a, <3>1
    <3>3. Rows(20, Put(st, high)) = Lines \ {i % N} /\ Columns(Put(st, high)) = {}
      BY <2>2, <3>2, RowLow
    <3>4. QED
      BY <1>0, <3>1, <3>3 DEF DigitLevels
  <2>3. ASSUME NEW i \in 0..(M - 1), k = 4 * i + 3, Rows(20, high) = Lines \ {i % N},
               Columns(high) = {}
        PROVE  DigitLevels(v, k + 1, Put(st, high))
    <3>1. k + 1 = 4 * i + 4
      BY <2>3
    <3>2. st = High(Data(num[v][i % N])) /\ num[v][i % N] \in SUBSET Lines
      BY <1>a, <3>1
    <3>3. Rows(20, Put(st, high)) = Lines \ {i % N} /\ Columns(Put(st, high)) = num[v][i % N]
      BY <2>3, <3>2, LinesHigh
    <3>4. QED
      BY <1>0, <3>1, <3>3 DEF DigitLevels
  <2>4. ASSUME NEW i \in 0..(M - 1), k = 4 * i + 4
        PROVE  DigitLevels(v, k + 1, Put(st, high))
    <3>1. k + 1 = 4 * i + 5
      BY <2>4
    <3>2. st = Low(Data(Lines))
      BY <1>a, <3>1
    <3>3. Columns(Put(st, high)) = {}
      BY <3>2, LinesLow
    <3>4. QED
      BY <1>0, <3>1, <3>3 DEF DigitLevels
  <2>5. ASSUME NEW i \in 0..(M - 1), k = 4 * i + 5, Columns(high) = {}
        PROVE  DigitLevels(v, k + 1, Put(st, high))
    <3>1. k + 1 = 4 * i + 6
      BY <2>5
    <3>2. st = High(Pins(20, Lines))
      BY <1>a, <3>1
    <3>3. Rows(20, Put(st, high)) = Lines /\ Columns(Put(st, high)) = {}
      BY <2>5, <3>2, RowsHigh
    <3>4. QED
      BY <1>0, <3>1, <3>3 DEF DigitLevels
  <2>6. CASE k = 2 /\ Rows(20, high) = Lines /\ Columns(high) = {}
    <3>1. 0 \in 0..(M - 1) /\ k = 4 * 0 + 2
      BY <2>6
    <3>2. QED
      BY <2>2, <2>6, <3>1
  <2>7. ASSUME NEW i \in 0..(M - 1), k = 4 * i + 6, Rows(20, high) = Lines, Columns(high) = {}
        PROVE  DigitLevels(v, k + 1, Put(st, high))
    <3>1. PICK m \in 0..(M - 1) : k = 4 * m + 2
      <4>1. i + 1 \in 0..(M - 1) /\ k = 4 * (i + 1) + 2
        BY <2>7
      <4>2. QED
        BY <4>1
    <3>2. QED
      BY <2>2, <2>7, <3>1
  <2>8. QED
    BY <1>0, <1>2, <2>1, <2>3, <2>4, <2>5, <2>6, <2>7 DEF DigitLevels
<1>3. QED
  BY <1>0, <1>1, <1>2 DEF w

\* What is lit on the LED bar: the rows that are low, in the lines that are high.
LEMMA LedPictures ==
  ASSUME NEW high
  PROVE  /\ Columns(high) = {} => Shows(LedBar, high) = {}
         /\ Shows(LedBar, high) = (Lines \ Rows(20, high)) \X Columns(high)
<1>1. LedBar.rows = {20} /\ LedBar.rowOn = FALSE
  BY DEF LedBar
<1>2. Shows(LedBar, high) = (Lines \ Rows(20, high)) \X Columns(high)
  BY <1>1, LedPins, MatrixPicture
<1>3. QED
  BY <1>2

\* Nothing is lit until the last store of a gauge, and then the gauge.
LEMMA GaugePictures ==
  ASSUME NEW v \in Base..(Base + N), NEW high, NEW k \in 1..4, GaugeLevels(v, k, high)
  PROVE  /\ k < 4 => Shows(LedBar, high) \in LedBar.during[v]
         /\ k = 4 => Shows(LedBar, high) = LedBar.rest[v]
<1>1. v \div Base = 1 /\ v \in 0..(Base + N)
  BY GaugeArithmetic, OutputAssumption
<1>2. LedBar.during[v] = {{}} /\ LedBar.rest[v] = Lines \X gauge[v % Base]
  BY <1>1 DEF LedBar
<1>3. k < 4 => Columns(high) = {}
  BY DEF GaugeLevels
<1>4. k = 4 => Rows(20, high) = {} /\ Columns(high) = gauge[v % Base]
  BY DEF GaugeLevels
<1>5. Lines \ {} = Lines
  OBVIOUS
<1>6. QED
  BY <1>2, <1>3, <1>4, <1>5, LedPictures

\* After each store of a digit one row of it is lit, or none; after the last, none.
LEMMA DigitPictures ==
  ASSUME NEW v \in 0..(Base - 1), NEW high, NEW k \in 1..(4 * (Refreshes * N) + 2),
         DigitLevels(v, k, high)
  PROVE  /\ Shows(LedBar, high) \in LedBar.during[v]
         /\ k = 4 * (Refreshes * N) + 2 => Shows(LedBar, high) = LedBar.rest[v]
<1>0. PICK M \in Nat : M = Refreshes * N
  BY DigitStores
<1>1. v \div Base # 1 /\ v \in 0..(Base + N)
  BY GaugeArithmetic, OutputAssumption
<1>2. /\ LedBar.during[v] = {{}} \cup {{i} \X num[v][i] : i \in Lines}
      /\ LedBar.rest[v] = {}
  BY <1>1 DEF LedBar
<1>3. CASE Columns(high) = {}
  BY <1>2, <1>3, LedPictures
<1>4. ASSUME NEW i \in 0..(M - 1), k = 4 * i + 4, Rows(20, high) = Lines \ {i % N},
             Columns(high) = num[v][i % N]
      PROVE  Shows(LedBar, high) \in LedBar.during[v] /\ k # 4 * M + 2
  <2>1. i % N \in Lines
    BY ModInLines
  <2>2. Lines \ (Lines \ {i % N}) = {i % N}
    BY <2>1
  <2>3. Shows(LedBar, high) = {i % N} \X num[v][i % N]
    BY <1>4, <2>2, LedPictures
  <2>4. k # 4 * M + 2
    BY <1>4
  <2>5. QED
    BY <1>2, <2>1, <2>3, <2>4
<1>5. QED
  BY <1>0, <1>3, <1>4 DEF DigitLevels

----------------------------------------------------------------------------
\* The levels after k stores of a write to the seven-segment display, to the lamp or
\* the motor, and to the servo motor.
FndLevels(v, k, high) ==
  \/ k = 1 /\ high = {}
  \/ k = 2 /\ high = Data(fnd_values[v])

OnLevels(pin, on, v, k, high) == k = 1 /\ high = IF v = on THEN {pin} ELSE {}

ServoLevels(k, high) ==
  \E i \in 0..(Pulses - 1) :
    \/ k = 2 * i + 1 /\ high = {2}
    \/ k = 2 * i + 2 /\ high = {}

\* The levels of device d after k stores of its open or of its write of v.
Levels(d, v, k, high) ==
  \/ d = "led" /\ v = Blank /\ BlankLevels(k, high)
  \/ d = "led" /\ v \in 0..(Base - 1) /\ DigitLevels(v, k, high)
  \/ d = "led" /\ v \in Base..(Base + N) /\ GaugeLevels(v, k, high)
  \/ d = "dot" /\ DotLevels(20, v, k, high)
  \/ d = "dot2" /\ DotLevels(2, v, k, high)
  \/ d = "fnd" /\ FndLevels(v, k, high)
  \/ d = "lamp" /\ OnLevels(17, 0, v, k, high)
  \/ d = "motor" /\ OnLevels(9, 1, v, k, high)
  \/ d = "servo" /\ ServoLevels(k, high)

\* The stores of the open or of the write of a value, and the values.
Stores(d, v) == IF v = Blank THEN Device[d].open ELSE Device[d].write[v]
Marked(d) == DOMAIN Device[d].write \cup {Blank}

\* A dot matrix that is not being written is dark.
Idle(d, high) ==
  d.rowOn => \A first \in d.rows : Rows(first, high) = {} /\ Columns(high) = {}

\* From a write to the next the levels of device d are what is said above, and so is
\* what is to be seen.
Fits(d, v, high) ==
  LET w == Stores(d, v)
      picture == Shows(Device[d], high)
  IN /\ w \in Seq(StoresOn(Device[d].pins))
     /\ w # <<>> /\ (v # Blank => Idle(Device[d], high)) => Levels(d, v, 1, Put(w[1], high))
     /\ \A k \in 1..Len(w) :
          Levels(d, v, k, high) =>
            /\ k < Len(w) => Levels(d, v, k + 1, Put(w[k + 1], high))
            /\ v = Blank => picture = {}
            /\ v # Blank /\ k < Len(w) => picture \in Device[d].during[v]
            /\ v # Blank /\ k = Len(w) => picture = Device[d].rest[v]
            /\ k = Len(w) => Idle(Device[d], high)

\* The device of each name.
LEMMA DeviceIs ==
  /\ DOMAIN Device = {"led", "dot", "dot2", "fnd", "lamp", "servo", "motor", "key"}
  /\ Device["led"] = LedBar /\ Device["dot"] = Dot(20) /\ Device["dot2"] = Dot(2)
  /\ Device["fnd"] = Fnd /\ Device["lamp"] = Lamp /\ Device["servo"] = Servo
  /\ Device["motor"] = Motor /\ Device["key"] = Key
  BY DEF Device, DotMatrix, EarlierDotMatrix

\* The open of a device is not the write of a value.
LEMMA BlankIsNoValue == \A d \in DOMAIN Device : Blank \notin DOMAIN Device[d].write
  BY MarkAssumption

\* The LED bar, ...
LEMMA LedFits ==
  ASSUME NEW v \in Marked("led"), NEW high \in SUBSET LedBar.pins
  PROVE  Fits("led", v, high)
<1>1. /\ Device["led"] = LedBar /\ LedBar.open = LedBlank /\ LedBar.rowOn = FALSE
      /\ DOMAIN LedBar.write = 0..(Base + N)
      /\ \A x \in 0..(Base + N) : LedBar.write[x] = LedWrite(x)
  BY DeviceIs DEF LedBar
<1>2. Blank \notin 0..(Base + N)
  BY <1>1, DeviceIs, BlankIsNoValue
<1>3. Idle(LedBar, high)
  BY <1>1 DEF Idle
<1>4. 0..(Base + N) = (0..(Base - 1)) \cup (Base..(Base + N))
  BY OutputAssumption
<1>5. CASE v = Blank
  <2>1. Stores("led", v) = LedBlank
    BY <1>1, <1>5 DEF Stores
  <2>2. \A k, h : Levels("led", v, k, h) <=> BlankLevels(k, h)
    BY <1>2, <1>4, <1>5 DEF Levels
  <2>3. \A k : BlankLevels(k, high) => Shows(LedBar, high) = {}
    BY LedPictures DEF BlankLevels
  <2>4. BlankLevels(2, high) => BlankLevels(2, high)
    OBVIOUS
  <2>5. ASSUME NEW k \in 1..2, BlankLevels(k, high), k < 2
        PROVE  BlankLevels(k + 1, Put(LedBlank[k + 1], high))
    <3>1. k = 1
      BY <2>5
    <3>2. QED
      BY <2>5, <3>1, BlankSteps
  <2>6. QED
    BY <1>1, <1>3, <1>5, <2>1, <2>2, <2>3, <2>5, BlankStores, BlankSteps DEF Fits
<1>6. CASE v \in 0..(Base - 1)
  <2>0. v \in 0..(Base + N) /\ v # Blank
    BY <1>2, <1>4, <1>6
  <2>1. Stores("led", v) = LedWrite(v)
    BY <1>1, <2>0 DEF Stores
  <2>2. \A k, h : Levels("led", v, k, h) <=> DigitLevels(v, k, h)
    BY <1>6, <2>0, OutputAssumption DEF Levels
  <2>3. PICK n \in Nat : n = 4 * (Refreshes * N) + 2 /\ Len(LedWrite(v)) = n
    BY <1>6, DigitStores
  <2>4. ASSUME NEW k \in 1..n, DigitLevels(v, k, high)
        PROVE  /\ k < n => DigitLevels(v, k + 1, Put(LedWrite(v)[k + 1], high))
               /\ Shows(LedBar, high) \in LedBar.during[v]
               /\ k = n => Shows(LedBar, high) = LedBar.rest[v]
    <3>1. k \in 1..(4 * (Refreshes * N) + 2)
      BY <2>3
    <3>2. /\ Shows(LedBar, high) \in LedBar.during[v]
          /\ k = 4 * (Refreshes * N) + 2 => Shows(LedBar, high) = LedBar.rest[v]
      BY <1>6, <2>4, <3>1, DigitPictures, Zenon
    <3>3. k = n => Shows(LedBar, high) = LedBar.rest[v]
      BY <2>3, <3>2, Zenon
    <3>4. ASSUME k < n
          PROVE  DigitLevels(v, k + 1, Put(LedWrite(v)[k + 1], high))
      <4>0. PICK M \in Nat : M = Refreshes * N
        BY <1>6, DigitStores
      <4>1. k \in 1..(4 * M + 1)
        BY <2>3, <3>4, <4>0
      <4>2. k \in 1..(4 * (Refreshes * N) + 1)
        BY <4>0, <4>1, Zenon
      <4>3. QED
        BY <1>6, <2>4, <4>2, DigitSteps, Zenon
    <3>5. QED
      BY <3>2, <3>3, <3>4, Zenon
  <2>5. DigitLevels(v, 1, Put(LedWrite(v)[1], high))
    BY <1>6, DigitSteps
  <2>6. LedWrite(v) \in Seq(StoresOn(LedBar.pins))
    BY <1>6, DigitStores
  <2>7. QED
    BY <1>1, <1>3, <2>0, <2>1, <2>2, <2>3, <2>4, <2>5, <2>6 DEF Fits
<1>7. CASE v \in Base..(Base + N)
  <2>0. v \in 0..(Base + N) /\ v # Blank
    BY <1>2, <1>4, <1>7
  <2>1. Stores("led", v) = LedWrite(v)
    BY <1>1, <2>0 DEF Stores
  <2>2. \A k, h : Levels("led", v, k, h) <=> GaugeLevels(v, k, h)
    BY <1>7, <2>0, OutputAssumption DEF Levels
  <2>3. LedWrite(v) \in Seq(StoresOn(LedBar.pins)) /\ Len(LedWrite(v)) = 4
    BY <1>7, GaugeStores
  <2>4. ASSUME NEW k \in 1..4, GaugeLevels(v, k, high)
        PROVE  /\ k < 4 => GaugeLevels(v, k + 1, Put(LedWrite(v)[k + 1], high))
               /\ k < 4 => Shows(LedBar, high) \in LedBar.during[v]
               /\ k = 4 => Shows(LedBar, high) = LedBar.rest[v]
    BY <1>7, <2>4, GaugeSteps, GaugePictures
  <2>5. GaugeLevels(v, 1, Put(LedWrite(v)[1], high))
    BY <1>7, GaugeSteps
  <2>6. QED
    BY <1>1, <1>3, <2>0, <2>1, <2>2, <2>3, <2>4, <2>5 DEF Fits
<1>8. QED
  BY <1>1, <1>4, <1>5, <1>6, <1>7 DEF Marked

\* A store makes its pins high, or low.
LEMMA PutEither ==
  ASSUME NEW a, NEW high
  PROVE  Put(High(a), high) = high \cup a /\ Put(Low(a), high) = high \ a
  BY DEF Put, High, Low

\* Nothing is wrong with an open or a write that stores nothing.
LEMMA NothingFits ==
  ASSUME NEW d, NEW v, NEW high, Stores(d, v) = <<>>
  PROVE  Fits(d, v, high)
<1>1. /\ Stores(d, v) \in Seq(StoresOn(Device[d].pins)) /\ Len(Stores(d, v)) = 0
  BY EmptySeq
<1>2. QED
  BY <1>1 DEF Fits

\* ... the two dot matrices, ...
LEMMA DotFits ==
  ASSUME NEW d \in {"dot", "dot2"}, NEW first \in {2, 20}, Device[d] = Dot(first),
         d = "dot" <=> first = 20,
         NEW v \in Marked(d), NEW high
  PROVE  Fits(d, v, high)
<1>1. /\ Dot(first).open = <<>> /\ Dot(first).rows = {first} /\ Dot(first).rowOn = TRUE
      /\ DOMAIN Dot(first).write = DOMAIN num
      /\ \A x \in DOMAIN num : Dot(first).write[x] = DotWrite(x, first)
  BY DEF Dot
<1>2. Idle(Dot(first), high) <=> Rows(first, high) = {} /\ Columns(high) = {}
  BY <1>1 DEF Idle
<1>3. CASE v = Blank
  <2>1. Stores(d, v) = <<>>
    BY <1>1, <1>3 DEF Stores
  <2>2. QED
    BY <2>1, NothingFits
<1>4. CASE v # Blank
  <2>1. v \in DOMAIN num /\ Stores(d, v) = DotWrite(v, first)
    BY <1>1, <1>4 DEF Stores, Marked
  <2>2. \A k, h : Levels(d, v, k, h) <=> DotLevels(first, v, k, h)
    BY DEF Levels
  <2>3. PICK n \in Nat : n = 4 * N /\ Len(DotWrite(v, first)) = n
    BY <2>1, DotStores, OutputAssumption
  <2>4. ASSUME NEW k \in 1..n, DotLevels(first, v, k, high)
        PROVE  /\ k < n => DotLevels(first, v, k + 1, Put(DotWrite(v, first)[k + 1], high))
               /\ Shows(Dot(first), high) \in Dot(first).during[v]
               /\ k = n => /\ Shows(Dot(first), high) = Dot(first).rest[v]
                           /\ Idle(Dot(first), high)
    <3>1. k \in 1..(4 * N)
      BY <2>3
    <3>2. /\ Shows(Dot(first), high) \in Dot(first).during[v]
          /\ k = 4 * N => /\ Rows(first, high) = {} /\ Columns(high) = {}
                          /\ Shows(Dot(first), high) = Dot(first).rest[v]
      BY <2>1, <2>4, <3>1, DotPictures, ZenonT(40)
    <3>3. k < n => k \in 1..(4 * N - 1)
      BY <2>3, OutputAssumption
    <3>4. k < n => DotLevels(first, v, k + 1, Put(DotWrite(v, first)[k + 1], high))
      BY <2>1, <2>4, <3>3, DotSteps, Zenon
    <3>5. QED
      BY <1>2, <2>3, <3>2, <3>4, Zenon
  <2>5. Idle(Dot(first), high) => DotLevels(first, v, 1, Put(DotWrite(v, first)[1], high))
    BY <1>2, <2>1, DotSteps
  <2>6. DotWrite(v, first) \in Seq(StoresOn(Dot(first).pins))
    BY <2>1, DotStores
  <2>7. QED
    BY <1>4, <2>1, <2>2, <2>3, <2>4, <2>5, <2>6 DEF Fits
<1>5. QED
  BY <1>3, <1>4

\* ... the seven-segment display, ...
LEMMA FndFits ==
  ASSUME NEW v \in Marked("fnd"), NEW high \in SUBSET Fnd.pins
  PROVE  Fits("fnd", v, high)
<1>1. /\ Fnd.open = <<>> /\ Fnd.rows = {} /\ Fnd.rowOn = TRUE /\ Fnd.pins = Data(Lines)
      /\ DOMAIN Fnd.write = DOMAIN fnd_values
      /\ \A x \in DOMAIN fnd_values :
           /\ Fnd.write[x] = <<Low(Data(Lines)), High(Data(fnd_values[x]))>>
           /\ Fnd.rest[x] = Data(fnd_values[x]) /\ Fnd.during[x] = {{}}
  BY DEF Fnd, PinDevice
<1>2. Shows(Fnd, high) = high /\ Idle(Fnd, high)
  BY <1>1 DEF Shows, Picture, Idle
<1>3. CASE v = Blank
  <2>1. Stores("fnd", v) = <<>>
    BY <1>1, <1>3, DeviceIs DEF Stores
  <2>2. QED
    BY <2>1, NothingFits
<1>4. CASE v # Blank
  <2>1. /\ v \in DOMAIN fnd_values
        /\ Stores("fnd", v) = <<Low(Data(Lines)), High(Data(fnd_values[v]))>>
    BY <1>1, <1>4, DeviceIs DEF Stores, Marked
  <2>2. \A k, h : Levels("fnd", v, k, h) <=> FndLevels(v, k, h)
    BY DEF Levels
  <2>3. Data(fnd_values[v]) \subseteq Data(Lines)
    BY <2>1, OutputAssumption, PinsType DEF Data
  <2>4. /\ Low(Data(Lines)) \in StoresOn(Fnd.pins) /\ High(Data(fnd_values[v])) \in StoresOn(Fnd.pins)
    BY <1>1, <2>3, StoreType
  <2>5. FndLevels(v, 1, Put(Low(Data(Lines)), high))
    BY <1>1 DEF FndLevels, Put, Low
  <2>6. FndLevels(v, 1, high) => FndLevels(v, 2, Put(High(Data(fnd_values[v])), high))
    BY DEF FndLevels, Put, High
  <2>7. FndLevels(v, 1, high) => high = {}
    BY DEF FndLevels
  <2>8. FndLevels(v, 2, high) => high = Data(fnd_values[v])
    BY DEF FndLevels
  <2> DEFINE w == <<Low(Data(Lines)), High(Data(fnd_values[v]))>>
  <2>9. w \in Seq(StoresOn(Fnd.pins)) /\ Len(w) = 2 /\ w[1] = Low(Data(Lines)) /\ w[2] = High(Data(fnd_values[v]))
    BY <2>4
  <2> HIDE DEF w
  <2>10. ASSUME NEW k \in 1..2, FndLevels(v, k, high)
         PROVE  /\ k < 2 => FndLevels(v, k + 1, Put(w[k + 1], high))
                /\ k < 2 => high = {}
                /\ k = 2 => high = Data(fnd_values[v])
    <3>1. CASE k = 1
      BY <2>6, <2>7, <2>9, <2>10, <3>1
    <3>2. CASE k = 2
      BY <2>8, <2>10, <3>2
    <3>3. QED
      BY <3>1, <3>2
  <2>11. Stores("fnd", v) = w
    BY <2>1 DEF w
  <2>12. Fnd.rest[v] = Data(fnd_values[v]) /\ Fnd.during[v] = {{}}
    BY <1>1, <2>1
  <2>13. QED
    BY <1>2, <1>4, <2>2, <2>5, <2>9, <2>10, <2>11, <2>12, DeviceIs DEF Fits
<1>5. QED
  BY <1>3, <1>4

\* ... the lamp and the coin machine's motor, ...
LEMMA OnFits ==
  ASSUME NEW d \in {"lamp", "motor"}, NEW pin, NEW on \in {0, 1},
         d = "lamp" => pin = 17 /\ on = 0, d = "motor" => pin = 9 /\ on = 1,
         NEW v \in Marked(d), NEW high \in SUBSET {pin}
  PROVE  Fits(d, v, high)
<1> DEFINE D == Device[d]
<1>1. /\ D.open = <<>> /\ D.rows = {} /\ D.rowOn = TRUE /\ D.pins = {pin}
      /\ DOMAIN D.write = {0, 1}
      /\ \A x \in {0, 1} :
           /\ D.write[x] = IF x = on THEN <<High({pin})>> ELSE <<Low({pin})>>
           /\ D.rest[x] = IF x = on THEN {pin} ELSE {}
  <2>1. CASE d = "lamp"
    <3>1. D = Lamp /\ pin = 17 /\ on = 0
      BY <2>1, DeviceIs
    <3>2. QED
      BY <3>1, SMTT(30) DEF Lamp, PinDevice
  <2>2. CASE d = "motor"
    <3>1. D = Motor /\ pin = 9 /\ on = 1
      BY <2>2, DeviceIs
    <3>2. QED
      BY <3>1, SMTT(30) DEF Motor, PinDevice
  <2>3. QED
    BY <2>1, <2>2
<1> HIDE DEF D
<1>2. Shows(D, high) = high /\ Idle(D, high)
  <2>1. high \cap D.pins = high
    BY <1>1
  <2>2. QED
    BY <1>1, <2>1 DEF Shows, Picture, Idle
<1>3. CASE v = Blank
  <2>1. Stores(d, v) = <<>>
    BY <1>1, <1>3 DEF Stores, D
  <2>2. QED
    BY <2>1, NothingFits
<1>4. CASE v # Blank
  <2>1. v \in {0, 1} /\ Stores(d, v) = D.write[v]
    BY <1>1, <1>4 DEF Stores, Marked, D
  <2>2. \A k, h : Levels(d, v, k, h) <=> OnLevels(pin, on, v, k, h)
    BY DEF Levels
  <2>3. High({pin}) \in StoresOn(D.pins) /\ Low({pin}) \in StoresOn(D.pins)
    BY <1>1, StoreType
  <2>4. PICK w : w = D.write[v]
    OBVIOUS
  <2>a. PICK store \in StoresOn(D.pins) :
          w = <<store>> /\ store = IF v = on THEN High({pin}) ELSE Low({pin})
    BY <1>1, <2>1, <2>3, <2>4
  <2>5. w \in Seq(StoresOn(D.pins)) /\ Len(w) = 1 /\ w[1] = store
    BY <2>a
  <2>b. Put(store, high) = IF v = on THEN {pin} ELSE {}
    BY <2>a, PutEither, SMTT(30)
  <2>6. OnLevels(pin, on, v, 1, Put(w[1], high))
    BY <2>5, <2>b DEF OnLevels
  <2>7. OnLevels(pin, on, v, 1, high) => high = D.rest[v]
    BY <1>1, <2>1 DEF OnLevels
  <2>8. QED
    BY <1>2, <1>4, <2>1, <2>2, <2>4, <2>5, <2>6, <2>7 DEF Fits, D
<1>5. QED
  BY <1>3, <1>4

\* (A servo write raises and lowers its pin once for each pulse.)
LEMMA ServoLoop ==
  LET w == Loop(Pulses, 2, [i \in 0..(Pulses - 1) |-> <<High({2}), Low({2})>>])
  IN /\ w \in Seq(StoresOn({2})) /\ Len(w) = 2 * Pulses
     /\ \A i \in 0..(Pulses - 1) : w[2 * i + 1] = High({2}) /\ w[2 * i + 2] = Low({2})
<1> DEFINE body == [i \in 0..(Pulses - 1) |-> <<High({2}), Low({2})>>]
           S == StoresOn({2})
<1>1. \A i \in 0..(Pulses - 1) : body[i][1] = High({2}) /\ body[i][2] = Low({2})
  OBVIOUS
<1> HIDE DEF body
<1>2. High({2}) \in S /\ Low({2}) \in S
  BY StoreType
<1> HIDE DEF S
<1>3. Bodies(Pulses, 2, body, S)
  BY <1>1, <1>2 DEF Bodies
<1>4. Pulses \in Nat
  BY OutputAssumption
<1>5. PICK w : w = Loop(Pulses, 2, body)
  OBVIOUS
<1>6. IsLoop(w, Pulses, 2, body, S)
  BY <1>3, <1>4, <1>5, LoopOfTwo, Zenon
<1>7. /\ w \in Seq(S) /\ Len(w) = 2 * Pulses
      /\ \A i \in 0..(Pulses - 1), j \in 1..2 : w[2 * i + j] = body[i][j]
  BY <1>6 DEF IsLoop
<1>8. \A i \in 0..(Pulses - 1) : w[2 * i + 1] = High({2}) /\ w[2 * i + 2] = Low({2})
  BY <1>1, <1>7
<1>9. QED
  BY <1>5, <1>7, <1>8, Zenon DEF body, S

\* ... the servo motor, ...
LEMMA ServoFits ==
  ASSUME NEW v \in Marked("servo"), NEW high \in SUBSET {2}
  PROVE  Fits("servo", v, high)
<1> DEFINE w == Loop(Pulses, 2, [i \in 0..(Pulses - 1) |-> <<High({2}), Low({2})>>])
<1>1. /\ Servo.open = <<>> /\ Servo.rows = {} /\ Servo.rowOn = TRUE /\ Servo.pins = {2}
      /\ DOMAIN Servo.write = {"c", "l", "r", "q"}
      /\ \A x \in {"c", "l", "r", "q"} :
           /\ Servo.write[x] = IF x = "q" THEN <<>> ELSE w
           /\ Servo.rest[x] = {} /\ Servo.during[x] = {{}, {2}}
  BY DEF Servo, PinDevice
<1>a. w \in Seq(StoresOn(Servo.pins)) /\ Len(w) = 2 * Pulses
      /\ \A i \in 0..(Pulses - 1) : w[2 * i + 1] = High({2}) /\ w[2 * i + 2] = Low({2})
  BY <1>1, ServoLoop
<1> HIDE DEF w
<1>b. Put(High({2}), high) = {2} /\ Put(Low({2}), high) = {}
  <2>1. high \cup {2} = {2} /\ high \ {2} = {}
    OBVIOUS
  <2>2. QED
    BY <2>1, PutEither, Zenon
<1>2. Shows(Servo, high) = high /\ Idle(Servo, high)
  BY <1>1 DEF Shows, Picture, Idle
<1>3. CASE Stores("servo", v) = <<>>
  BY <1>3, NothingFits
<1>4. CASE Stores("servo", v) # <<>>
  <2>1. v \in {"c", "l", "r"} /\ v # Blank /\ Stores("servo", v) = w
    BY <1>1, <1>4, DeviceIs DEF Stores, Marked
  <2>2. \A k, h : Levels("servo", v, k, h) <=> ServoLevels(k, h)
    BY DEF Levels
  <2>3. PICK n \in Nat : n = Pulses /\ Len(w) = 2 * n
    BY <1>a, OutputAssumption
  <2>4. ServoLevels(1, Put(w[1], high))
    <3>1. n # 0
      BY <1>4, <1>a, <2>1, <2>3
    <3>2. 0 \in 0..(n - 1) /\ 2 * 0 + 1 = 1
      BY <3>1
    <3>3. w[1] = High({2})
      BY <1>a, <2>3, <3>2
    <3>4. Put(w[1], high) = {2}
      BY <1>b, <3>3, Zenon
    <3>5. QED
      BY <2>3, <3>2, <3>4 DEF ServoLevels
  <2>5. ASSUME NEW k \in 1..(2 * n), ServoLevels(k, high)
        PROVE  /\ k < 2 * n => ServoLevels(k + 1, Put(w[k + 1], high))
               /\ k = 2 * n => high = {}
    <3> SUFFICES ASSUME NEW st, st = w[k + 1]
                 PROVE  /\ k < 2 * n => ServoLevels(k + 1, Put(st, high))
                        /\ k = 2 * n => high = {}
      OBVIOUS
    <3>1. PICK i \in 0..(n - 1) : \/ k = 2 * i + 1 /\ high = {2}
                                  \/ k = 2 * i + 2 /\ high = {}
      BY <2>3, <2>5 DEF ServoLevels
    <3>2. CASE k = 2 * i + 1
      <4>1. k + 1 = 2 * i + 2 /\ k # 2 * n
        BY <3>2
      <4>2. st = Low({2})
        BY <1>a, <2>3, <4>1
      <4>3. Put(st, high) = {}
        BY <1>b, <4>2, Zenon
      <4>4. QED
        BY <2>3, <4>1, <4>3 DEF ServoLevels
    <3>3. CASE k = 2 * i + 2 /\ high = {}
      <4>1. ASSUME k < 2 * n PROVE ServoLevels(k + 1, Put(st, high))
        <5>1. PICK j \in 0..(n - 1) : k + 1 = 2 * j + 1
          <6>1. i + 1 \in 0..(n - 1) /\ k + 1 = 2 * (i + 1) + 1
            BY <3>3, <4>1
          <6>2. QED
            BY <6>1
        <5>2. st = High({2})
          BY <1>a, <2>3, <5>1
        <5>3. Put(st, high) = {2}
          BY <1>b, <5>2, Zenon
        <5>4. QED
          BY <2>3, <5>1, <5>3 DEF ServoLevels
      <4>2. QED
        BY <3>3, <4>1
    <3>4. QED
      BY <3>1, <3>2, <3>3
  <2>6. Shows(Servo, high) \in Servo.during[v] /\ Servo.rest[v] = {}
    <3>1. high \in {{}, {2}}
      OBVIOUS
    <3>2. QED
      BY <1>1, <1>2, <2>1, <3>1, Zenon
  <2>7. PICK m \in Nat : m = 2 * n
    OBVIOUS
  <2>8. ASSUME NEW k \in 1..m, ServoLevels(k, high)
        PROVE  /\ k < m => ServoLevels(k + 1, Put(w[k + 1], high))
               /\ k = m => high = {}
    BY <2>5, <2>7, <2>8
  <2>9. QED
    BY <1>a, <1>2, <2>1, <2>2, <2>3, <2>4, <2>6, <2>7, <2>8, DeviceIs DEF Fits
<1>5. QED
  BY <1>3, <1>4

\* ... and a key driver, which puts out nothing.
LEMMA KeyFits ==
  ASSUME NEW v \in Marked("key"), NEW high
  PROVE  Fits("key", v, high)
<1>1. Key.open = <<>> /\ DOMAIN Key.write = {}
  BY DEF Key, PinDevice
<1>2. v = Blank
  BY <1>1, DeviceIs DEF Marked
<1>3. Stores("key", v) = <<>>
  BY <1>1, <1>2, DeviceIs DEF Stores
<1>4. QED
  BY <1>3, NothingFits

\* What every device shows from store to store is what its values say.
LEMMA AllFit ==
  ASSUME NEW d \in DOMAIN Device, NEW v \in Marked(d), NEW high \in SUBSET Device[d].pins
  PROVE  Fits(d, v, high)
<1>1. CASE d = "led"
  BY <1>1, DeviceIs, LedFits
<1>2. CASE d = "dot"
  BY <1>2, DeviceIs, DotFits
<1>3. CASE d = "dot2"
  BY <1>3, DeviceIs, DotFits
<1>4. CASE d = "fnd"
  BY <1>4, DeviceIs, FndFits
<1>5. CASE d = "lamp"
  <2>1. Device["lamp"].pins = {17}
    BY DeviceIs DEF Lamp, PinDevice
  <2>2. QED
    BY <1>5, <2>1, OnFits
<1>6. CASE d = "motor"
  <2>1. Device["motor"].pins = {9}
    BY DeviceIs DEF Motor, PinDevice
  <2>2. QED
    BY <1>6, <2>1, OnFits
<1>7. CASE d = "servo"
  <2>1. Device["servo"].pins = {2}
    BY DeviceIs DEF Servo, PinDevice
  <2>2. QED
    BY <1>7, <2>1, ServoFits
<1>8. CASE d = "key"
  BY <1>8, KeyFits
<1>9. QED
  BY <1>1, <1>2, <1>3, <1>4, <1>5, <1>6, <1>7, <1>8, DeviceIs

----------------------------------------------------------------------------
(* The states of a device.                                                 *)

\* What is left of w after k stores.
Rest(w, k) == [j \in 1..(Len(w) - k) |-> w[k + j]]

\* A step of an open or write under way takes the next of them.
LEMMA RestSteps ==
  ASSUME NEW S, NEW w \in Seq(S), NEW k \in 0..Len(w)
  PROVE  /\ Rest(w, k) \in Seq(S) /\ Rest(w, 0) = w
         /\ Rest(w, k) = <<>> <=> k = Len(w)
         /\ k < Len(w) => /\ Rest(w, k)[1] = w[k + 1]
                          /\ Tail(Rest(w, k)) = Rest(w, k + 1)
<1>1. PICK n \in Nat : n = Len(w) /\ w \in [1..n -> S]
  OBVIOUS
<1>2. n - k \in Nat /\ Rest(w, k) = [j \in 1..(n - k) |-> w[k + j]]
  BY <1>1 DEF Rest
<1>3. Rest(w, k) \in Seq(S) /\ Len(Rest(w, k)) = n - k
  BY <1>1, <1>2
<1>4. Rest(w, k) = <<>> <=> k = n
  <2>1. Rest(w, k) = <<>> <=> Len(Rest(w, k)) = 0
    BY <1>3, EmptySeq
  <2>2. n - k = 0 <=> k = n
    BY <1>1
  <2>3. QED
    BY <1>3, <2>1, <2>2, Zenon
<1>5. Rest(w, 0) = w
  BY <1>1 DEF Rest
<1>6. ASSUME k < n
      PROVE  Rest(w, k)[1] = w[k + 1] /\ Tail(Rest(w, k)) = Rest(w, k + 1)
  <2>1. Rest(w, k)[1] = w[k + 1]
    BY <1>1, <1>2, <1>6
  <2>2. Rest(w, k + 1) = [j \in 1..(n - (k + 1)) |-> w[(k + 1) + j]]
    BY <1>1 DEF Rest
  <2>3. Tail(Rest(w, k)) = [j \in 1..((n - k) - 1) |-> Rest(w, k)[j + 1]]
    BY <1>2, <1>3, <1>6
  <2>4. \A j \in 1..((n - k) - 1) : Rest(w, k)[j + 1] = w[(k + 1) + j]
    BY <1>1, <1>2, <1>6
  <2>5. (n - k) - 1 = n - (k + 1)
    BY <1>1
  <2>6. QED
    BY <2>1, <2>2, <2>3, <2>4, <2>5
<1>7. QED
  BY <1>1, <1>3, <1>4, <1>5, <1>6

\* Of the open or write of v to device d, k stores are done: those left are left,
\* and the pins in high are high.
After(d, v, k, left, high) ==
  /\ k \in 1..Len(Stores(d, v))
  /\ left = Rest(Stores(d, v), k)
  /\ Levels(d, v, k, high)

\* A store only changes the levels of its pins.
LEMMA PutType ==
  ASSUME NEW pins, NEW store \in StoresOn(pins), NEW high \in SUBSET pins
  PROVE  Put(store, high) \in SUBSET pins
  BY DEF Put, StoresOn

\* What the first store of an open or write does, ...
LEMMA StartsRight ==
  ASSUME NEW d \in DOMAIN Device, NEW v \in Marked(d), NEW high \in SUBSET Device[d].pins,
         Stores(d, v) # <<>>, v # Blank => Idle(Device[d], high)
  PROVE  /\ Stores(d, v) \in Seq(StoresOn(Device[d].pins))
         /\ After(d, v, 1, Tail(Stores(d, v)), Put(Stores(d, v)[1], high))
<1> DEFINE w == Stores(d, v)
           S == StoresOn(Device[d].pins)
<1>1. w \in Seq(S) /\ Levels(d, v, 1, Put(w[1], high))
  BY AllFit DEF Fits
<1> HIDE DEF w, S
<1>2. w # <<>>
  BY DEF w
<1>3. Len(w) \in Nat /\ Len(w) # 0
  BY <1>1, <1>2, EmptySeq
<1>4. 0 \in 0..Len(w) /\ 0 < Len(w) /\ 1 \in 1..Len(w) /\ 0 + 1 = 1
  BY <1>3
<1>5. Tail(w) = Rest(w, 1)
  <2>1. Rest(w, 0) = w /\ Tail(Rest(w, 0)) = Rest(w, 0 + 1)
    BY <1>1, <1>4, RestSteps
  <2>2. QED
    BY <1>4, <2>1, Zenon
<1>6. QED
  BY <1>1, <1>4, <1>5, Zenon DEF After, w, S

\* ... what every other one does, ...
LEMMA GoesOnRight ==
  ASSUME NEW d \in DOMAIN Device, NEW v \in Marked(d), NEW high \in SUBSET Device[d].pins,
         NEW k, NEW left, After(d, v, k, left, high), left # <<>>
  PROVE  After(d, v, k + 1, Tail(left), Put(left[1], high))
<1> DEFINE w == Stores(d, v)
           S == StoresOn(Device[d].pins)
<1>1. w \in Seq(S) /\ k \in 1..Len(w) /\ left = Rest(w, k) /\ Levels(d, v, k, high)
      /\ (k < Len(w) => Levels(d, v, k + 1, Put(w[k + 1], high)))
  BY AllFit DEF Fits, After
<1> HIDE DEF w, S
<1>2. Len(w) \in Nat /\ k \in 0..Len(w)
  BY <1>1
<1>3. k # Len(w)
  BY <1>1, <1>2, RestSteps
<1>4. k < Len(w) /\ k + 1 \in 1..Len(w)
  BY <1>1, <1>2, <1>3
<1>5. left[1] = w[k + 1] /\ Tail(left) = Rest(w, k + 1)
  BY <1>1, <1>2, <1>4, RestSteps
<1>6. QED
  BY <1>1, <1>4, <1>5, Zenon DEF After, w, S

\* ... and what is to be seen after each, and when none is left.
LEMMA ShowsRight ==
  ASSUME NEW d \in DOMAIN Device, NEW v \in Marked(d), NEW high \in SUBSET Device[d].pins,
         NEW k, NEW left, After(d, v, k, left, high)
  PROVE  /\ v = Blank => Shows(Device[d], high) = {}
         /\ v # Blank /\ left # <<>> => Shows(Device[d], high) \in Device[d].during[v]
         /\ v # Blank /\ left = <<>> => Shows(Device[d], high) = Device[d].rest[v]
         /\ left = <<>> => Idle(Device[d], high)
<1> DEFINE w == Stores(d, v)
           S == StoresOn(Device[d].pins)
           picture == Shows(Device[d], high)
<1>1. /\ w \in Seq(S) /\ k \in 1..Len(w) /\ left = Rest(w, k)
      /\ v = Blank => picture = {}
      /\ v # Blank /\ k < Len(w) => picture \in Device[d].during[v]
      /\ v # Blank /\ k = Len(w) => picture = Device[d].rest[v]
      /\ k = Len(w) => Idle(Device[d], high)
  BY AllFit DEF Fits, After
<1> HIDE DEF w, S, picture
<1>2. Len(w) \in Nat /\ k \in 0..Len(w)
  BY <1>1
<1>3. left = <<>> <=> k = Len(w)
  BY <1>1, <1>2, RestSteps
<1>4. k # Len(w) => k < Len(w)
  BY <1>1, <1>2
<1>5. QED
  BY <1>1, <1>3, <1>4, Zenon DEF picture

\* A display whose open or write has ended is dark where it has to be.
LEMMA EndsDark ==
  ASSUME NEW d \in DOMAIN Device, NEW v \in Marked(d), NEW high \in SUBSET Device[d].pins,
         NEW k, NEW left, After(d, v, k, left, high)
  PROVE  left = <<>> => Idle(Device[d], high)
  BY ShowsRight

\* After n stores to the function select registers, the pins in out are outputs: those
\* so far but one that was just made an input.
SelectedSoFar(order, n, out) ==
  \E m \in Nat :
    \/ n = 2 * m /\ \A i \in 1..m : order[i] \in out
    \/ n = 2 * m + 1 /\ \A i \in 1..m : order[i] \in out \cup {order[m + 1]}

\* Each such store keeps this.
LEMMA SelectStep ==
  ASSUME NEW order, NEW n \in Nat, NEW out, SelectedSoFar(order, n, out),
         NEW pin, pin = order[(n \div 2) + 1]
  PROVE  SelectedSoFar(order, n + 1, IF n % 2 = 0 THEN out \ {pin} ELSE out \cup {pin})
<1>1. PICK m \in Nat :
        \/ n = 2 * m /\ \A i \in 1..m : order[i] \in out
        \/ n = 2 * m + 1 /\ \A i \in 1..m : order[i] \in out \cup {order[m + 1]}
  BY DEF SelectedSoFar
<1>2. CASE n = 2 * m /\ \A i \in 1..m : order[i] \in out
  <2>1. n % 2 = 0 /\ pin = order[m + 1] /\ n + 1 = 2 * m + 1
    BY <1>2
  <2>2. \A i \in 1..m : order[i] \in (out \ {pin}) \cup {order[m + 1]}
    BY <1>2, <2>1
  <2>3. QED
    BY <2>1, <2>2 DEF SelectedSoFar
<1>3. CASE n = 2 * m + 1 /\ \A i \in 1..m : order[i] \in out \cup {order[m + 1]}
  <2>1. n % 2 # 0 /\ pin = order[m + 1] /\ n + 1 = 2 * (m + 1)
    BY <1>3
  <2>2. \A i \in 1..(m + 1) : order[i] \in out \cup {pin}
    BY <1>3, <2>1
  <2>3. m + 1 \in Nat
    OBVIOUS
  <2>4. QED
    BY <2>1, <2>2, <2>3 DEF SelectedSoFar
<1>4. QED
  BY <1>1, <1>2, <1>3

\* The pins that an open selects, one after the other, are those of the device.
LEMMA OrderIsPins ==
  ASSUME NEW d \in DOMAIN Device
  PROVE  LET order == Device[d].order
         IN /\ Len(order) \in Nat
            /\ \A k \in 1..Len(order) : order[k] \in Device[d].pins
            /\ \A pin \in Device[d].pins : \E k \in 1..Len(order) : order[k] = pin
<1> DEFINE Covers(order, pins) ==
             /\ Len(order) \in Nat
             /\ \A k \in 1..Len(order) : order[k] \in pins
             /\ \A pin \in pins : \E k \in 1..Len(order) : order[k] = pin
<1>0. N \in Nat /\ N >= 1 /\ Lines = 0..(N - 1)
  BY OutputAssumption DEF Lines
<1>1. ASSUME NEW first \in {2, 10, 20}
      PROVE  /\ Ascending(first) \in Seq(Int) /\ Len(Ascending(first)) = N
             /\ \A k \in 1..N : Ascending(first)[k] = (first + k) - 1
             /\ \A pin : pin \in Pins(first, Lines) <=> \E k \in 1..N : pin = (first + k) - 1
  <2>1. \A k \in 1..N : (first + k) - 1 \in Int
    BY <1>0
  <2>2. /\ Ascending(first) \in Seq(Int) /\ Len(Ascending(first)) = N
        /\ \A k \in 1..N : Ascending(first)[k] = (first + k) - 1
    BY <1>0, <2>1 DEF Ascending
  <2>3. ASSUME NEW pin, pin \in Pins(first, Lines) PROVE \E k \in 1..N : pin = (first + k) - 1
    <3>1. PICK l \in Lines : pin = first + l
      BY <2>3 DEF Pins
    <3>2. l + 1 \in 1..N /\ pin = (first + (l + 1)) - 1
      BY <1>0, <3>1
    <3>3. QED
      BY <3>2
  <2>4. ASSUME NEW k \in 1..N PROVE (first + k) - 1 \in Pins(first, Lines)
    <3>1. k - 1 \in Lines /\ (first + k) - 1 = first + (k - 1)
      BY <1>0
    <3>2. QED
      BY <3>1 DEF Pins
  <2>5. QED
    BY <2>2, <2>3, <2>4
<1>2. ASSUME NEW first \in {2, 20} PROVE Covers(Dot(first).order, Dot(first).pins)
  <2>1. /\ Dot(first).order = Ascending(10) \o Ascending(first)
        /\ Dot(first).pins = Pins(10, Lines) \cup Pins(first, Lines)
    BY DEF Dot, Data
  <2> DEFINE order == Dot(first).order
  <2>2. /\ Len(order) = 2 * N
        /\ \A k \in 1..(2 * N) :
             order[k] = IF k <= N THEN (10 + k) - 1 ELSE (first + (k - N)) - 1
    <3>1. PICK a, b : a = Ascending(10) /\ b = Ascending(first)
      OBVIOUS
    <3>2. /\ a \in Seq(Int) /\ b \in Seq(Int) /\ Len(a) = N /\ Len(b) = N
          /\ \A k \in 1..N : a[k] = (10 + k) - 1 /\ b[k] = (first + k) - 1
      BY <1>1, <3>1
    <3>3. Len(a \o b) = N + N /\ \A k \in 1..(N + N) : (a \o b)[k] = IF k <= N THEN a[k] ELSE b[k - N]
      <4>1. /\ Len(a \o b) = Len(a) + Len(b)
            /\ \A k \in 1..(Len(a) + Len(b)) :
                 (a \o b)[k] = IF k <= Len(a) THEN a[k] ELSE b[k - Len(a)]
        BY <3>2, ConcatProperties, Zenon
      <4>2. QED
        BY <3>2, <4>1, Zenon
    <3>4. \A k \in 1..(N + N) : (a \o b)[k] = IF k <= N THEN (10 + k) - 1 ELSE (first + (k - N)) - 1
      BY <1>0, <3>2, <3>3
    <3>5. order = a \o b /\ 2 * N = N + N
      BY <1>0, <2>1, <3>1
    <3>6. QED
      BY <3>3, <3>4, <3>5, Zenon
  <2> HIDE DEF order
  <2>3. ASSUME NEW k \in 1..(2 * N) PROVE order[k] \in Dot(first).pins
    <3>1. CASE k <= N
      BY <1>0, <1>1, <2>1, <2>2, <3>1
    <3>2. CASE ~(k <= N)
      <4>1. k - N \in 1..N
        BY <1>0, <3>2
      <4>2. (first + (k - N)) - 1 \in Pins(first, Lines)
        BY <1>1, <4>1
      <4>3. order[k] = (first + (k - N)) - 1
        BY <2>2, <3>2
      <4>4. QED
        BY <2>1, <4>2, <4>3
    <3>3. QED
      BY <3>1, <3>2
  <2>4. ASSUME NEW pin \in Dot(first).pins PROVE \E k \in 1..(2 * N) : order[k] = pin
    <3>1. CASE pin \in Pins(10, Lines)
      <4>1. PICK k \in 1..N : pin = (10 + k) - 1
        BY <1>1, <3>1
      <4>2. k \in 1..(2 * N) /\ k <= N
        BY <1>0
      <4>3. QED
        BY <2>2, <4>1, <4>2
    <3>2. CASE pin \in Pins(first, Lines)
      <4>1. PICK k \in 1..N : pin = (first + k) - 1
        BY <1>1, <3>2
      <4>2. N + k \in 1..(2 * N) /\ ~(N + k <= N) /\ (N + k) - N = k
        BY <1>0
      <4>3. QED
        BY <2>2, <4>1, <4>2
    <3>3. QED
      BY <2>1, <3>1, <3>2
  <2>5. 2 * N \in Nat
    BY <1>0
  <2>6. QED
    BY <2>2, <2>3, <2>4, <2>5 DEF order
<1>3. Covers(LedBar.order, LedBar.pins)
  <2> DEFINE order == [k \in 1..(2 * N) |-> IF k % 2 = 1 THEN 10 + (k \div 2) ELSE 19 + (k \div 2)]
  <2>1. LedBar.order = order /\ LedBar.pins = Pins(10, Lines) \cup Pins(20, Lines)
    BY DEF LedBar, Data
  <2>2. 2 * N \in Nat /\ Len(order) = 2 * N
    BY <1>0
  <2>3. ASSUME NEW k \in 1..(2 * N) PROVE order[k] \in LedBar.pins
    <3>1. CASE k % 2 = 1
      <4>1. (k \div 2) + 1 \in 1..N /\ 10 + (k \div 2) = (10 + ((k \div 2) + 1)) - 1
        BY <1>0, <3>1
      <4>2. order[k] = 10 + (k \div 2)
        BY <3>1
      <4>3. 10 + (k \div 2) \in Pins(10, Lines)
        BY <1>1, <4>1
      <4>4. QED
        BY <2>1, <4>2, <4>3
    <3>2. CASE k % 2 # 1
      <4>1. k \div 2 \in 1..N /\ 19 + (k \div 2) = (20 + (k \div 2)) - 1
        BY <1>0, <3>2
      <4>2. order[k] = 19 + (k \div 2)
        BY <3>2
      <4>3. 19 + (k \div 2) \in Pins(20, Lines)
        BY <1>1, <4>1
      <4>4. QED
        BY <2>1, <4>2, <4>3
    <3>3. QED
      BY <3>1, <3>2
  <2>4. ASSUME NEW pin \in LedBar.pins PROVE \E k \in 1..(2 * N) : order[k] = pin
    <3>1. CASE pin \in Pins(10, Lines)
      <4>1. PICK k \in 1..N : pin = (10 + k) - 1
        BY <1>1, <3>1
      <4>2. 2 * k - 1 \in 1..(2 * N) /\ (2 * k - 1) % 2 = 1 /\ 10 + ((2 * k - 1) \div 2) = pin
        BY <1>0, <4>1
      <4>3. QED
        BY <4>2
    <3>2. CASE pin \in Pins(20, Lines)
      <4>1. PICK k \in 1..N : pin = (20 + k) - 1
        BY <1>1, <3>2
      <4>2. 2 * k \in 1..(2 * N) /\ (2 * k) % 2 # 1 /\ 19 + ((2 * k) \div 2) = pin
        BY <1>0, <4>1
      <4>3. QED
        BY <4>2
    <3>3. QED
      BY <2>1, <3>1, <3>2
  <2> HIDE DEF order
  <2>5. QED
    BY <2>1, <2>2, <2>3, <2>4
<1>4. Covers(Fnd.order, Fnd.pins)
  <2>1. Fnd.order = Ascending(10) /\ Fnd.pins = Pins(10, Lines)
    BY DEF Fnd, PinDevice, Data
  <2>2. PICK a : a = Ascending(10)
    OBVIOUS
  <2>3. /\ Len(a) = N /\ \A k \in 1..N : a[k] = (10 + k) - 1
        /\ \A pin : pin \in Fnd.pins <=> \E k \in 1..N : pin = (10 + k) - 1
    BY <1>1, <2>1, <2>2
  <2>4. Covers(a, Fnd.pins)
    BY <1>0, <2>3
  <2>5. QED
    BY <2>1, <2>2, <2>4
<1>5. ASSUME NEW pin PROVE Covers(<<pin>>, {pin})
  BY <1>5
<1>6. /\ Lamp.order = <<17>> /\ Lamp.pins = {17}
      /\ Motor.order = <<9>> /\ Motor.pins = {9}
      /\ Servo.order = <<2>> /\ Servo.pins = {2}
      /\ Key.order = <<>> /\ Key.pins = {}
  BY DEF Lamp, Motor, Servo, Key, PinDevice
<1>7. Covers(<<>>, {})
  BY EmptySeq
<1>8. Covers(Device[d].order, Device[d].pins)
  <2> HIDE DEF Covers
  <2>1. Covers(Lamp.order, Lamp.pins) /\ Covers(Motor.order, Motor.pins)
        /\ Covers(Servo.order, Servo.pins) /\ Covers(Key.order, Key.pins)
    BY <1>5, <1>6, <1>7
  <2>2. Covers(Dot(2).order, Dot(2).pins) /\ Covers(Dot(20).order, Dot(20).pins)
    BY <1>2
  <2>3. QED
    BY <1>3, <1>4, <2>1, <2>2, DeviceIs
<1>9. QED
  BY <1>8

\* When all are selected, all are outputs.
LEMMA AllSelected ==
  ASSUME NEW d \in DOMAIN Device, NEW out \in SUBSET Device[d].pins,
         SelectedSoFar(Device[d].order, 2 * Len(Device[d].order), out)
  PROVE  out = Device[d].pins
<1> DEFINE order == Device[d].order
<1>1. PICK n \in Nat : n = Len(order)
  BY OrderIsPins
<1>2. SelectedSoFar(order, 2 * n, out)
  BY <1>1
<1>3. \A i \in 1..n : order[i] \in out
  <2>1. PICK m \in Nat :
          \/ 2 * n = 2 * m /\ \A i \in 1..m : order[i] \in out
          \/ 2 * n = 2 * m + 1 /\ \A i \in 1..m : order[i] \in out \cup {order[m + 1]}
    BY <1>2 DEF SelectedSoFar
  <2>2. n = m
    BY <2>1
  <2>3. QED
    BY <2>1, <2>2
<1>4. \A pin \in Device[d].pins : pin \in out
  BY <1>1, <1>3, OrderIsPins
<1>5. QED
  BY <1>4

\* The pins in high and in those of ideal are the same among these.
Agree(high, ideal, pins) == high \cap pins = ideal \cap pins

\* A store makes them agree on its pins too.
LEMMA PutAgrees ==
  ASSUME NEW store, NEW high, NEW ideal, NEW pins, Agree(high, ideal, pins)
  PROVE  Agree(Put(store, high), Put(store, ideal), pins \cup store.pins)
  BY DEF Agree, Put

\* The levels are, on the pins that were stored to, those of a display whose pins were
\* low at power on: that of the stores done so far, and dark where it has to be.
LevelsAreIdeal ==
  \E ideal \in SUBSET Device[device].pins :
    /\ Agree(level, ideal, stored)
    /\ shown # Unset => \E k : After(device, shown, k, todo, ideal)
    /\ todo = <<>> => Idle(Device[device], ideal)

\* As long as no two processes raced: the pins selected so far are outputs, and all of
\* them when no open is under way and somebody wrote or has opened the device; a write
\* ends before its process closes the device, the stores left are those of the value
\* shown, and the levels are those its stores so far have made.
Followed ==
  /\ ~raced
  /\ selected # 0 => \E p \in Procs : pc[p] = "configure"
  /\ SelectedSoFar(Device[device].order, selected, output)
  /\ selected = 0 /\ (shown # Unset \/ \E p \in Procs : pc[p] \in {"request", "open"}) =>
       output = Device[device].pins
  /\ todo # <<>> => \E p \in Procs : pc[p] = "open"
  /\ shown = Unset => todo = <<>>
  /\ LevelsAreIdeal

\* The types of the device, and the stores left only touch its outputs.
OutputTypes ==
  /\ device \in DOMAIN Device
  /\ interrupt = (device = "key")
  /\ selected \in 0..(2 * Len(Device[device].order))
  /\ output \in SUBSET Device[device].pins
  /\ level \in SUBSET Device[device].pins
  /\ stored \in SUBSET Device[device].pins
  /\ shown \in Marked(device) \cup {Unset, Spoilt}
  /\ todo \in Seq(StoresOn(output))

\* All of it together, which is inductive.
OutputInv ==
  /\ LifecycleInv
  /\ OutputTypes
  /\ shown # Spoilt => Followed

\* The output drivers only add to the lifecycle.
LEMMA OutputInitIsInit == OutputInit => Init
  BY DEF OutputInit

\* So every step of theirs is one of the lifecycle, or none.
LEMMA OutputNextIsNext == [OutputNext]_allVars => [Next]_vars
  BY Zenon DEF OutputNext, allVars, Test, SelectPin, PinsSelected, ConfigureSpoilt, Write, Store,
     Release, Elsewhere, ExitOrLoad, Next, vars

\* Nothing makes a device one with an interrupt.
LEMMA InterruptKept == [Next]_vars => interrupt' = interrupt
  BY Zenon DEF Next, vars, Go, OpenTest, OpenTake, OpenMap, OpenMapFails, OpenPins, OpenFaults,
     OpenRequest, OpenRequestFails, ReleaseUsage, ReleaseUnmap, ReleaseFree, Edge,
     HandlerReads, Exit, Load

\* Where the processes can be.
LEMMA PcType ==
  OutputInv => pc \in [Procs -> {"closed", "take", "map", "configure", "request", "open",
                                 "unmap", "free", "dead"}]
  BY DEF OutputInv, LifecycleInv, TypeOK

\* As long as nobody raced, the process that opens or has opened the device is the only one.
LEMMA OnlyOne ==
  ASSUME OutputInv, Followed, NEW p \in Procs, pc[p] # "closed"
  PROVE  /\ ~raced /\ \A q \in Procs : pc[q] # "closed" => q = p
         /\ pc[p] # "open" => todo = <<>>
         /\ pc[p] # "configure" => selected = 0
<1>1. ~raced /\ \A q \in Procs : pc[q] # "closed" => q = p
  BY DEF OutputInv, LifecycleInv, OneInside, Followed
<1>2. /\ todo # <<>> => \E q \in Procs : pc[q] = "open"
      /\ selected # 0 => \E q \in Procs : pc[q] = "configure"
  BY DEF Followed
<1>3. QED
  BY <1>1, <1>2

\* A step that stores nothing and in which no process gets to open or to request
\* keeps what is said of the levels.
LEMMA FollowedKept ==
  ASSUME Followed, UNCHANGED outputVars, ~raced',
         \A q \in Procs : pc'[q] \in {"request", "open"} => pc[q] \in {"request", "open"},
         \A q \in Procs : todo # <<>> /\ pc[q] = "open" => pc'[q] = "open",
         \A q \in Procs : pc[q] = "configure" => pc'[q] = "configure"
  PROVE  Followed'
<1>1. /\ device' = device /\ selected' = selected /\ output' = output /\ level' = level
      /\ stored' = stored /\ shown' = shown /\ todo' = todo
  BY DEF outputVars
<1>2. selected' = 0 /\ (shown' # Unset \/ (\E p \in Procs : pc'[p] \in {"request", "open"})) =>
        output' = Device[device'].pins
  BY <1>1 DEF Followed
<1>3. todo' # <<>> => \E p \in Procs : pc'[p] = "open"
  BY <1>1 DEF Followed
<1>4. LevelsAreIdeal'
  BY <1>1, Zenon DEF Followed, LevelsAreIdeal
<1>5. selected' # 0 => \E p \in Procs : pc'[p] = "configure"
  BY <1>1 DEF Followed
<1>6. SelectedSoFar(Device[device'].order, selected', output')
  BY <1>1 DEF Followed
<1>7. QED
  BY <1>1, <1>2, <1>3, <1>4, <1>5, <1>6 DEF Followed

\* An open has selected nothing at its start.
LEMMA SelectedNone == \A order, out : SelectedSoFar(order, 0, out)
<1>1. 0 = 2 * 0 /\ 1..0 = {}
  OBVIOUS
<1>2. QED
  BY <1>1 DEF SelectedSoFar

\* Of a device nobody has opened, no pin is an output or has been stored to.
LEMMA InitOutput == OutputInit => OutputInv
<1> SUFFICES ASSUME OutputInit PROVE OutputInv
  OBVIOUS
<1>1. LifecycleInv
  BY OutputInitIsInit, InitLifecycle
<1>2. /\ device \in DOMAIN Device /\ output = {} /\ shown = Unset /\ todo = <<>>
      /\ interrupt = (device = "key") /\ selected = 0 /\ stored = {}
      /\ level \in SUBSET Device[device].pins
  BY Zenon DEF OutputInit
<1>3. OutputTypes
  <2>1. Len(Device[device].order) \in Nat
    BY <1>2, OrderIsPins
  <2>2. 0 \in 0..(2 * Len(Device[device].order))
    BY <2>1
  <2>3. QED
    BY <1>2, <2>2, EmptySeq DEF OutputTypes
<1>4. LevelsAreIdeal
  <2>1. Idle(Device[device], {})
    BY DEF Idle, Rows, Columns
  <2>2. Agree(level, {}, stored)
    BY <1>2 DEF Agree
  <2>3. QED
    BY <1>2, <2>1, <2>2 DEF LevelsAreIdeal
<1>5. Followed
  <2>1. ~raced /\ pc = [p \in Procs |-> "closed"]
    BY Zenon DEF OutputInit, Init
  <2>2. QED
    BY <1>2, <1>4, <2>1, SelectedNone DEF Followed
<1>6. QED
  BY <1>1, <1>3, <1>5 DEF OutputInv

\* The first of the stores left, and those after it.
LEMMA FirstStore ==
  ASSUME NEW pins, NEW stores \in Seq(StoresOn(pins)), stores # <<>>, NEW all, pins \subseteq all
  PROVE  /\ Tail(stores) \in Seq(StoresOn(pins))
         /\ stores[1] \in StoresOn(all)
         /\ stores[1].pins \subseteq all
<1>1. stores[1] \in StoresOn(pins) /\ Tail(stores) \in Seq(StoresOn(pins))
  OBVIOUS
<1>2. stores[1] \in StoresOn(all)
  BY <1>1 DEF StoresOn
<1>3. stores[1].pins \subseteq all
  BY <1>2 DEF StoresOn
<1>4. QED
  BY <1>1, <1>2, <1>3, Zenon

\* Every store step begins with a store.
LEMMA BeginIs ==
  ASSUME NEW stores, stores # <<>>, Begin(stores)
  PROVE  /\ level' = Put(stores[1], level) /\ todo' = Tail(stores)
         /\ stored' = stored \cup stores[1].pins
  BY DEF Begin

\* The first store of an open or write of v makes the levels those of v.
LEMMA BeginsIdeal ==
  ASSUME device \in DOMAIN Device, NEW v \in Marked(device), Stores(device, v) # <<>>,
         LevelsAreIdeal, todo = <<>>, Begin(Stores(device, v)), device' = device, shown' = v
  PROVE  LevelsAreIdeal' /\ Stores(device, v) \in Seq(StoresOn(Device[device].pins))
<1> DEFINE w == Stores(device, v)
           pins == Device[device].pins
<1>1. PICK ideal \in SUBSET pins : Agree(level, ideal, stored) /\ Idle(Device[device], ideal)
  BY Zenon DEF LevelsAreIdeal
<1>2. w \in Seq(StoresOn(pins)) /\ After(device, v, 1, Tail(w), Put(w[1], ideal))
  BY <1>1, StartsRight
<1>3. level' = Put(w[1], level) /\ todo' = Tail(w) /\ stored' = stored \cup w[1].pins
  BY BeginIs, Zenon
<1>4. Put(w[1], ideal) \in SUBSET pins
  <2>1. w[1] \in StoresOn(pins)
    BY <1>2, FirstStore
  <2>2. QED
    BY <2>1, PutType
<1>5. Agree(level', Put(w[1], ideal), stored')
  BY <1>1, <1>3, PutAgrees
<1>6. todo' = <<>> => Idle(Device[device], Put(w[1], ideal))
  BY <1>2, <1>3, <1>4, EndsDark
<1>7. After(device', shown', 1, todo', Put(w[1], ideal))
  BY <1>2, <1>3
<1> HIDE DEF w
<1>8. LevelsAreIdeal'
  BY <1>4, <1>5, <1>6, <1>7, Zenon DEF LevelsAreIdeal
<1>9. QED
  BY <1>2, <1>8 DEF w

\* A step of the lifecycle in which nothing is stored keeps the types.
LEMMA TypesKept ==
  ASSUME OutputTypes, interrupt' = interrupt, device' = device, selected' = selected,
         output' = output, level' = level, stored' = stored,
         todo' = todo, shown' \in {shown, Spoilt}
  PROVE  OutputTypes'
  BY DEF OutputTypes

\* The test of the usage flag.
LEMMA TestKeeps ==
  ASSUME OutputInv, interrupt' = interrupt, NEW p \in Procs, Test(p)
  PROVE  OutputTypes' /\ (shown' # Spoilt => Followed')
<1>1. /\ UNCHANGED <<device, selected, output, level, stored, todo>>
      /\ shown' = IF raced' THEN Spoilt ELSE shown
      /\ pc[p] = "closed" /\ pc' = [pc EXCEPT ![p] = "take"]
  BY Zenon DEF Test, OpenTest, Go
<1>2. shown' \in {shown, Spoilt} /\ (shown' # Spoilt => ~raced' /\ shown' = shown)
  BY <1>1, Zenon
<1>3. OutputTypes'
  BY <1>1, <1>2, TypesKept DEF OutputInv
<1>4. ASSUME shown' # Spoilt PROVE Followed'
  <2>1. ~raced' /\ shown' = shown /\ UNCHANGED outputVars
    BY <1>1, <1>2, <1>4, Zenon DEF outputVars
  <2>2. Followed
    BY <1>4, <2>1, Zenon DEF OutputInv
  <2>3. /\ \A q \in Procs : pc'[q] \in {"request", "open"} => pc[q] \in {"request", "open"}
        /\ \A q \in Procs : todo # <<>> /\ pc[q] = "open" => pc'[q] = "open"
        /\ \A q \in Procs : pc[q] = "configure" => pc'[q] = "configure"
    BY <1>1, PcType
  <2>4. QED
    BY <2>1, <2>2, <2>3, FollowedKept
<1>5. QED
  BY <1>3, <1>4

\* A store to a function select register.
LEMMA SelectKeeps ==
  ASSUME OutputInv, interrupt' = interrupt, NEW p \in Procs, SelectPin(p)
  PROVE  OutputTypes' /\ (shown' # Spoilt => Followed')
<1> DEFINE pins == Device[device].pins
           order == Device[device].order
           pin == order[(selected \div 2) + 1]
<1>1. /\ pc[p] = "configure" /\ pc' = pc /\ raced' = raced
      /\ shown # Spoilt /\ selected < 2 * Len(order) /\ selected' = selected + 1
      /\ output' = IF selected % 2 = 0 THEN output \ {pin} ELSE output \cup {pin}
      /\ device' = device /\ level' = level /\ stored' = stored
      /\ shown' = shown /\ todo' = todo
  BY DEF SelectPin, vars
<1>2. OutputTypes /\ Followed
  BY <1>1 DEF OutputInv
<1>3. todo = <<>> /\ ~raced
  BY <1>1, <1>2, OnlyOne
<1>4. PICK n \in Nat : n = Len(order) /\ \A k \in 1..n : order[k] \in pins
  BY <1>2, OrderIsPins DEF OutputTypes
<1>5. selected \in Nat /\ selected' \in 1..(2 * n) /\ (selected \div 2) + 1 \in 1..n
  BY <1>1, <1>2, <1>4 DEF OutputTypes
<1>6. output' \in SUBSET pins
  <2>1. pin \in pins /\ output \in SUBSET pins
    BY <1>2, <1>4, <1>5 DEF OutputTypes
  <2>2. QED
    BY <1>1, <2>1
<1>7. OutputTypes'
  <2>1. selected' \in 0..(2 * Len(order))
    BY <1>4, <1>5
  <2>2. todo' \in Seq(StoresOn(output'))
    BY <1>1, <1>3, EmptySeq
  <2>3. QED
    BY <1>1, <1>2, <1>6, <2>1, <2>2 DEF OutputTypes
<1>8. SelectedSoFar(order, selected', output')
  BY <1>1, <1>2, <1>5, SelectStep DEF Followed
<1>9. Followed'
  <2>1. LevelsAreIdeal'
    BY <1>1, <1>2, Zenon DEF Followed, LevelsAreIdeal
  <2>2. selected' # 0
    BY <1>5
  <2>3. QED
    BY <1>1, <1>3, <1>8, <2>1, <2>2 DEF Followed
<1>10. QED
  BY <1>7, <1>9

\* The end of the configuration of the pins, with the first store of levels.
LEMMA SelectedKeeps ==
  ASSUME OutputInv, interrupt' = interrupt, NEW p \in Procs, PinsSelected(p)
  PROVE  OutputTypes' /\ (shown' # Spoilt => Followed')
<1> DEFINE pins == Device[device].pins
           order == Device[device].order
           open == Device[device].open
<1>1. /\ pc[p] = "configure" /\ pc' = [pc EXCEPT ![p] = IF interrupt THEN "request" ELSE "open"]
      /\ shown # Spoilt /\ device' = device /\ output' = output
      /\ selected = 2 * Len(order) /\ selected' = 0
      /\ shown' = (IF open = <<>> THEN shown ELSE Blank) /\ Begin(open)
  BY DEF PinsSelected, OpenPins, Go
<1>r. raced' = raced
  BY Zenon DEF PinsSelected, OpenPins
<1>2. OutputTypes /\ Followed
  BY <1>1 DEF OutputInv
<1>3. todo = <<>> /\ ~raced
  BY <1>1, <1>2, OnlyOne
<1>4. output' = pins
  BY <1>1, <1>2, AllSelected DEF OutputTypes, Followed
<1>5. SelectedSoFar(Device[device'].order, selected', output') /\ selected' \in 0..(2 * Len(order))
  <2>1. Len(order) \in Nat
    BY <1>2, OrderIsPins DEF OutputTypes
  <2>2. QED
    BY <1>1, <2>1, SelectedNone
<1>6. pc'[p] = IF interrupt THEN "request" ELSE "open"
  BY <1>1, PcType
<1>7. CASE open = <<>>
  <2>1. level' = level /\ todo' = todo /\ shown' = shown /\ stored' = stored
    BY <1>1, <1>7 DEF Begin
  <2>2. OutputTypes'
    BY <1>1, <1>2, <1>3, <1>4, <1>5, <2>1, EmptySeq DEF OutputTypes
  <2>3. LevelsAreIdeal'
    BY <1>1, <1>2, <2>1, Zenon DEF Followed, LevelsAreIdeal
  <2>4. QED
    BY <1>1, <1>3, <1>4, <1>5, <1>r, <2>1, <2>2, <2>3 DEF Followed
<1>8. CASE open # <<>>
  <2>1. device \in DOMAIN Device /\ Blank \in Marked(device) /\ Stores(device, Blank) = open
        /\ level \in SUBSET pins /\ stored \in SUBSET pins
    BY <1>2 DEF OutputTypes, Marked, Stores
  <2>2. shown' = Blank /\ LevelsAreIdeal
    BY <1>1, <1>2, <1>8 DEF Followed
  <2>3. LevelsAreIdeal' /\ open \in Seq(StoresOn(pins))
    BY <1>1, <1>3, <1>8, <2>1, <2>2, BeginsIdeal
  <2>4. level' = Put(open[1], level) /\ todo' = Tail(open) /\ stored' = stored \cup open[1].pins
    BY <1>1, <1>8, BeginIs
  <2>5. level' \in SUBSET pins /\ todo' \in Seq(StoresOn(pins)) /\ stored' \in SUBSET pins
    <3>1. /\ open[1] \in StoresOn(pins) /\ Tail(open) \in Seq(StoresOn(pins))
          /\ open[1].pins \subseteq pins
      BY <1>8, <2>3, FirstStore
    <3>2. Put(open[1], level) \in SUBSET pins
      BY <2>1, <3>1, PutType
    <3>3. QED
      BY <2>1, <2>4, <3>1, <3>2
  <2>6. OutputTypes'
    BY <1>1, <1>2, <1>4, <1>5, <2>1, <2>2, <2>5 DEF OutputTypes
  <2>7. pc'[p] = "open"
    <3>1. device # "key"
      BY <1>8, DeviceIs DEF Key, PinDevice
    <3>2. interrupt = FALSE
      BY <1>2, <3>1 DEF OutputTypes
    <3>3. QED
      BY <1>6, <3>2
  <2>8. output' = Device[device'].pins /\ ~raced' /\ shown' # Unset
    BY <1>1, <1>3, <1>4, <1>r, <2>2, MarkAssumption
  <2>9. QED
    BY <1>1, <1>5, <2>3, <2>6, <2>7, <2>8 DEF Followed
<1>9. QED
  BY <1>7, <1>8

\* The beginning of a write.
LEMMA WriteKeeps ==
  ASSUME OutputInv, interrupt' = interrupt, NEW p \in Procs, Write(p)
  PROVE  OutputTypes' /\ (shown' # Spoilt => Followed')
<1> DEFINE pins == Device[device].pins
<1>1. /\ pc[p] = "open" /\ pc' = pc /\ shown # Spoilt /\ todo = <<>>
      /\ device' = device /\ output' = output /\ selected' = selected
  BY DEF Write, vars
<1>r. raced' = raced
  BY Zenon DEF Write, vars
<1>2. PICK v \in DOMAIN Device[device].write :
        /\ Begin(Device[device].write[v])
        /\ shown' = IF Device[device].write[v] = <<>> THEN shown ELSE v
  BY DEF Write
<1>3. OutputTypes /\ Followed
  BY <1>1 DEF OutputInv
<1>4. selected = 0 /\ ~raced
  BY <1>1, <1>3, OnlyOne
<1>5. output = pins /\ LevelsAreIdeal /\ SelectedSoFar(Device[device].order, selected, output)
  BY <1>1, <1>3, <1>4 DEF Followed
<1>6. CASE Device[device].write[v] = <<>>
  <2>1. level' = level /\ todo' = todo /\ shown' = shown /\ stored' = stored
    BY <1>2, <1>6 DEF Begin
  <2>2. OutputTypes'
    BY <1>1, <1>3, <2>1, TypesKept
  <2>3. UNCHANGED outputVars
    BY <1>1, <2>1 DEF outputVars
  <2>4. QED
    BY <1>1, <1>3, <1>4, <1>r, <2>2, <2>3, FollowedKept
<1>7. CASE Device[device].write[v] # <<>>
  <2> DEFINE w == Device[device].write[v]
  <2>0. device \in DOMAIN Device /\ level \in SUBSET pins /\ stored \in SUBSET pins
    BY <1>3 DEF OutputTypes
  <2>1. v \in Marked(device) /\ v \notin {Blank, Unset, Spoilt} /\ Stores(device, v) = w
    BY <2>0, MarkAssumption DEF Marked, Stores
  <2>2. shown' = v
    BY <1>2, <1>7
  <2>3. LevelsAreIdeal' /\ w \in Seq(StoresOn(pins))
    BY <1>1, <1>2, <1>5, <1>7, <2>0, <2>1, <2>2, BeginsIdeal
  <2>4. level' = Put(w[1], level) /\ todo' = Tail(w) /\ stored' = stored \cup w[1].pins
    BY <1>2, <1>7, BeginIs
  <2>5. level' \in SUBSET pins /\ todo' \in Seq(StoresOn(pins)) /\ stored' \in SUBSET pins
    <3>1. /\ w[1] \in StoresOn(pins) /\ Tail(w) \in Seq(StoresOn(pins))
          /\ w[1].pins \subseteq pins
      BY <1>7, <2>3, FirstStore
    <3>2. Put(w[1], level) \in SUBSET pins
      BY <2>0, <3>1, PutType
    <3>3. QED
      BY <2>0, <2>4, <3>1, <3>2
  <2>6. OutputTypes'
    BY <1>1, <1>3, <1>5, <2>0, <2>1, <2>2, <2>5 DEF OutputTypes
  <2>7. output' = Device[device'].pins /\ ~raced' /\ shown' # Unset /\ pc'[p] = "open"
    BY <1>1, <1>4, <1>5, <1>r, <2>1, <2>2
  <2>8. QED
    BY <1>1, <1>4, <1>5, <2>3, <2>6, <2>7 DEF Followed
<1>8. QED
  BY <1>6, <1>7

\* The next store of the open or write under way.
LEMMA StoreKeeps ==
  ASSUME OutputInv, interrupt' = interrupt, Store
  PROVE  OutputTypes' /\ (shown' # Spoilt => Followed')
<1> DEFINE pins == Device[device].pins
<1>1. /\ todo # <<>> /\ pc' = pc /\ device' = device /\ output' = output /\ shown' = shown
      /\ level' = Put(todo[1], level) /\ todo' = Tail(todo)
      /\ stored' = stored \cup todo[1].pins /\ selected' = selected
  BY BeginIs DEF Store, vars
<1>r. raced' = raced
  BY Zenon DEF Store, vars
<1>2. OutputTypes
  BY DEF OutputInv
<1>3. level' \in SUBSET pins /\ todo' \in Seq(StoresOn(output)) /\ stored' \in SUBSET pins
  <2>1. /\ todo \in Seq(StoresOn(output)) /\ output \subseteq pins
        /\ level \in SUBSET pins /\ stored \in SUBSET pins
    BY <1>2 DEF OutputTypes
  <2>2. /\ Tail(todo) \in Seq(StoresOn(output)) /\ Put(todo[1], level) \in SUBSET pins
        /\ todo[1].pins \subseteq pins
    <3>1. /\ Tail(todo) \in Seq(StoresOn(output)) /\ todo[1] \in StoresOn(pins)
          /\ todo[1].pins \subseteq pins
      BY <1>1, <2>1, FirstStore
    <3>2. Put(todo[1], level) \in SUBSET pins
      BY <2>1, <3>1, PutType
    <3>3. QED
      BY <2>1, <3>1, <3>2
  <2>3. QED
    BY <1>1, <2>1, <2>2
<1>4. OutputTypes'
  BY <1>1, <1>2, <1>3 DEF OutputTypes
<1>5. ASSUME shown' # Spoilt PROVE Followed'
  <2>1. Followed /\ shown # Unset
    BY <1>1, <1>5 DEF OutputInv, Followed
  <2>2. selected = 0 /\ output = pins /\ ~raced
    <3>1. PICK p \in Procs : pc[p] = "open"
      BY <1>1, <2>1 DEF Followed
    <3>2. selected = 0 /\ ~raced
      BY <2>1, <3>1, OnlyOne
    <3>3. QED
      BY <2>1, <3>2 DEF Followed
  <2>3. PICK ideal \in SUBSET pins :
          Agree(level, ideal, stored) /\ \E k : After(device, shown, k, todo, ideal)
    BY <2>1 DEF Followed, LevelsAreIdeal
  <2>4. PICK k : After(device, shown, k, todo, ideal)
    BY <2>3
  <2>5. device \in DOMAIN Device /\ shown \in Marked(device)
    BY <1>1, <1>2, <1>5, <2>1 DEF OutputTypes
  <2>6. After(device, shown, k + 1, Tail(todo), Put(todo[1], ideal))
    BY <1>1, <2>4, <2>5, GoesOnRight
  <2>7. Put(todo[1], ideal) \in SUBSET pins
    <3>1. todo \in Seq(StoresOn(output)) /\ todo # <<>> /\ output \subseteq pins
      BY <1>1, <1>2 DEF OutputTypes
    <3>2. todo[1] \in StoresOn(pins)
      BY <3>1, FirstStore
    <3>3. QED
      BY <3>2, PutType
  <2>8. Tail(todo) = <<>> => Idle(Device[device], Put(todo[1], ideal))
    BY <2>5, <2>6, <2>7, EndsDark
  <2>9. Agree(level', Put(todo[1], ideal), stored')
    BY <1>1, <2>3, PutAgrees
  <2>10. LevelsAreIdeal'
    BY <1>1, <2>6, <2>7, <2>8, <2>9, Zenon DEF LevelsAreIdeal
  <2>11. todo' # <<>> => \E p \in Procs : pc'[p] = "open"
    BY <1>1, <2>1 DEF Followed
  <2>12. QED
    BY <1>1, <1>r, <2>1, <2>2, <2>10, <2>11 DEF Followed
<1>6. QED
  BY <1>4, <1>5

\* The other steps of open and release, the interrupt and the module: a process
\* that opens has passed the configuration, and a release waits for the end of a
\* write.
LEMMA OtherMoves ==
  ASSUME OutputInv,
         \/ \E p \in Procs : Release(p) \/ ConfigureSpoilt(p)
         \/ Elsewhere \/ ExitOrLoad
  PROVE  /\ UNCHANGED outputVars /\ raced' = raced
         /\ shown # Spoilt =>
              /\ \A q \in Procs : pc'[q] \in {"request", "open"} => pc[q] \in {"request", "open"}
              /\ \A q \in Procs : todo # <<>> /\ pc[q] = "open" => pc'[q] = "open"
              /\ \A q \in Procs : pc[q] = "configure" => pc'[q] = "configure"
<1>1. UNCHANGED outputVars
  BY Zenon DEF Release, ConfigureSpoilt, Elsewhere, ExitOrLoad
<1>2. raced' = raced
  BY Zenon DEF Release, ConfigureSpoilt, Elsewhere, ExitOrLoad, OpenPins, OpenTake, OpenMap,
     OpenMapFails, OpenFaults, OpenRequest, OpenRequestFails, ReleaseUsage, ReleaseUnmap,
     ReleaseFree, Edge, HandlerReads, Exit, Load
<1>3. ASSUME shown # Spoilt, NEW p \in Procs PROVE ~OpenFaults(p)
  BY <1>3 DEF OutputInv, Followed, LifecycleInv, MappedUnlessRaced, OpenFaults, Go
<1>4. ASSUME shown # Spoilt
      PROVE  \/ pc' = pc
             \/ \E p \in Procs, to \in {"map", "configure", "closed", "free", "open"} :
                  /\ pc' = [pc EXCEPT ![p] = to]
                  /\ pc[p] \notin {"open", "configure"} /\ (to = "open" => pc[p] = "request")
             \/ todo = <<>> /\ \E p \in Procs : pc[p] = "open" /\ pc' = [pc EXCEPT ![p] = "unmap"]
  BY <1>3, <1>4 DEF Release, ConfigureSpoilt, Elsewhere, ExitOrLoad, Go, OpenTake, OpenMap,
     OpenMapFails, OpenRequest, OpenRequestFails, ReleaseUsage, ReleaseUnmap, ReleaseFree,
     Edge, HandlerReads, Exit, Load
<1>5. QED
  BY <1>1, <1>2, <1>4, PcType

\* They keep what is said of the device.
LEMMA OthersKeep ==
  ASSUME OutputInv, interrupt' = interrupt,
         \/ \E p \in Procs : Release(p) \/ ConfigureSpoilt(p)
         \/ Elsewhere \/ ExitOrLoad
  PROVE  OutputTypes' /\ (shown' # Spoilt => Followed')
<1>1. /\ UNCHANGED outputVars /\ raced' = raced
      /\ shown # Spoilt =>
           /\ \A q \in Procs : pc'[q] \in {"request", "open"} => pc[q] \in {"request", "open"}
           /\ \A q \in Procs : todo # <<>> /\ pc[q] = "open" => pc'[q] = "open"
           /\ \A q \in Procs : pc[q] = "configure" => pc'[q] = "configure"
  BY OtherMoves, Zenon
<1>2. OutputTypes'
  BY <1>1, TypesKept DEF outputVars, OutputInv
<1>3. ASSUME shown' # Spoilt PROVE Followed'
  <2>1. shown # Spoilt
    BY <1>1, <1>3 DEF outputVars
  <2>2. Followed /\ ~raced'
    BY <1>1, <2>1, Zenon DEF OutputInv, Followed
  <2>3. QED
    BY <1>1, <2>1, <2>2, FollowedKept
<1>4. QED
  BY <1>2, <1>3

\* Every step keeps the types, and what the levels are while nobody raced.
LEMMA NextOutput == OutputInv /\ [OutputNext]_allVars => OutputInv'
<1> SUFFICES ASSUME OutputInv, [OutputNext]_allVars PROVE OutputInv'
  OBVIOUS
<1>1. LifecycleInv' /\ interrupt' = interrupt
  BY OutputNextIsNext, NextLifecycle, InterruptKept DEF OutputInv
<1>2. ASSUME NEW p \in Procs, Test(p) PROVE OutputInv'
  BY <1>1, <1>2, TestKeeps, Zenon DEF OutputInv
<1>3. ASSUME NEW p \in Procs, SelectPin(p) PROVE OutputInv'
  BY <1>1, <1>3, SelectKeeps, Zenon DEF OutputInv
<1>4. ASSUME NEW p \in Procs, PinsSelected(p) PROVE OutputInv'
  BY <1>1, <1>4, SelectedKeeps, Zenon DEF OutputInv
<1>5. ASSUME NEW p \in Procs, Write(p) PROVE OutputInv'
  BY <1>1, <1>5, WriteKeeps, Zenon DEF OutputInv
<1>6. CASE Store
  BY <1>1, <1>6, StoreKeeps, Zenon DEF OutputInv
<1>7. CASE (\E p \in Procs : Release(p) \/ ConfigureSpoilt(p)) \/ Elsewhere \/ ExitOrLoad
  BY <1>1, <1>7, OthersKeep, Zenon DEF OutputInv
<1>8. CASE UNCHANGED allVars
  <2>1. UNCHANGED outputVars /\ pc' = pc
    BY <1>8 DEF allVars, vars
  <2>2. raced' = raced
    BY <1>8, Zenon DEF allVars, vars
  <2>3. OutputTypes'
    BY <1>1, <2>1, TypesKept DEF outputVars, OutputInv
  <2>4. ASSUME shown' # Spoilt PROVE Followed'
    <3>1. shown # Spoilt
      BY <2>1, <2>4 DEF outputVars
    <3>2. Followed /\ ~raced'
      BY <2>2, <3>1, Zenon DEF OutputInv, Followed
    <3>3. QED
      BY <2>1, <3>2, FollowedKept
  <2>5. QED
    BY <1>1, <2>3, <2>4, Zenon DEF OutputInv
<1>9. QED
  BY <1>2, <1>3, <1>4, <1>5, <1>6, <1>7, <1>8, Zenon DEF OutputNext

\* What the invariant says of the display.
LEMMA InvShows == OutputInv => DisplayIsRight
<1> DEFINE pins == Device[device].pins
<1> SUFFICES ASSUME OutputInv, pins \subseteq stored, shown \notin {Unset, Spoilt}
             PROVE  CASE shown = Blank -> Lit = {}
                      [] shown # Blank /\ todo # <<>> -> Lit \in Device[device].during[shown]
                      [] shown # Blank /\ todo = <<>> /\ selected > 0 ->
                           Lit \subseteq Device[device].rest[shown]
                      [] OTHER -> Lit = Device[device].rest[shown]
  BY DEF DisplayIsRight
<1>1. /\ device \in DOMAIN Device /\ level \in SUBSET pins /\ output \in SUBSET pins
      /\ shown \in Marked(device)
  BY DEF OutputInv, OutputTypes
<1>2. Followed
  BY DEF OutputInv
<1>3. PICK ideal \in SUBSET pins :
        Agree(level, ideal, stored) /\ \E k : After(device, shown, k, todo, ideal)
  BY <1>2 DEF Followed, LevelsAreIdeal
<1>4. level = ideal
  BY <1>1, <1>3 DEF Agree
<1>5. PICK k : After(device, shown, k, todo, level)
  BY <1>3, <1>4
<1>6. /\ shown = Blank => Shows(Device[device], level) = {}
      /\ shown # Blank /\ todo # <<>> => Shows(Device[device], level) \in Device[device].during[shown]
      /\ shown # Blank /\ todo = <<>> => Shows(Device[device], level) = Device[device].rest[shown]
  BY <1>1, <1>5, ShowsRight
<1>7. Lit \subseteq Shows(Device[device], level)
  BY <1>1, InputsAreDark DEF Lit
<1>8. selected = 0 => Lit = Shows(Device[device], level)
  BY <1>2 DEF Followed, Lit, Shows
<1>9. todo # <<>> => selected = 0
  <2>1. ASSUME todo # <<>> PROVE \E p \in Procs : pc[p] = "open"
    BY <1>2, <2>1 DEF Followed
  <2>2. QED
    BY <1>2, <2>1, OnlyOne
<1>10. selected > 0 \/ selected = 0
  <2>1. Len(Device[device].order) \in Nat
    BY <1>1, OrderIsPins
  <2>2. QED
    BY <2>1 DEF OutputInv, OutputTypes
<1>11. CASE shown = Blank
  BY <1>6, <1>7, <1>11
<1>12. CASE shown # Blank /\ todo # <<>>
  BY <1>6, <1>8, <1>9, <1>12
<1>13. CASE shown # Blank /\ todo = <<>> /\ selected > 0
  BY <1>6, <1>7, <1>13
<1>14. CASE shown # Blank /\ todo = <<>> /\ ~(selected > 0)
  BY <1>6, <1>8, <1>10, <1>14
<1>15. QED
  BY <1>11, <1>12, <1>13, <1>14

\* And of the types.
LEMMA InvTypes == OutputInv => OutputTypeOK
<1> SUFFICES ASSUME OutputInv PROVE OutputTypeOK
  OBVIOUS
<1>1. TypeOK
  BY DEF OutputInv, LifecycleInv
<1>2. OutputTypes
  BY DEF OutputInv
<1>3. \A k \in DOMAIN todo : todo[k].pins \subseteq output
  <2>1. \A k \in DOMAIN todo : todo[k] \in StoresOn(output)
    BY <1>2 DEF OutputTypes
  <2>2. QED
    BY <2>1 DEF StoresOn
<1>4. QED
  BY <1>1, <1>2, <1>3 DEF OutputTypeOK, OutputTypes, Marked

\* The output drivers are devices of the lifecycle: what is proved of it holds of them.
THEOREM OutputImplementsLifecycle == OutputSpec => Spec
  BY OutputInitIsInit, OutputNextIsNext, PTL DEF OutputSpec, Spec

\* The types of every device, and stores only touch pins that the open made outputs.
THEOREM OutputTypeCorrect == OutputSpec => []OutputTypeOK
  BY InvTypes, InitOutput, NextOutput, PTL DEF OutputSpec

\* Whatever the pins were at power on, once a store has set each of them, what every
\* device shows is right after every single store, a write leaves it at the resting
\* picture of its value, and an open lights nothing else while it turns the pins into
\* inputs and outputs; for displays of up to 8 rows and lines and whatever the pictures
\* of the values.
THEOREM ShowsOnlyItsValue == OutputSpec => []DisplayIsRight
  BY InvShows, InitOutput, NextOutput, PTL DEF OutputSpec
=============================================================================
