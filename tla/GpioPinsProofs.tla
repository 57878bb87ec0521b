--------------------------- MODULE GpioPinsProofs ---------------------------
(***************************************************************************)
(* The pins of main's devices stay configured while three threads write    *)
(* back words that hold them, and one of two sensors on one register keeps *)
(* its pin, whatever the pins were at boot.                                *)
(***************************************************************************)
EXTENDS GpioPins, SequenceTheorems, TLAPS

\* The drivers that main opens, and those of the sensor threads.
OfMain   == {MainDrivers[i] : i \in 1 .. 6}
OfSensor == {SensorDrivers[i] : i \in 1 .. 3}

\* The pins a driver configures, and those of all of main's drivers.
PinsOf(driver) == {driver.pins[i] : i \in DOMAIN driver.pins}

MainPins == UNION {PinsOf(d) : d \in OfMain}

\* One half of an update of a pin: the clearing or the setting.
Update == [pin : Pins, clear : BOOLEAN, bits : {Input, Output}]

(* What the drivers are: facts about the constants of the source. *)

\* The length, the pins and the bits of every driver's list.
LEMMA DriverTypes ==
  ASSUME NEW d \in OfMain \cup OfSensor
  PROVE  /\ d.pins \in Seq(Pins)
         /\ d.bits \in {Input, Output}
<1>1. OfMain \cup OfSensor =
        {key_driver, key_driver2, key_driver3, key_driver4, mot_driver, dot_driver,
         sens_driver, sens_driver2, sens_driver3}
  BY DEF OfMain, OfSensor, MainDrivers, KeyDrivers, SensorDrivers
<1>2. \A p \in Pins : <<p>> \in Seq(Pins)
  OBVIOUS
<1>3. dot_driver.pins \in Seq(Pins) /\ dot_driver.bits = Output
  <2>1. dot_driver.pins \in [1 .. 16 -> Pins]
    BY DEF dot_driver, Pins
  <2> QED
    BY <2>1, SeqDef DEF dot_driver
<1>4. /\ <<2>> \in Seq(Pins) /\ <<3>> \in Seq(Pins) /\ <<4>> \in Seq(Pins)
      /\ <<6>> \in Seq(Pins) /\ <<7>> \in Seq(Pins) /\ <<8>> \in Seq(Pins)
      /\ <<9>> \in Seq(Pins) /\ <<18>> \in Seq(Pins)
  BY <1>2 DEF Pins
<1>5. CASE d = dot_driver
  BY <1>3, <1>5
<1>6. CASE d # dot_driver
  <2>1. d.pins \in {<<2>>, <<3>>, <<4>>, <<6>>, <<7>>, <<8>>, <<9>>, <<18>>}
    BY <1>1, <1>6
       DEF key_driver, key_driver2, key_driver3, key_driver4, mot_driver,
           sens_driver, sens_driver2, sens_driver3
  <2>2. d.bits \in {Input, Output}
    BY <1>1, <1>6
       DEF key_driver, key_driver2, key_driver3, key_driver4, mot_driver,
           sens_driver, sens_driver2, sens_driver3
  <2> QED
    BY <1>4, <2>1, <2>2
<1> QED
  BY <1>5, <1>6

\* The pins of each driver, as a set.
LEMMA PinSets ==
  /\ PinsOf(key_driver) = {2} /\ PinsOf(key_driver2) = {3}
  /\ PinsOf(key_driver3) = {4} /\ PinsOf(key_driver4) = {6}
  /\ PinsOf(mot_driver) = {9}
  /\ PinsOf(dot_driver) = 10 .. 17 \cup 20 .. 27
  /\ PinsOf(sens_driver) = {18} /\ PinsOf(sens_driver2) = {7}
  /\ PinsOf(sens_driver3) = {8}
<1>1. \A p : LET s == <<p>> IN {s[i] : i \in DOMAIN s} = {p}
  OBVIOUS
<1>2. PinsOf(dot_driver) = 10 .. 17 \cup 20 .. 27
  <2>1. \A i \in 1 .. 16 : dot_driver.pins[i] = IF i <= 8 THEN 9 + i ELSE 11 + i
    BY DEF dot_driver
  <2>2. DOMAIN dot_driver.pins = 1 .. 16
    BY DEF dot_driver
  <2>3. PinsOf(dot_driver) \subseteq 10 .. 17 \cup 20 .. 27
    BY <2>1, <2>2 DEF PinsOf
  <2>4. ASSUME NEW p \in 10 .. 17 PROVE p \in PinsOf(dot_driver)
    <3>1. p - 9 \in 1 .. 16 /\ dot_driver.pins[p - 9] = p
      BY <2>1
    <3> QED
      BY <2>2, <3>1 DEF PinsOf
  <2>5. ASSUME NEW p \in 20 .. 27 PROVE p \in PinsOf(dot_driver)
    <3>1. p - 11 \in 1 .. 16 /\ dot_driver.pins[p - 11] = p
      BY <2>1
    <3> QED
      BY <2>2, <3>1 DEF PinsOf
  <2> QED
    BY <2>3, <2>4, <2>5
<1> QED
  BY <1>1, <1>2
     DEF PinsOf, key_driver, key_driver2, key_driver3, key_driver4, mot_driver,
         sens_driver, sens_driver2, sens_driver3

\* Drivers of main that share a pin want the same of it.
LEMMA MainAgrees ==
  ASSUME NEW d \in OfMain, NEW e \in OfMain, NEW p \in PinsOf(d), p \in PinsOf(e)
  PROVE  d.bits = e.bits
<1>1. OfMain = {key_driver, key_driver2, key_driver3, key_driver4, mot_driver, dot_driver}
  BY DEF OfMain, MainDrivers, KeyDrivers
<1>2. /\ key_driver.bits = Input /\ key_driver2.bits = Input
      /\ key_driver3.bits = Input /\ key_driver4.bits = Input
      /\ mot_driver.bits = Output /\ dot_driver.bits = Output
  BY DEF key_driver, key_driver2, key_driver3, key_driver4, mot_driver, dot_driver
<1> QED
  BY <1>1, <1>2, PinSets

\* No sensor is on a pin of main.
LEMMA SensorsApart ==
  ASSUME NEW d \in OfSensor
  PROVE  PinsOf(d) \cap MainPins = {}
<1>1. OfMain = {key_driver, key_driver2, key_driver3, key_driver4, mot_driver, dot_driver}
  BY DEF OfMain, MainDrivers, KeyDrivers
<1>2. OfSensor = {sens_driver, sens_driver2, sens_driver3}
  BY DEF OfSensor, SensorDrivers
<1>3. MainPins = {2, 3, 4, 6, 9} \cup 10 .. 17 \cup 20 .. 27
  BY <1>1, PinSets DEF MainPins
<1> QED
  BY <1>2, <1>3, PinSets
----------------------------------------------------------------------------
(* The inductive invariant. *)

\* What is left of an open: each pin is cleared and then set.
PairsInOrder(list) ==
  /\ list \in Seq(Update)
  /\ \A j \in DOMAIN list : list[j].clear =>
       /\ j + 1 \in DOMAIN list
       /\ ~list[j + 1].clear
       /\ list[j + 1].pin = list[j].pin
  /\ \A j \in DOMAIN list : j > 1 /\ ~list[j].clear => list[j - 1].clear

\* The types, with the lists as sequences.
PinsTypeInv ==
  /\ function \in [Pins -> Functions]
  /\ todo \in [Threads -> Seq(Drivers)]
  /\ updates \in [Threads -> Seq(Update)]
  /\ DOMAIN word = Threads
  /\ \A t \in Threads : updates[t] = <<>> => word[t] = NothingLoaded
  /\ opened \in SUBSET Drivers
  /\ spawned \in BOOLEAN

\* The open of main that is under way.
MainInv ==
  LET list == updates[Main] IN
  /\ todo[Main] \in Seq(OfMain)
  /\ PairsInOrder(list)
  /\ list # <<>> /\ ~list[1].clear => function[list[1].pin] = 0
  /\ \A d \in opened \cap OfMain :
       /\ \A j \in DOMAIN list : list[j].pin \in PinsOf(d) => list[j].bits = d.bits
       /\ \A p \in PinsOf(d) :
            \/ function[p] = d.bits
            \/ \E j \in DOMAIN list : list[j].pin = p /\ ~list[j].clear

\* The opens of the sensors: on other pins, with words that are right about
\* the pins of main.
SensorInv ==
  \A t \in Sensors :
    /\ todo[t] \in Seq(OfSensor)
    /\ \A j \in DOMAIN updates[t] : updates[t][j].pin \notin MainPins
    /\ ~spawned => todo[t] = <<>> /\ updates[t] = <<>>
    /\ \A p \in DOMAIN word[t] \cap MainPins : word[t][p] = function[p]

\* A loaded word holds the pin it was loaded for.
WordInv ==
  \A t \in Threads :
    /\ \A p \in DOMAIN word[t] : word[t][p] \in Functions
    /\ word[t] # NothingLoaded => updates[t][1].pin \in DOMAIN word[t]

\* One open at a time as long as main is alone, and none of main after that.
PinsInv ==
  /\ PinsTypeInv
  /\ WordInv
  /\ MainInv
  /\ SensorInv
  /\ spawned => Idle(Main)
  /\ \A p \in DOMAIN word[Main] : word[Main][p] = function[p]

----------------------------------------------------------------------------
(* The lists of updates. *)

\* The updates of an open come in pairs, for every pin of the driver.
LEMMA UpdatesInOrder ==
  ASSUME NEW d \in OfMain \cup OfSensor
  PROVE  LET list == Updates(d) IN
         /\ PairsInOrder(list)
         /\ list # <<>> => list[1].clear
         /\ \A j \in DOMAIN list : list[j].pin \in PinsOf(d) /\ list[j].bits = d.bits
         /\ \A p \in PinsOf(d) : \E j \in DOMAIN list : list[j].pin = p /\ ~list[j].clear
<1> DEFINE n == Len(d.pins)
           list == Updates(d)
<1>1. /\ d.pins \in Seq(Pins) /\ n \in Nat /\ DOMAIN d.pins = 1 .. n
      /\ d.bits \in {Input, Output}
  BY DriverTypes
<1>2. DOMAIN list = 1 .. 2 * n
  BY <1>1 DEF Updates
<1>3. ASSUME NEW j \in 1 .. 2 * n
      PROVE  /\ (j + 1) \div 2 \in 1 .. n
             /\ list[j].pin = d.pins[(j + 1) \div 2]
             /\ list[j].clear <=> j % 2 = 1
             /\ list[j].bits = d.bits
             /\ list[j] \in Update
  <2>1. (j + 1) \div 2 \in 1 .. n
    BY <1>1
  <2>2. list[j] = [pin |-> d.pins[(j + 1) \div 2], clear |-> j % 2 = 1, bits |-> d.bits]
    BY <1>1 DEF Updates
  <2>3. d.pins[(j + 1) \div 2] \in Pins /\ (j % 2 = 1) \in BOOLEAN
    BY <1>1, <2>1
  <2>4. list[j] \in Update
    <3>1. [pin |-> d.pins[(j + 1) \div 2], clear |-> j % 2 = 1, bits |-> d.bits] \in Update
      BY <1>1, <2>3, Zenon DEF Update
    <3> QED
      BY <2>2, <3>1, Zenon
  <2>5. list[j].clear <=> j % 2 = 1
    <3> DEFINE update == [pin |-> d.pins[(j + 1) \div 2], clear |-> j % 2 = 1,
                          bits |-> d.bits]
    <3>1. update.clear = (j % 2 = 1)
      BY Zenon
    <3>2. list[j].clear = update.clear
      BY <2>2, Zenon
    <3> QED
      BY <3>1, <3>2, Zenon
  <2> QED
    BY <2>1, <2>2, <2>4, <2>5
<1>4. list \in Seq(Update)
  <2>1. list \in [1 .. 2 * n -> Update]
    BY <1>1, <1>3 DEF Updates
  <2>2. 2 * n \in Nat
    BY <1>1
  <2> QED
    BY <2>1, <2>2, SeqDef
<1> HIDE DEF list, n
<1>5. ASSUME NEW j \in DOMAIN list, list[j].clear
      PROVE  /\ j + 1 \in DOMAIN list /\ ~list[j + 1].clear
             /\ list[j + 1].pin = list[j].pin
  <2>0. j \in 1 .. 2 * n /\ j % 2 = 1
    BY <1>2, <1>3, <1>5
  <2>1. j % 2 = 1 /\ j + 1 \in 1 .. 2 * n
    BY <1>1, <2>0
  <2>2. (j + 1) % 2 # 1 /\ (j + 2) \div 2 = (j + 1) \div 2 /\ (j + 1) + 1 = j + 2
    BY <1>1, <2>0
  <2>3. ~list[j + 1].clear
    BY <1>3, <2>1, <2>2
  <2> QED
    BY <1>2, <1>3, <2>0, <2>1, <2>2, <2>3
<1>6. ASSUME NEW j \in DOMAIN list, j > 1, ~list[j].clear
      PROVE  list[j - 1].clear
  <2>0. j \in 1 .. 2 * n /\ j % 2 # 1
    BY <1>2, <1>3, <1>6
  <2>1. j \in 1 .. 2 * n /\ j - 1 \in 1 .. 2 * n /\ j % 2 # 1
    BY <1>1, <1>6, <2>0
  <2>2. (j - 1) % 2 = 1
    BY <1>1, <2>1
  <2> QED
    BY <1>3, <2>1, <2>2
<1>7. list # <<>> => list[1].clear
  <2>1. list # <<>> => 1 \in 1 .. 2 * n
    BY <1>1, <1>2, <1>4
  <2>2. 1 % 2 = 1
    OBVIOUS
  <2> QED
    BY <1>3, <2>1, <2>2
<1>8. \A j \in DOMAIN list : list[j].pin \in PinsOf(d) /\ list[j].bits = d.bits
  BY <1>1, <1>2, <1>3 DEF PinsOf
<1>9. ASSUME NEW p \in PinsOf(d)
      PROVE  \E j \in DOMAIN list : list[j].pin = p /\ ~list[j].clear
  <2>1. PICK i \in 1 .. n : p = d.pins[i]
    BY <1>1 DEF PinsOf
  <2>2. 2 * i \in 1 .. 2 * n /\ (2 * i + 1) \div 2 = i /\ (2 * i) % 2 # 1
    BY <1>1
  <2> QED
    BY <1>2, <1>3, <2>1, <2>2
<1> QED
  BY <1>4, <1>5, <1>6, <1>7, <1>8, <1>9 DEF PairsInOrder, list

\* The first update done, the rest is as before.
LEMMA TailInOrder ==
  ASSUME NEW list, PairsInOrder(list), list # <<>>
  PROVE  /\ Tail(list) \in Seq(Update)
         /\ 1 \in DOMAIN list /\ list[1] \in Update
         /\ DOMAIN Tail(list) = 1 .. Len(list) - 1 /\ DOMAIN list = 1 .. Len(list)
         /\ Len(list) \in Nat
         /\ \A j \in DOMAIN Tail(list) : j + 1 \in DOMAIN list /\ Tail(list)[j] = list[j + 1]
         /\ PairsInOrder(Tail(list))
<1>1. list \in Seq(Update)
  BY DEF PairsInOrder
<1>2. /\ Tail(list) \in Seq(Update) /\ Len(Tail(list)) = Len(list) - 1
      /\ \A j \in 1 .. Len(list) - 1 : Tail(list)[j] = list[j + 1]
      /\ Len(list) \in Nat /\ Len(list) >= 1
  BY <1>1, HeadTailProperties
<1>3. DOMAIN Tail(list) = 1 .. Len(list) - 1 /\ DOMAIN list = 1 .. Len(list)
  BY <1>1, <1>2
<1> DEFINE tail == Tail(list)
<1>5. tail \in Seq(Update)
  BY <1>2
<1>4. \A j \in 1 .. Len(list) - 1 : j + 1 \in 1 .. Len(list) /\ tail[j] = list[j + 1]
  BY <1>2
<1> HIDE DEF tail
<1>6. ASSUME NEW j \in DOMAIN tail, tail[j].clear
      PROVE  /\ j + 1 \in DOMAIN tail /\ ~tail[j + 1].clear
             /\ tail[j + 1].pin = tail[j].pin
  <2>1. j \in 1 .. Len(list) - 1 /\ j + 1 \in DOMAIN list /\ list[j + 1].clear
    BY <1>3, <1>4, <1>6 DEF tail
  <2>2. (j + 1) + 1 \in DOMAIN list /\ ~list[(j + 1) + 1].clear
        /\ list[(j + 1) + 1].pin = list[j + 1].pin
    BY <2>1 DEF PairsInOrder
  <2>3. j + 1 \in 1 .. Len(list) - 1
    BY <1>2, <1>3, <2>1, <2>2
  <2> QED
    BY <1>3, <1>4, <2>1, <2>2, <2>3 DEF tail
<1>7. ASSUME NEW j \in DOMAIN tail, j > 1, ~tail[j].clear
      PROVE  tail[j - 1].clear
  <2>1. j \in 1 .. Len(list) - 1 /\ j + 1 \in DOMAIN list /\ ~list[j + 1].clear
    BY <1>3, <1>4, <1>7 DEF tail
  <2>2. list[(j + 1) - 1].clear
    <3>1. j + 1 > 1
      BY <2>1
    <3> QED
      BY <2>1, <3>1 DEF PairsInOrder
  <2>3. j - 1 \in 1 .. Len(list) - 1 /\ (j + 1) - 1 = j /\ (j - 1) + 1 = j
    BY <1>2, <1>7, <2>1
  <2> QED
    BY <1>4, <2>2, <2>3
<1> QED
  BY <1>1, <1>2, <1>3, <1>4, <1>5, <1>6, <1>7 DEF PairsInOrder, tail

----------------------------------------------------------------------------
(* The steps. *)

\* Main and the sensors, and whose drivers are whose.
LEMMA Parties ==
  /\ Main \in Threads /\ Main \notin Sensors /\ Sensors \subseteq Threads
  /\ Threads = {Main} \cup Sensors
  /\ Drivers = OfMain \cup OfSensor
  /\ MainDrivers \in Seq(OfMain)
  /\ \A t \in Sensors : SensorDrivers[t] \in OfSensor
<1>1. MainDrivers \in Seq(OfMain)
  <2>1. Len(MainDrivers) = 6 /\ MainDrivers = [i \in 1 .. 6 |-> MainDrivers[i]]
    BY DEF MainDrivers, KeyDrivers
  <2>2. MainDrivers \in [1 .. 6 -> OfMain]
    BY <2>1 DEF OfMain
  <2> QED
    BY <2>2, SeqDef
<1> QED
  BY <1>1 DEF Main, Threads, Sensors, Drivers, OfMain, OfSensor

\* A list of the drivers of main, or of the sensors, is a list of drivers.
LEMMA ListsOfDrivers ==
  /\ \A list \in Seq(OfMain) : list \in Seq(Drivers)
  /\ \A list \in Seq(OfSensor) : list \in Seq(Drivers)
  BY Parties

\* Nothing is loaded or opened at first.
LEMMA InitPins == Init => PinsInv
<1> SUFFICES ASSUME Init PROVE PinsInv
  OBVIOUS
<1>1. function \in [Pins -> Functions]
  BY BootsAssumption DEF Init
<1>2. todo \in [Threads -> Seq(Drivers)] /\ todo[Main] \in Seq(OfMain)
      /\ \A t \in Sensors : todo[t] = <<>>
  BY Parties, ListsOfDrivers DEF Init
<1>3. \A t \in Threads : updates[t] = <<>> /\ word[t] = NothingLoaded
  BY DEF Init
<1>4. updates \in [Threads -> Seq(Update)] /\ DOMAIN word = Threads
  BY DEF Init
<1>5. opened = {} /\ spawned = FALSE
  BY DEF Init
<1>6. PinsTypeInv
  BY <1>1, <1>2, <1>3, <1>4, <1>5 DEF PinsTypeInv
<1>7. PairsInOrder(<<>>)
  BY DEF PairsInOrder
<1>8. MainInv
  BY <1>2, <1>3, <1>5, <1>7, Parties DEF MainInv
<1>9. DOMAIN NothingLoaded = {}
  BY DEF NothingLoaded
<1>10. SensorInv
  BY <1>2, <1>3, <1>9, Parties DEF SensorInv
<1>11. WordInv
  BY <1>3, <1>9 DEF WordInv
<1> QED
  BY <1>3, <1>5, <1>6, <1>8, <1>9, <1>10, <1>11, Parties DEF PinsInv

\* An open of main begins: the pins of the others are configured.
LEMMA MainOpens ==
  ASSUME PinsInv, Open(Main)
  PROVE  PinsInv'
<1> DEFINE d == Head(todo[Main])
           list == Updates(d)
<1>1. ~spawned
  BY DEF Open, PinsInv, Idle
<1>2. d \in OfMain /\ Tail(todo[Main]) \in Seq(OfMain)
  BY HeadTailProperties DEF Open, PinsInv, MainInv
<1>3. /\ PairsInOrder(list)
      /\ list # <<>> => list[1].clear
      /\ \A j \in DOMAIN list : list[j].pin \in PinsOf(d) /\ list[j].bits = d.bits
      /\ \A p \in PinsOf(d) : \E j \in DOMAIN list : list[j].pin = p /\ ~list[j].clear
  BY <1>2, UpdatesInOrder
<1>4. list \in Seq(Update)
  BY <1>3 DEF PairsInOrder
<1> HIDE DEF list, d
<1>5. /\ todo' = [todo EXCEPT ![Main] = Tail(@)]
      /\ updates' = [updates EXCEPT ![Main] = list]
      /\ opened' = opened \cup {d}
      /\ UNCHANGED <<function, word, spawned>>
      /\ updates[Main] = <<>>
  BY DEF Open, list, d
<1>6. /\ updates'[Main] = list /\ todo'[Main] = Tail(todo[Main])
      /\ \A t \in Sensors : updates'[t] = updates[t] /\ todo'[t] = todo[t]
  BY <1>5, Parties DEF PinsInv, PinsTypeInv
<1>7. PinsTypeInv'
  <2>1. todo' \in [Threads -> Seq(Drivers)]
    BY <1>2, <1>5, ListsOfDrivers DEF PinsInv, PinsTypeInv
  <2>2. updates' \in [Threads -> Seq(Update)]
    BY <1>4, <1>5 DEF PinsInv, PinsTypeInv
  <2>3. \A t \in Threads : updates'[t] = <<>> => word'[t] = NothingLoaded
    BY <1>5, <1>6, Parties DEF PinsInv, PinsTypeInv
  <2>4. opened' \in SUBSET Drivers
    BY <1>2, <1>5, Parties DEF PinsInv, PinsTypeInv
  <2> QED
    BY <1>5, <2>1, <2>2, <2>3, <2>4 DEF PinsInv, PinsTypeInv
<1>8. ASSUME NEW e \in opened' \cap OfMain
      PROVE  /\ \A j \in DOMAIN list : list[j].pin \in PinsOf(e) => list[j].bits = e.bits
             /\ \A p \in PinsOf(e) :
                  \/ function'[p] = e.bits
                  \/ \E j \in DOMAIN list : list[j].pin = p /\ ~list[j].clear
  <2>1. \A j \in DOMAIN list : list[j].pin \in PinsOf(e) => list[j].bits = e.bits
    BY <1>2, <1>3, MainAgrees
  <2>2. CASE e = d
    BY <1>3, <2>1, <2>2
  <2>3. CASE e # d
    <3>1. e \in opened \cap OfMain
      BY <1>5, <2>3
    <3>2. \A p \in PinsOf(e) : function[p] = e.bits
      BY <1>5, <3>1 DEF PinsInv, MainInv
    <3> QED
      BY <1>5, <2>1, <3>2
  <2> QED
    BY <2>2, <2>3
<1>9. MainInv'
  BY <1>2, <1>3, <1>6, <1>8 DEF MainInv
<1>10. SensorInv'
  BY <1>5, <1>6 DEF PinsInv, SensorInv
<1>11. WordInv'
  BY <1>5, <1>6, Parties DEF PinsInv, PinsTypeInv, WordInv
<1> QED
  BY <1>1, <1>5, <1>7, <1>9, <1>10, <1>11 DEF PinsInv

\* An open of a sensor begins: it has no pin of main.
LEMMA SensorOpens ==
  ASSUME PinsInv, NEW t \in Sensors, Open(t)
  PROVE  PinsInv'
<1> DEFINE d == Head(todo[t])
           list == Updates(d)
<1>1. d \in OfSensor /\ Tail(todo[t]) \in Seq(OfSensor)
  BY HeadTailProperties DEF Open, PinsInv, SensorInv
<1>2. spawned
  BY DEF Open, PinsInv, SensorInv
<1>3. PairsInOrder(list) /\ \A j \in DOMAIN list : list[j].pin \in PinsOf(d)
  BY <1>1, UpdatesInOrder
<1>4. list \in Seq(Update) /\ \A j \in DOMAIN list : list[j].pin \notin MainPins
  BY <1>1, <1>3, SensorsApart DEF PairsInOrder
<1> HIDE DEF list, d
<1>5. /\ todo' = [todo EXCEPT ![t] = Tail(@)]
      /\ updates' = [updates EXCEPT ![t] = list]
      /\ opened' = opened \cup {d}
      /\ UNCHANGED <<function, word, spawned>>
      /\ updates[t] = <<>>
  BY DEF Open, list, d
<1>6. /\ updates'[t] = list /\ todo'[t] = Tail(todo[t])
      /\ \A u \in Threads \ {t} : updates'[u] = updates[u] /\ todo'[u] = todo[u]
  BY <1>5, Parties DEF PinsInv, PinsTypeInv
<1>7. PinsTypeInv'
  <2>1. todo' \in [Threads -> Seq(Drivers)]
    BY <1>1, <1>5, ListsOfDrivers DEF PinsInv, PinsTypeInv
  <2>2. updates' \in [Threads -> Seq(Update)]
    BY <1>4, <1>5 DEF PinsInv, PinsTypeInv
  <2>3. \A u \in Threads : updates'[u] = <<>> => word'[u] = NothingLoaded
    BY <1>5, <1>6, Parties DEF PinsInv, PinsTypeInv
  <2>4. opened' \in SUBSET Drivers
    BY <1>1, <1>5, Parties DEF PinsInv, PinsTypeInv
  <2> QED
    BY <1>5, <2>1, <2>2, <2>3, <2>4 DEF PinsInv, PinsTypeInv
<1>8. updates'[Main] = <<>> /\ todo'[Main] = todo[Main] /\ updates[Main] = <<>>
  BY <1>2, <1>6, Parties DEF PinsInv, Idle
<1>9. MainInv'
  <2>1. \A e \in opened' \cap OfMain : e \in opened \/ e = d
    BY <1>5
  <2>2. \A e \in opened \cap OfMain : \A p \in PinsOf(e) : function[p] = e.bits
    BY <1>8 DEF PinsInv, MainInv
  <2>3. d \in OfMain => \A p \in PinsOf(d) : FALSE
    BY <1>1, SensorsApart DEF MainPins
  <2>4. \A e \in opened' \cap OfMain : \A p \in PinsOf(e) : function'[p] = e.bits
    BY <1>5, <2>1, <2>2, <2>3
  <2>5. PairsInOrder(<<>>) /\ DOMAIN <<>> = {}
    BY DEF PairsInOrder
  <2>6. todo'[Main] \in Seq(OfMain)
    BY <1>8 DEF PinsInv, MainInv
  <2> QED
    BY <1>8, <2>4, <2>5, <2>6 DEF MainInv
<1>10. SensorInv'
  BY <1>1, <1>2, <1>4, <1>5, <1>6, Parties DEF PinsInv, SensorInv
<1>11. WordInv'
  BY <1>5, <1>6 DEF PinsInv, PinsTypeInv, WordInv
<1> QED
  BY <1>2, <1>5, <1>6, <1>7, <1>8, <1>9, <1>10, <1>11 DEF PinsInv, Idle

\* A failed open changes no pin.
LEMMA OpenFailsKeeps ==
  ASSUME PinsInv, NEW t \in Threads, OpenFails(t)
  PROVE  PinsInv'
<1>1. /\ todo' = [todo EXCEPT ![t] = Tail(@)]
      /\ UNCHANGED <<function, updates, word, opened, spawned>>
      /\ todo[t] # <<>>
  BY DEF OpenFails
<1>2. \A u \in Threads : todo'[u] = IF u = t THEN Tail(todo[u]) ELSE todo[u]
  BY <1>1 DEF PinsInv, PinsTypeInv
<1>3. PinsTypeInv'
  <2>1. Tail(todo[t]) \in Seq(Drivers)
    BY <1>1, HeadTailProperties DEF PinsInv, PinsTypeInv
  <2> QED
    BY <1>1, <2>1 DEF PinsInv, PinsTypeInv
<1>4. MainInv'
  <2>1. todo'[Main] \in Seq(OfMain)
    BY <1>1, <1>2, Parties, HeadTailProperties DEF PinsInv, MainInv
  <2> QED
    BY <1>1, <2>1 DEF PinsInv, MainInv
<1>5. SensorInv'
  <2>1. ASSUME NEW u \in Sensors
        PROVE  todo'[u] \in Seq(OfSensor) /\ (todo[u] = <<>> => todo'[u] = <<>>)
    BY <1>1, <1>2, Parties, HeadTailProperties DEF PinsInv, SensorInv
  <2> QED
    BY <1>1, <2>1 DEF PinsInv, SensorInv
<1>6. spawned => t # Main
  BY <1>1 DEF PinsInv, Idle
<1>7. WordInv'
  BY <1>1 DEF PinsInv, WordInv
<1> QED
  BY <1>1, <1>2, <1>3, <1>4, <1>5, <1>6, <1>7, Parties DEF PinsInv, Idle

\* A word that is loaded is what the registers hold.
LEMMA LoadKeeps ==
  ASSUME PinsInv, NEW t \in Threads, Load(t)
  PROVE  PinsInv'
<1> DEFINE loaded == [p \in {q \in Pins : Register(q) = Register(updates[t][1].pin)} |->
                        function[p]]
<1>1. /\ word' = [word EXCEPT ![t] = loaded]
      /\ UNCHANGED <<function, todo, updates, opened, spawned>>
      /\ updates[t] # <<>>
  BY DEF Load
<1>2. \A p \in DOMAIN loaded : loaded[p] = function[p] /\ function[p] \in Functions
  BY DEF PinsInv, PinsTypeInv
<1>7. updates[t][1].pin \in DOMAIN loaded
  <2>1. updates[t] \in Seq(Update)
    BY DEF PinsInv, PinsTypeInv
  <2>2. updates[t][1] \in Update
    BY <1>1, <2>1
  <2> QED
    BY <2>2 DEF Update
<1> HIDE DEF loaded
<1>3. DOMAIN word' = Threads
      /\ \A u \in Threads : word'[u] = IF u = t THEN loaded ELSE word[u]
  BY <1>1 DEF PinsInv, PinsTypeInv
<1>4. PinsTypeInv'
  BY <1>1, <1>3 DEF PinsInv, PinsTypeInv
<1>5. MainInv'
  BY <1>1 DEF PinsInv, MainInv
<1>6. SensorInv'
  BY <1>1, <1>2, <1>3, Parties DEF PinsInv, SensorInv
<1>8. WordInv'
  BY <1>1, <1>2, <1>3, <1>7 DEF PinsInv, WordInv
<1> QED
  BY <1>1, <1>2, <1>3, <1>4, <1>5, <1>6, <1>8, Parties DEF PinsInv, Idle

\* What a store does to the functions of the pins.
LEMMA StoreEffect ==
  ASSUME PinsInv, NEW t \in Threads, Store(t)
  PROVE  LET update == updates[t][1] IN
         /\ updates[t] # <<>> /\ update \in Update
         /\ word[t] # NothingLoaded /\ update.pin \in DOMAIN word[t]
         /\ function' \in [Pins -> Functions]
         /\ function'[update.pin] = Modified(word[t][update.pin], update)
         /\ \A p \in Pins \ {update.pin} :
              function'[p] = IF p \in DOMAIN word[t] THEN word[t][p] ELSE function[p]
         /\ updates' = [updates EXCEPT ![t] = Tail(@)]
         /\ word' = [word EXCEPT ![t] = NothingLoaded]
         /\ UNCHANGED <<todo, opened, spawned>>
<1> DEFINE update == updates[t][1]
<1>1. /\ word[t] # NothingLoaded /\ updates[t] # <<>>
      /\ updates[t] \in Seq(Update)
  BY DEF Store, PinsInv, PinsTypeInv
<1>2. Head(updates[t]) = update /\ update \in Update
  BY <1>1
<1>3. update.pin \in Pins /\ update.clear \in BOOLEAN /\ update.bits \in {Input, Output}
  BY <1>2 DEF Update
<1>4. update.pin \in DOMAIN word[t] /\ \A p \in DOMAIN word[t] : word[t][p] \in Functions
  BY <1>1 DEF PinsInv, WordInv
<1>5. function' = [p \in Pins |->
                     IF p = update.pin THEN Modified(word[t][p], update)
                     ELSE IF p \in DOMAIN word[t] THEN word[t][p] ELSE function[p]]
  BY <1>2 DEF Store
<1> HIDE DEF update
<1>6. ASSUME NEW f \in Functions PROVE Modified(f, update) \in Functions
  <2>1. Functions = {0, 1, 2, 3, 4, 5, 6, 7}
    BY DEF Functions
  <2> QED
    BY <2>1 DEF Modified, OrBits
<1>7. function' \in [Pins -> Functions]
  BY <1>3, <1>4, <1>5, <1>6 DEF PinsInv, PinsTypeInv
<1> QED
  BY <1>1, <1>2, <1>3, <1>4, <1>5, <1>7 DEF update, Store

\* A store keeps the types.
LEMMA StoreTypes ==
  ASSUME PinsInv, NEW t \in Threads, Store(t)
  PROVE  /\ PinsTypeInv' /\ WordInv'
         /\ \A u \in Threads : /\ updates'[u] = IF u = t THEN Tail(updates[u]) ELSE updates[u]
                               /\ word'[u] = IF u = t THEN NothingLoaded ELSE word[u]
<1>1. /\ updates[t] # <<>>
      /\ function' \in [Pins -> Functions]
      /\ updates' = [updates EXCEPT ![t] = Tail(@)]
      /\ word' = [word EXCEPT ![t] = NothingLoaded]
      /\ UNCHANGED <<todo, opened, spawned>>
  BY StoreEffect
<1>2. updates \in [Threads -> Seq(Update)] /\ DOMAIN word = Threads
  BY DEF PinsInv, PinsTypeInv
<1>3. Tail(updates[t]) \in Seq(Update)
  BY <1>1, <1>2, HeadTailProperties
<1>4. \A u \in Threads : /\ updates'[u] = IF u = t THEN Tail(updates[u]) ELSE updates[u]
                         /\ word'[u] = IF u = t THEN NothingLoaded ELSE word[u]
  BY <1>1, <1>2
<1>5. updates' \in [Threads -> Seq(Update)] /\ DOMAIN word' = Threads
  BY <1>1, <1>2, <1>3
<1>6. PinsTypeInv'
  BY <1>1, <1>4, <1>5 DEF PinsInv, PinsTypeInv
<1>7. DOMAIN NothingLoaded = {}
  BY DEF NothingLoaded
<1>8. WordInv'
  BY <1>4, <1>7 DEF PinsInv, WordInv
<1> QED
  BY <1>4, <1>6, <1>8

\* A store of main: the pin is cleared and its bits follow, or it is done.
LEMMA MainStores ==
  ASSUME PinsInv, Store(Main)
  PROVE  PinsInv'
<1> DEFINE list == updates[Main]
           tail == Tail(list)
           u == list[1]
<1>1. /\ list # <<>> /\ u \in Update
      /\ u.pin \in DOMAIN word[Main]
      /\ function'[u.pin] = Modified(word[Main][u.pin], u)
      /\ \A p \in Pins \ {u.pin} :
           function'[p] = IF p \in DOMAIN word[Main] THEN word[Main][p] ELSE function[p]
      /\ UNCHANGED <<todo, opened, spawned>>
  BY StoreEffect, Parties
<1>2. /\ PinsTypeInv' /\ WordInv'
      /\ updates'[Main] = tail /\ word'[Main] = NothingLoaded
      /\ \A t \in Sensors : updates'[t] = updates[t] /\ word'[t] = word[t]
  BY StoreTypes, Parties
<1>3. ~spawned
  BY <1>1 DEF PinsInv, Idle
<1>4. \A p \in DOMAIN word[Main] : word[Main][p] = function[p]
  BY DEF PinsInv
<1>5. /\ function'[u.pin] = IF u.clear THEN 0 ELSE OrBits(function[u.pin], u.bits)
      /\ \A p \in Pins \ {u.pin} : function'[p] = function[p]
  BY <1>1, <1>4 DEF Modified
<1>6. PairsInOrder(list)
  BY DEF PinsInv, MainInv
<1>7. /\ 1 \in DOMAIN list
      /\ \A j \in DOMAIN tail : j + 1 \in DOMAIN list /\ tail[j] = list[j + 1]
      /\ DOMAIN tail = 1 .. Len(list) - 1 /\ DOMAIN list = 1 .. Len(list)
      /\ Len(list) \in Nat
      /\ PairsInOrder(tail)
  BY <1>1, <1>6, TailInOrder
<1>8. ~u.clear => function'[u.pin] = u.bits
  <2>1. ~u.clear => function[u.pin] = 0
    BY <1>1 DEF PinsInv, MainInv
  <2>2. u.bits \in {0, 1}
    BY <1>1 DEF Update, Input, Output
  <2>3. OrBits(0, 0) = 0 /\ OrBits(0, 1) = 1
    BY DEF OrBits, Output
  <2> QED
    BY <1>5, <2>1, <2>2, <2>3
<1> HIDE DEF list, tail, u
<1>9. tail # <<>> /\ ~tail[1].clear => function'[tail[1].pin] = 0
  <2> SUFFICES ASSUME tail # <<>>, ~tail[1].clear PROVE function'[tail[1].pin] = 0
    OBVIOUS
  <2>1. 1 \in DOMAIN tail
    BY <1>7 DEF PairsInOrder
  <2>2. 2 \in DOMAIN list /\ tail[1] = list[2]
    BY <1>7, <2>1
  <2>3. \A j \in DOMAIN list : j > 1 /\ ~list[j].clear => list[j - 1].clear
    BY <1>6 DEF PairsInOrder
  <2>6. 2 > 1 /\ ~list[2].clear /\ 2 - 1 = 1
    BY <2>2
  <2>4. u.clear
    BY <2>2, <2>3, <2>6 DEF u
  <2>5. list[1 + 1].pin = u.pin
    BY <1>6, <1>7, <2>4 DEF PairsInOrder, u
  <2> QED
    BY <1>5, <2>2, <2>4, <2>5
<1>10. ASSUME NEW d \in opened \cap OfMain
       PROVE  /\ \A j \in DOMAIN tail : tail[j].pin \in PinsOf(d) => tail[j].bits = d.bits
              /\ \A p \in PinsOf(d) :
                   \/ function'[p] = d.bits
                   \/ \E j \in DOMAIN tail : tail[j].pin = p /\ ~tail[j].clear
  <2>1. \A j \in DOMAIN list : list[j].pin \in PinsOf(d) => list[j].bits = d.bits
    BY DEF PinsInv, MainInv, list
  <2>2. ASSUME NEW p \in PinsOf(d)
        PROVE  \/ function'[p] = d.bits
               \/ \E j \in DOMAIN tail : tail[j].pin = p /\ ~tail[j].clear
    <3>1. CASE p = u.pin /\ u.clear
      <4>1. 1 + 1 \in DOMAIN list /\ ~list[1 + 1].clear /\ list[1 + 1].pin = u.pin
        BY <1>6, <1>7, <3>1 DEF PairsInOrder, u
      <4>2. 1 \in DOMAIN tail /\ tail[1] = list[1 + 1]
        BY <1>7, <4>1
      <4> QED
        BY <3>1, <4>1, <4>2
    <3>2. CASE p = u.pin /\ ~u.clear
      BY <1>7, <1>8, <2>1, <3>2 DEF u
    <3>3. CASE p # u.pin
      <4>1. p \in Pins
        BY DriverTypes DEF PinsOf
      <4>2. CASE function[p] = d.bits
        BY <1>5, <3>3, <4>1, <4>2
      <4>3. CASE \E j \in DOMAIN list : list[j].pin = p /\ ~list[j].clear
        <5>1. PICK j \in DOMAIN list : list[j].pin = p /\ ~list[j].clear
          BY <4>3
        <5>2. j # 1
          BY <3>3, <5>1 DEF u
        <5>3. j - 1 \in DOMAIN tail /\ (j - 1) + 1 = j
          BY <1>7, <5>2
        <5>4. tail[j - 1] = list[j]
          BY <1>7, <5>3
        <5> QED
          BY <5>1, <5>3, <5>4
      <4>4. \/ function[p] = d.bits
            \/ \E j \in DOMAIN list : list[j].pin = p /\ ~list[j].clear
        BY DEF PinsInv, MainInv, list
      <4> QED
        BY <4>2, <4>3, <4>4
    <3> QED
      BY <3>1, <3>2, <3>3
  <2> QED
    BY <1>7, <2>1, <2>2
<1>11. todo'[Main] \in Seq(OfMain)
  BY <1>1 DEF PinsInv, MainInv
<1>12. MainInv'
  BY <1>1, <1>2, <1>7, <1>9, <1>10, <1>11 DEF MainInv
<1>13. DOMAIN NothingLoaded = {}
  BY DEF NothingLoaded
<1>14. SensorInv'
  <2>1. \A t \in Sensors : updates[t] = <<>> /\ word[t] = NothingLoaded
    BY <1>3, Parties DEF PinsInv, SensorInv, PinsTypeInv
  <2> QED
    BY <1>1, <1>2, <1>13, <2>1 DEF PinsInv, SensorInv
<1> QED
  BY <1>1, <1>2, <1>3, <1>12, <1>13, <1>14 DEF PinsInv

\* A store of a sensor leaves the pins of main as they are.
LEMMA SensorStores ==
  ASSUME PinsInv, NEW t \in Sensors, Store(t)
  PROVE  PinsInv'
<1> DEFINE u == updates[t][1]
<1>1. /\ updates[t] # <<>> /\ u \in Update
      /\ \A p \in Pins \ {u.pin} :
           function'[p] = IF p \in DOMAIN word[t] THEN word[t][p] ELSE function[p]
      /\ UNCHANGED <<todo, opened, spawned>>
  BY StoreEffect, Parties
<1>2. /\ PinsTypeInv' /\ WordInv'
      /\ \A v \in Threads : /\ updates'[v] = IF v = t THEN Tail(updates[v]) ELSE updates[v]
                            /\ word'[v] = IF v = t THEN NothingLoaded ELSE word[v]
  BY StoreTypes, Parties
<1>3. spawned
  BY <1>1 DEF PinsInv, SensorInv
<1>4. /\ updates[Main] = <<>> /\ todo[Main] = <<>> /\ word[Main] = NothingLoaded
      /\ updates'[Main] = <<>> /\ word'[Main] = NothingLoaded
  BY <1>2, <1>3, Parties DEF PinsInv, Idle, PinsTypeInv
<1>5. updates[t] \in Seq(Update)
  BY Parties DEF PinsInv, PinsTypeInv
<1>6. u.pin \notin MainPins
  BY <1>1, <1>5 DEF PinsInv, SensorInv
<1>7. MainPins \subseteq Pins
  BY DriverTypes DEF MainPins, PinsOf
<1>8. \A p \in MainPins : function'[p] = function[p]
  BY <1>1, <1>6, <1>7 DEF PinsInv, SensorInv
<1> HIDE DEF u
<1>9. DOMAIN NothingLoaded = {} /\ DOMAIN <<>> = {} /\ PairsInOrder(<<>>)
  BY DEF NothingLoaded, PairsInOrder
<1>10. MainInv'
  <2>1. \A d \in opened \cap OfMain : \A p \in PinsOf(d) : function[p] = d.bits
    BY <1>4, <1>9 DEF PinsInv, MainInv
  <2>2. \A d \in opened' \cap OfMain : \A p \in PinsOf(d) : function'[p] = d.bits
    BY <1>1, <1>8, <2>1 DEF MainPins
  <2>3. todo'[Main] \in Seq(OfMain)
    BY <1>1 DEF PinsInv, MainInv
  <2> QED
    BY <1>4, <1>9, <2>2, <2>3 DEF MainInv
<1>11. SensorInv'
  <2>1. ASSUME NEW j \in DOMAIN Tail(updates[t])
        PROVE  Tail(updates[t])[j].pin \notin MainPins
    <3>1. j + 1 \in DOMAIN updates[t] /\ Tail(updates[t])[j] = updates[t][j + 1]
      BY <1>1, <1>5, HeadTailProperties
    <3> QED
      BY <3>1 DEF PinsInv, SensorInv
  <2>2. ASSUME NEW v \in Sensors
        PROVE  \A j \in DOMAIN updates'[v] : updates'[v][j].pin \notin MainPins
    <3>1. updates'[v] = IF v = t THEN Tail(updates[v]) ELSE updates[v]
      BY <1>2, Parties
    <3>2. \A j \in DOMAIN updates[v] : updates[v][j].pin \notin MainPins
      BY DEF PinsInv, SensorInv
    <3> QED
      BY <2>1, <3>1, <3>2
  <2>3. ASSUME NEW v \in Sensors, NEW p \in DOMAIN word'[v] \cap MainPins
        PROVE  word'[v][p] = function'[p]
    <3>1. word'[v] = IF v = t THEN NothingLoaded ELSE word[v]
      BY <1>2, Parties
    <3>2. v # t
      BY <1>9, <3>1
    <3> QED
      BY <1>8, <3>1, <3>2 DEF PinsInv, SensorInv
  <2>4. \A v \in Sensors : todo'[v] \in Seq(OfSensor)
    BY <1>1 DEF PinsInv, SensorInv
  <2> QED
    BY <1>1, <1>3, <2>2, <2>3, <2>4 DEF SensorInv
<1> QED
  BY <1>1, <1>2, <1>4, <1>9, <1>10, <1>11 DEF PinsInv, Idle

\* The sensors begin with nothing loaded, when main has done its opens.
LEMMA SpawnKeeps ==
  ASSUME PinsInv, Spawn
  PROVE  PinsInv'
<1>1. /\ Idle(Main) /\ ~spawned /\ spawned' = TRUE
      /\ todo' = [t \in Threads |-> IF t = Main THEN todo[Main] ELSE <<SensorDrivers[t]>>]
      /\ UNCHANGED <<function, updates, word, opened>>
  BY DEF Spawn, StartSensors
<1>2. todo'[Main] = todo[Main] /\ \A t \in Sensors : todo'[t] = <<SensorDrivers[t]>>
  BY <1>1, Parties
<1>7. \A d \in OfSensor : <<d>> \in Seq(OfSensor)
  OBVIOUS
<1>3. \A t \in Sensors : todo'[t] \in Seq(OfSensor)
  BY <1>2, <1>7, Parties
<1>4. todo' \in [Threads -> Seq(Drivers)]
  BY <1>1, <1>2, <1>3, Parties, ListsOfDrivers DEF PinsInv, PinsTypeInv
<1>5. PinsTypeInv' /\ WordInv' /\ MainInv'
  BY <1>1, <1>2, <1>4 DEF PinsInv, PinsTypeInv, WordInv, MainInv
<1>6. SensorInv'
  BY <1>1, <1>3 DEF PinsInv, SensorInv
<1> QED
  BY <1>1, <1>2, <1>5, <1>6 DEF PinsInv, Idle

\* A new process starts from the pins it finds.
LEMMA RelaunchKeeps ==
  ASSUME PinsInv, Relaunch
  PROVE  PinsInv'
<1>1. /\ \A t \in Threads : updates[t] = <<>>
      /\ todo' = [t \in Threads |-> IF t = Main THEN MainDrivers ELSE <<>>]
      /\ opened' = {} /\ spawned' = FALSE
      /\ UNCHANGED <<function, updates, word>>
  BY DEF Relaunch
<1>2. todo'[Main] \in Seq(OfMain) /\ \A t \in Sensors : todo'[t] = <<>>
  BY <1>1, Parties
<1>3. todo' \in [Threads -> Seq(Drivers)]
  BY <1>1, <1>2, Parties, ListsOfDrivers
<1>4. PinsTypeInv' /\ WordInv'
  BY <1>1, <1>3 DEF PinsInv, PinsTypeInv, WordInv
<1>5. MainInv'
  BY <1>1, <1>2 DEF PinsInv, MainInv
<1>6. SensorInv'
  BY <1>1, <1>2, Parties DEF PinsInv, SensorInv
<1> QED
  BY <1>1, <1>4, <1>5, <1>6 DEF PinsInv

----------------------------------------------------------------------------
\* The invariant of the registers and of the opens under way.
LEMMA PinsInvariant == Spec => []PinsInv
<1>1. PinsInv /\ [Next]_vars => PinsInv'
  <2> SUFFICES ASSUME PinsInv, [Next]_vars PROVE PinsInv'
    OBVIOUS
  <2>1. ASSUME NEW t \in Threads, Open(t) \/ Store(t) PROVE PinsInv'
    BY <2>1, MainOpens, SensorOpens, MainStores, SensorStores, Parties
  <2>2. ASSUME NEW t \in Threads, OpenFails(t) \/ Load(t) PROVE PinsInv'
    BY <2>2, OpenFailsKeeps, LoadKeeps
  <2>3. CASE UNCHANGED vars
    BY <2>3 DEF vars, PinsInv, PinsTypeInv, WordInv, MainInv, SensorInv, Idle
  <2> QED
    BY <2>1, <2>2, <2>3, SpawnKeeps, RelaunchKeeps DEF Next
<1> QED
  BY InitPins, <1>1, PTL DEF Spec

\* From the moment the sensor threads exist, every device that main has opened
\* keeps the functions its open gave to its pins, although three threads load
\* words that hold these pins, change others and write everything back, and
\* whatever an earlier process or the boot had left there
\* (test_mac.c:70-73, 112-123, 585, 621, 658).
THEOREM PinsOfMainConfigured == Spec => []MainPinsConfigured
<1>1. PinsInv => MainPinsConfigured
  <2> SUFFICES ASSUME PinsInv, spawned, NEW d \in opened \cap OfMain,
                      NEW i \in DOMAIN d.pins
               PROVE  function[d.pins[i]] = d.bits
    BY DEF MainPinsConfigured, Configured, OfMain
  <2>1. updates[Main] = <<>> /\ d.pins[i] \in PinsOf(d)
    BY DEF PinsInv, Idle, PinsOf
  <2> QED
    BY <2>1 DEF PinsInv, MainInv
<1> QED
  BY PinsInvariant, <1>1, PTL

\* A word is held only inside an update, and no register gets a value that is
\* not a function of a pin (sens_driver2.c:47-48).
THEOREM TypeCorrect == Spec => []TypeOK
<1>1. PinsInv => TypeOK
  <2> SUFFICES ASSUME PinsInv PROVE TypeOK
    OBVIOUS
  <2>1. ASSUME NEW t \in Threads
        PROVE  /\ \A i \in DOMAIN todo[t] : todo[t][i] \in Drivers
               /\ \A i \in DOMAIN updates[t] : updates[t][i].pin \in Pins
               /\ word[t] # NothingLoaded => updates[t] # <<>>
    <3>1. todo[t] \in Seq(Drivers) /\ updates[t] \in Seq(Update)
      BY DEF PinsInv, PinsTypeInv
    <3>2. \A i \in DOMAIN updates[t] : updates[t][i] \in Update
      BY <3>1
    <3> QED
      BY <3>1, <3>2 DEF PinsInv, PinsTypeInv, Update
  <2> QED
    BY <2>1 DEF PinsInv, PinsTypeInv, TypeOK
<1> QED
  BY PinsInvariant, <1>1, PTL

----------------------------------------------------------------------------
(* Two sensors on one register. *)

\* The pins of the sensor threads.
SensorPin == <<18, 7, 8>>

\* The two halves of a sensor's open.
Clears(t) == [pin |-> SensorPin[t], clear |-> TRUE, bits |-> Input]
Sets(t) == [pin |-> SensorPin[t], clear |-> FALSE, bits |-> Input]

\* The sensor's open has stored the cleared bits of its pin.
Cleared(t) == SensorDrivers[t] \in opened /\ updates[t] \in {<<>>, <<Sets(t)>>}

\* Each sensor thread opens its own device, once.
OpensOwn ==
  \A t \in Sensors :
    /\ updates[t] \in {<<>>, <<Clears(t), Sets(t)>>, <<Sets(t)>>}
    /\ updates[t] # <<>> => SensorDrivers[t] \in opened
    /\ todo[t] \in {<<>>, <<SensorDrivers[t]>>}
    /\ todo[t] # <<>> \/ ~spawned => SensorDrivers[t] \notin opened

\* Its words are those of its pin's register.
OwnWords ==
  /\ word[1] # NothingLoaded => DOMAIN word[1] = 10 .. 19
  /\ \A t \in {2, 3} : word[t] # NothingLoaded => DOMAIN word[t] = 0 .. 9

\* Of two cleared pins one at least is still clear in f; of a single one this one.
OneClear(f, t, u) == f[SensorPin[t]] = 0 \/ (Cleared(u) /\ f[SensorPin[u]] = 0)

\* It is so in the register, and in every word that the thread of a cleared pin
\* will store.
SurvivorInv ==
  /\ OpensOwn
  /\ OwnWords
  /\ \A t, u \in {2, 3} : t # u /\ Cleared(t) =>
       /\ OneClear(function, t, u)
       /\ word[t] # NothingLoaded => OneClear(word[t], t, u)

\* What the sensor drivers are.
LEMMA SensorFacts ==
  /\ \A t \in Sensors :
       /\ Updates(SensorDrivers[t]) = <<Clears(t), Sets(t)>>
       /\ SensorDrivers[t] \notin OfMain
       /\ SensorPin[t] \in Pins
  /\ Register(18) = 1 /\ Register(7) = 0 /\ Register(8) = 0
  /\ \A t, u \in Sensors : SensorDrivers[t] = SensorDrivers[u] => t = u
  /\ SensorPin[1] = 18 /\ SensorPin[2] = 7 /\ SensorPin[3] = 8
<1>1. /\ SensorDrivers[1] = [pins |-> <<18>>, bits |-> Input]
      /\ SensorDrivers[2] = [pins |-> <<7>>, bits |-> Input]
      /\ SensorDrivers[3] = [pins |-> <<8>>, bits |-> Input]
  BY DEF SensorDrivers, sens_driver, sens_driver2, sens_driver3
<1>2. SensorPin[1] = 18 /\ SensorPin[2] = 7 /\ SensorPin[3] = 8
  BY DEF SensorPin
<1>3. Sensors = {1, 2, 3}
  BY DEF Sensors
<1>4. ASSUME NEW p \in Pins
      PROVE  Updates([pins |-> <<p>>, bits |-> Input]) =
               <<[pin |-> p, clear |-> TRUE, bits |-> Input],
                 [pin |-> p, clear |-> FALSE, bits |-> Input]>>
  <2> DEFINE d == [pins |-> <<p>>, bits |-> Input]
             e == [i \in 1 .. 2 |->
                     [pin |-> <<p>>[(i + 1) \div 2], clear |-> i % 2 = 1, bits |-> Input]]
  <2>1. Updates(d) = e
    <3>1. Len(d.pins) = 1 /\ d.pins = <<p>> /\ d.bits = Input
      OBVIOUS
    <3> QED
      BY <3>1 DEF Updates
  <2>2. (1 + 1) \div 2 = 1 /\ (2 + 1) \div 2 = 1 /\ 1 % 2 = 1 /\ 2 % 2 = 0
    OBVIOUS
  <2>3. /\ e[1] = [pin |-> p, clear |-> TRUE, bits |-> Input]
        /\ e[2] = [pin |-> p, clear |-> FALSE, bits |-> Input]
    <3>1. (1 % 2 = 1) = TRUE /\ (2 % 2 = 1) = FALSE /\ <<p>>[1] = p
      BY <2>2
    <3>3. 1 \in 1 .. 2 /\ 2 \in 1 .. 2
      OBVIOUS
    <3>2. /\ e[1] = [pin |-> <<p>>[(1 + 1) \div 2], clear |-> 1 % 2 = 1, bits |-> Input]
          /\ e[2] = [pin |-> <<p>>[(2 + 1) \div 2], clear |-> 2 % 2 = 1, bits |-> Input]
      BY <3>3, Zenon
    <3> QED
      BY <2>2, <3>1, <3>2
  <2> HIDE DEF e
  <2>4. DOMAIN e = 1 .. 2 /\ e = [i \in 1 .. 2 |-> e[i]]
    BY DEF e
  <2>5. e = <<e[1], e[2]>>
    BY <2>4
  <2> QED
    BY <2>1, <2>3, <2>5
<1>5. 18 \in Pins /\ 7 \in Pins /\ 8 \in Pins
  BY DEF Pins
<1>6. \A t \in Sensors : Updates(SensorDrivers[t]) = <<Clears(t), Sets(t)>>
  BY <1>1, <1>2, <1>3, <1>4, <1>5 DEF Clears, Sets
<1>7. \A t \in Sensors : SensorDrivers[t] \notin OfMain
  <2>1. SensorDrivers[1] = sens_driver /\ SensorDrivers[2] = sens_driver2
        /\ SensorDrivers[3] = sens_driver3
    BY DEF SensorDrivers
  <2>2. OfMain = {key_driver, key_driver2, key_driver3, key_driver4, mot_driver, dot_driver}
    BY DEF OfMain, MainDrivers, KeyDrivers
  <2> QED
    BY <1>3, <2>1, <2>2, PinSets
<1>8. Register(18) = 1 /\ Register(7) = 0 /\ Register(8) = 0
  BY DEF Register
<1>9. \A t, u \in Sensors : SensorDrivers[t] = SensorDrivers[u] => t = u
  <2>1. SensorDrivers[1] = sens_driver /\ SensorDrivers[2] = sens_driver2
        /\ SensorDrivers[3] = sens_driver3
    BY DEF SensorDrivers
  <2> QED
    BY <1>3, <2>1, PinSets
<1> QED
  BY <1>2, <1>3, <1>5, <1>6, <1>7, <1>8, <1>9

\* Before a sensor is opened nothing is cleared.
LEMMA NotOpened ==
  ASSUME \A t \in Sensors : /\ SensorDrivers[t] \notin opened /\ updates[t] = <<>>
                            /\ todo[t] \in {<<>>, <<SensorDrivers[t]>>}
                            /\ word[t] = NothingLoaded
  PROVE  SurvivorInv
  BY DEF SurvivorInv, OpensOwn, OwnWords, Cleared, Sensors

\* A step that stores nothing and begins no word leaves the rest.
LEMMA Quiet ==
  ASSUME SurvivorInv, OpensOwn', OwnWords', function' = function,
         \A t \in {2, 3} : word'[t] = word[t] /\ (Cleared(t)' <=> Cleared(t))
  PROVE  SurvivorInv'
  BY DEF SurvivorInv, OneClear

\* An open begins with the clearing, which is not done yet.
LEMMA OpenQuiet ==
  ASSUME PinsInv, SurvivorInv, NEW t \in Sensors, Open(t)
  PROVE  SurvivorInv'
<1> DEFINE d == SensorDrivers[t]
<1>1. todo[t] = <<d>> /\ d \notin opened /\ spawned
  BY DEF Open, SurvivorInv, OpensOwn, PinsInv, SensorInv
<1>2. Head(todo[t]) = d /\ Tail(todo[t]) = <<>>
  BY <1>1
<1>3. DOMAIN todo = Threads /\ DOMAIN updates = Threads
  BY DEF PinsInv, PinsTypeInv
<1>4. /\ \A v \in Sensors : /\ todo'[v] = IF v = t THEN <<>> ELSE todo[v]
                            /\ updates'[v] = IF v = t THEN <<Clears(t), Sets(t)>>
                                             ELSE updates[v]
      /\ opened' = opened \cup {d} /\ UNCHANGED <<function, word, spawned>>
  BY <1>2, <1>3, SensorFacts, Parties DEF Open
<1>5. OpensOwn'
  <2> SUFFICES ASSUME NEW v \in Sensors
               PROVE  /\ updates'[v] \in {<<>>, <<Clears(v), Sets(v)>>, <<Sets(v)>>}
                      /\ updates'[v] # <<>> => SensorDrivers[v] \in opened'
                      /\ todo'[v] \in {<<>>, <<SensorDrivers[v]>>}
                      /\ todo'[v] # <<>> \/ ~spawned' => SensorDrivers[v] \notin opened'
    BY DEF OpensOwn, Clears, Sets
  <2>1. CASE v = t
    BY <1>1, <1>4, <2>1
  <2>2. CASE v # t
    BY <1>1, <1>4, <2>2, SensorFacts DEF SurvivorInv, OpensOwn
  <2> QED
    BY <2>1, <2>2
<1>6. OwnWords'
  BY <1>4 DEF SurvivorInv, OwnWords
<1>7. ASSUME NEW v \in {2, 3} PROVE Cleared(v)' <=> Cleared(v)
  <2>1. v \in Sensors
    BY DEF Sensors
  <2>2. CASE v = t
    <3>1. ~Cleared(v)
      BY <1>1, <2>2 DEF Cleared
    <3>2. <<Clears(t), Sets(t)>> # <<>> /\ <<Clears(t), Sets(t)>> # <<Sets(t)>>
      OBVIOUS
    <3>3. updates'[v] = <<Clears(t), Sets(t)>>
      BY <1>4, <2>1, <2>2
    <3>4. ~Cleared(v)'
      BY <2>2, <3>2, <3>3 DEF Cleared, Sets
    <3> QED
      BY <3>1, <3>4
  <2>3. CASE v # t
    <3>1. updates'[v] = updates[v] /\ (SensorDrivers[v] \in opened' <=> SensorDrivers[v] \in opened)
      BY <1>4, <2>1, <2>3, SensorFacts
    <3> QED
      BY <3>1 DEF Cleared, Sets
  <2> QED
    BY <2>2, <2>3
<1> QED
  BY <1>4, <1>5, <1>6, <1>7, Quiet

\* An open that fails begins nothing.
LEMMA OpenFailsQuiet ==
  ASSUME PinsInv, SurvivorInv, NEW t \in Sensors, OpenFails(t)
  PROVE  SurvivorInv'
<1>1. Tail(<<SensorDrivers[t]>>) = <<>> /\ todo[t] = <<SensorDrivers[t]>>
  BY DEF OpenFails, SurvivorInv, OpensOwn
<1>2. /\ \A v \in Sensors : todo'[v] = IF v = t THEN <<>> ELSE todo[v]
      /\ UNCHANGED <<function, updates, word, opened, spawned>>
  BY <1>1, Parties DEF OpenFails, PinsInv, PinsTypeInv
<1>3. OpensOwn'
  BY <1>2 DEF SurvivorInv, OpensOwn, Clears, Sets
<1>4. OwnWords'
  BY <1>2 DEF SurvivorInv, OwnWords
<1>5. \A v \in {2, 3} : Cleared(v)' <=> Cleared(v)
  BY <1>2 DEF Cleared, Sets
<1> QED
  BY <1>2, <1>3, <1>4, <1>5, Quiet

\* A word is a copy of the register, and so has one pin clear as that has.
LEMMA LoadCopies ==
  ASSUME PinsInv, SurvivorInv, NEW t \in Sensors, Load(t)
  PROVE  SurvivorInv'
<1> DEFINE loaded == [p \in {q \in Pins : Register(q) = Register(updates[t][1].pin)} |->
                        function[p]]
<1>1. /\ \A v \in Sensors : word'[v] = IF v = t THEN loaded ELSE word[v]
      /\ UNCHANGED <<function, todo, updates, opened, spawned>>
      /\ updates[t] # <<>>
  BY Parties DEF Load, PinsInv, PinsTypeInv
<1>2. updates[t][1].pin = SensorPin[t]
  <2>1. updates[t] = <<Clears(t), Sets(t)>> \/ updates[t] = <<Sets(t)>>
    BY <1>1 DEF SurvivorInv, OpensOwn
  <2>2. <<Clears(t), Sets(t)>>[1] = Clears(t) /\ <<Sets(t)>>[1] = Sets(t)
    OBVIOUS
  <2>3. Clears(t).pin = SensorPin[t] /\ Sets(t).pin = SensorPin[t]
    BY DEF Clears, Sets
  <2> QED
    BY <2>1, <2>2, <2>3
<1>3. /\ t = 1 => DOMAIN loaded = 10 .. 19
      /\ t \in {2, 3} => DOMAIN loaded = 0 .. 9
  <2>1. {q \in Pins : Register(q) = 1} = 10 .. 19 /\ {q \in Pins : Register(q) = 0} = 0 .. 9
    BY DEF Pins, Register
  <2> QED
    BY <1>2, <2>1, SensorFacts
<1>4. \A p \in DOMAIN loaded : loaded[p] = function[p]
  OBVIOUS
<1> HIDE DEF loaded
<1>5. OwnWords'
  BY <1>1, <1>3 DEF SurvivorInv, OwnWords, Sensors
<1>6. OpensOwn'
  BY <1>1 DEF SurvivorInv, OpensOwn, Clears, Sets
<1>7. \A v \in {2, 3} : Cleared(v)' <=> Cleared(v)
  BY <1>1 DEF Cleared, Sets
<1>8. ASSUME NEW v \in {2, 3}, NEW u \in {2, 3}, v # u, Cleared(v)
      PROVE  /\ OneClear(function, v, u)'
             /\ word'[v] # NothingLoaded => OneClear(word[v], v, u)'
  <2>1. OneClear(function, v, u) /\ (word[v] # NothingLoaded => OneClear(word[v], v, u))
    BY <1>8 DEF SurvivorInv
  <2>2. v = t => word'[v][SensorPin[v]] = function[SensorPin[v]]
                 /\ word'[v][SensorPin[u]] = function[SensorPin[u]]
    BY <1>1, <1>3, <1>4, SensorFacts
  <2>3. v # t => word'[v] = word[v]
    BY <1>1 DEF Sensors
  <2> QED
    BY <1>1, <1>7, <2>1, <2>2, <2>3 DEF OneClear
<1> QED
  BY <1>5, <1>6, <1>7, <1>8 DEF SurvivorInv

\* What a store of a sensor leaves to be done, and what it does to the lists.
LEMMA SensorStoreEffect ==
  ASSUME PinsInv, SurvivorInv, NEW t \in Sensors, Store(t)
  PROVE  /\ \/ updates[t] = <<Clears(t), Sets(t)>> /\ updates'[t] = <<Sets(t)>>
            \/ updates[t] = <<Sets(t)>> /\ updates'[t] = <<>>
         /\ \A v \in Sensors \ {t} : updates'[v] = updates[v] /\ word'[v] = word[v]
         /\ word[t] # NothingLoaded /\ word'[t] = NothingLoaded
         /\ SensorDrivers[t] \in opened
         /\ UNCHANGED <<todo, opened, spawned>>
         /\ OpensOwn' /\ OwnWords'
<1>1. /\ updates[t] # <<>> /\ word[t] # NothingLoaded
      /\ UNCHANGED <<todo, opened, spawned>>
  BY StoreEffect, Parties
<1>2. \A v \in Sensors : /\ updates'[v] = IF v = t THEN Tail(updates[v]) ELSE updates[v]
                         /\ word'[v] = IF v = t THEN NothingLoaded ELSE word[v]
  BY StoreTypes, Parties
<1>3. /\ updates[t] = <<Clears(t), Sets(t)>> \/ updates[t] = <<Sets(t)>>
      /\ SensorDrivers[t] \in opened
  BY <1>1 DEF SurvivorInv, OpensOwn
<1>4. Tail(<<Clears(t), Sets(t)>>) = <<Sets(t)>> /\ Tail(<<Sets(t)>>) = <<>>
  OBVIOUS
<1>5. OpensOwn'
  <2> SUFFICES ASSUME NEW v \in Sensors
               PROVE  /\ updates'[v] \in {<<>>, <<Clears(v), Sets(v)>>, <<Sets(v)>>}
                      /\ updates'[v] # <<>> => SensorDrivers[v] \in opened'
                      /\ todo'[v] \in {<<>>, <<SensorDrivers[v]>>}
                      /\ todo'[v] # <<>> \/ ~spawned' => SensorDrivers[v] \notin opened'
    BY DEF OpensOwn, Clears, Sets
  <2> QED
    BY <1>1, <1>2, <1>3, <1>4 DEF SurvivorInv, OpensOwn
<1>6. OwnWords'
  BY <1>2 DEF SurvivorInv, OwnWords, Sensors
<1> QED
  BY <1>1, <1>2, <1>3, <1>4, <1>5, <1>6

\* A store of a sensor keeps one pin clear: its own when it clears it, and the one
\* that is clear in its word when it sets no bit.
LEMMA StoreKeepsOne ==
  ASSUME PinsInv, SurvivorInv, NEW t \in Sensors, Store(t)
  PROVE  SurvivorInv'
<1> DEFINE half == updates[t][1]
<1>1. /\ \/ updates[t] = <<Clears(t), Sets(t)>> /\ updates'[t] = <<Sets(t)>>
         \/ updates[t] = <<Sets(t)>> /\ updates'[t] = <<>>
      /\ \A v \in Sensors \ {t} : updates'[v] = updates[v] /\ word'[v] = word[v]
      /\ word[t] # NothingLoaded /\ word'[t] = NothingLoaded
      /\ SensorDrivers[t] \in opened
      /\ UNCHANGED opened
      /\ OpensOwn' /\ OwnWords'
  BY SensorStoreEffect
<1>2. /\ function'[half.pin] = Modified(word[t][half.pin], half)
      /\ \A p \in Pins \ {half.pin} :
           function'[p] = IF p \in DOMAIN word[t] THEN word[t][p] ELSE function[p]
  BY StoreEffect, Parties
<1>3. half \in {Clears(t), Sets(t)}
  <2>1. <<Clears(t), Sets(t)>>[1] = Clears(t) /\ <<Sets(t)>>[1] = Sets(t)
    OBVIOUS
  <2> QED
    BY <1>1, <2>1
<1>4. half.pin = SensorPin[t]
  BY <1>3 DEF Clears, Sets
<1>5. \A v \in Sensors \ {t} : Cleared(v)' <=> Cleared(v)
  BY <1>1 DEF Cleared, Sets
<1> HIDE DEF half
<1>6. CASE t = 1
  <2>1. \A v \in {2, 3} : function'[SensorPin[v]] = function[SensorPin[v]]
    <3>1. DOMAIN word[t] = 10 .. 19
      BY <1>1, <1>6 DEF SurvivorInv, OwnWords
    <3>2. /\ 7 \in Pins \ {half.pin} /\ 8 \in Pins \ {half.pin}
          /\ 7 \notin 10 .. 19 /\ 8 \notin 10 .. 19
      BY <1>4, <1>6, SensorFacts DEF Pins
    <3> QED
      BY <1>2, <3>1, <3>2, SensorFacts
  <2>2. ASSUME NEW v \in {2, 3}
        PROVE  word'[v] = word[v] /\ (Cleared(v)' <=> Cleared(v))
    BY <1>1, <1>5, <1>6 DEF Sensors
  <2> QED
    BY <1>1, <2>1, <2>2 DEF SurvivorInv, OneClear
<1>7. CASE t \in {2, 3}
  <2>1. PICK u \in {2, 3} : u # t /\ {2, 3} = {t, u} /\ u \in Sensors
    BY <1>7 DEF Sensors
  <2>2. /\ word'[u] = word[u] /\ (Cleared(u)' <=> Cleared(u))
        /\ Cleared(t)'
    <3>1. Cleared(t)'
      BY <1>1 DEF Cleared, Sets
    <3> QED
      BY <1>1, <1>5, <2>1, <3>1
  <2>3. CASE updates[t] = <<Clears(t), Sets(t)>>
    <3>1. ~Cleared(t)
      <4>1. <<Clears(t), Sets(t)>> # <<>> /\ <<Clears(t), Sets(t)>> # <<Sets(t)>>
        OBVIOUS
      <4> QED
        BY <2>3, <4>1 DEF Cleared
    <3>2. function'[SensorPin[t]] = 0
      <4>1. half = Clears(t)
        BY <2>3 DEF half
      <4>2. half.clear
        BY <4>1 DEF Clears
      <4> QED
        BY <1>2, <1>4, <4>2 DEF Modified
    <3>3. /\ OneClear(function, t, u)'
          /\ Cleared(u)' => OneClear(function, u, t)'
      BY <2>2, <3>2 DEF OneClear
    <3>4. Cleared(u)' /\ word'[u] # NothingLoaded => OneClear(word[u], u, t)'
      <4>1. Cleared(u) /\ word[u] # NothingLoaded => OneClear(word[u], u, t)
        BY <1>7, <2>1 DEF SurvivorInv
      <4> QED
        BY <2>2, <3>1, <4>1 DEF OneClear
    <3> QED
      BY <1>1, <2>1, <3>3, <3>4 DEF SurvivorInv
  <2>4. CASE updates[t] = <<Sets(t)>>
    <3>1. Cleared(t)
      BY <1>1, <2>4 DEF Cleared
    <3>2. OneClear(word[t], t, u)
      BY <1>1, <1>7, <2>1, <3>1 DEF SurvivorInv
    <3>3. /\ function'[SensorPin[t]] = word[t][SensorPin[t]]
          /\ function'[SensorPin[u]] = word[t][SensorPin[u]]
      <4>1. half = Sets(t)
        BY <2>4 DEF half
      <4>2. ~half.clear /\ half.bits # Output
        BY <4>1 DEF Sets, Input, Output
      <4>3. function'[SensorPin[t]] = word[t][SensorPin[t]]
        BY <1>2, <1>4, <4>2 DEF Modified, OrBits
      <4>4. DOMAIN word[t] = 0 .. 9
        BY <1>1, <1>7 DEF SurvivorInv, OwnWords
      <4>5. SensorPin[u] \in Pins \ {half.pin} /\ SensorPin[u] \in 0 .. 9
        BY <1>4, <1>7, <2>1, SensorFacts
      <4> QED
        BY <1>2, <4>3, <4>4, <4>5
    <3>4. /\ OneClear(function, t, u)'
          /\ Cleared(u)' => OneClear(function, u, t)'
      BY <2>2, <3>2, <3>3 DEF OneClear
    <3>5. Cleared(u)' /\ word'[u] # NothingLoaded => OneClear(word[u], u, t)'
      <4>1. Cleared(u) /\ word[u] # NothingLoaded => OneClear(word[u], u, t)
        BY <1>7, <2>1 DEF SurvivorInv
      <4> QED
        BY <2>2, <3>1, <4>1 DEF OneClear
    <3> QED
      BY <1>1, <2>1, <3>4, <3>5 DEF SurvivorInv
  <2> QED
    BY <1>1, <2>3, <2>4
<1> QED
  BY <1>6, <1>7 DEF Sensors

\* As long as main is alone no sensor is open.
LEMMA AloneQuiet ==
  ASSUME PinsInv, SurvivorInv, ~spawned, Open(Main) \/ OpenFails(Main) \/ Load(Main) \/ Store(Main)
  PROVE  SurvivorInv'
<1> DEFINE d == Head(todo[Main])
<1>1. \A t \in Sensors : /\ SensorDrivers[t] \notin opened /\ updates[t] = <<>>
                         /\ todo[t] \in {<<>>, <<SensorDrivers[t]>>}
                         /\ word[t] = NothingLoaded
  BY Parties DEF SurvivorInv, OpensOwn, PinsInv, SensorInv, PinsTypeInv
<1>2. \A t \in Sensors : updates'[t] = updates[t] /\ todo'[t] = todo[t] /\ word'[t] = word[t]
  BY Parties DEF Open, OpenFails, Load, Store, PinsInv, PinsTypeInv
<1>3. opened' = opened \/ (d \in OfMain /\ opened' = opened \cup {d})
  <2>1. todo[Main] # <<>> => d \in OfMain
    BY HeadTailProperties DEF PinsInv, MainInv
  <2> QED
    BY <2>1 DEF Open, OpenFails, Load, Store
<1>4. \A t \in Sensors : SensorDrivers[t] \notin opened'
  BY <1>1, <1>3, SensorFacts
<1> QED
  BY <1>1, <1>2, <1>4 DEF SurvivorInv, OpensOwn, OwnWords, Cleared, Sensors

\* The sensor threads, and a new process, have opened nothing.
LEMMA FreshQuiet ==
  ASSUME PinsInv, SurvivorInv, Spawn \/ Relaunch
  PROVE  SurvivorInv'
<1>1. \A t \in Sensors : /\ SensorDrivers[t] \notin opened' /\ updates'[t] = <<>>
                         /\ word'[t] = NothingLoaded
                         /\ todo'[t] \in {<<>>, <<SensorDrivers[t]>>}
  <2>1. CASE Spawn
    BY <2>1, Parties DEF Spawn, StartSensors, SurvivorInv, OpensOwn, PinsInv, SensorInv,
                         PinsTypeInv
  <2>2. CASE Relaunch
    BY <2>2, Parties DEF Relaunch, PinsInv, PinsTypeInv
  <2> QED
    BY <2>1, <2>2
<1> QED
  BY <1>1 DEF SurvivorInv, OpensOwn, OwnWords, Cleared, Sensors

\* Both invariants hold throughout.
LEMMA SurvivorInvariant == Spec => [](PinsInv /\ SurvivorInv)
<1>1. Init => SurvivorInv
  BY NotOpened, Parties DEF Init
<1>2. PinsInv /\ SurvivorInv /\ [Next]_vars => SurvivorInv'
  <2> SUFFICES ASSUME PinsInv, SurvivorInv, [Next]_vars PROVE SurvivorInv'
    OBVIOUS
  <2>1. ASSUME NEW t \in Sensors, Open(t) \/ OpenFails(t) \/ Load(t) \/ Store(t)
        PROVE  SurvivorInv'
    BY <2>1, OpenQuiet, OpenFailsQuiet, LoadCopies, StoreKeepsOne
  <2>2. CASE Open(Main) \/ OpenFails(Main) \/ Load(Main) \/ Store(Main)
    <3>1. spawned => todo[Main] = <<>> /\ updates[Main] = <<>> /\ word[Main] = NothingLoaded
      BY Parties DEF PinsInv, Idle, PinsTypeInv
    <3>2. ~spawned
      BY <2>2, <3>1 DEF Open, OpenFails, Load, Store
    <3> QED
      BY <2>2, <3>2, AloneQuiet
  <2>3. CASE UNCHANGED vars
    BY <2>3 DEF vars, SurvivorInv, OpensOwn, OwnWords, Cleared, OneClear, Clears, Sets
  <2> QED
    BY <2>1, <2>2, <2>3, FreshQuiet, Parties DEF Next
<1> QED
  BY <1>1, <1>2, PinsInvariant, PTL DEF Spec

\* The opens of sensors 2 and 3 can undo one another, as each writes back a word
\* that may be older than the other's update; but the pin of one of them is
\* an input when both have opened, whatever the pins were at boot and in whatever
\* order the threads run (sens_driver2.c:47-48, sens_driver3.c:47-48).
THEOREM OneSensorAtLeast == Spec => []OneSensorSurvives
<1>1. PinsInv /\ SurvivorInv => OneSensorSurvives
  <2> SUFFICES ASSUME SurvivorInv, \A t \in Sensors : Idle(t),
                      {sens_driver2, sens_driver3} \subseteq opened
               PROVE  Configured(sens_driver2) \/ Configured(sens_driver3)
    BY DEF OneSensorSurvives
  <2>1. Cleared(2) /\ Cleared(3)
    BY DEF Cleared, Idle, Sensors, SensorDrivers
  <2>2. function[7] = 0 \/ function[8] = 0
    BY <2>1, SensorFacts DEF SurvivorInv, OneClear
  <2>3. /\ function[7] = 0 => Configured(sens_driver2)
        /\ function[8] = 0 => Configured(sens_driver3)
    BY DEF Configured, sens_driver2, sens_driver3, Input
  <2> QED
    BY <2>2, <2>3
<1> QED
  BY <1>1, SurvivorInvariant, PTL
=============================================================================
