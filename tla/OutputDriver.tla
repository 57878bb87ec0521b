---------------------------- MODULE OutputDriver ----------------------------
(***************************************************************************)
(* The drivers that put out what a program writes, inside the lifecycle    *)
(* they share with the key drivers: LED bar, dot matrix (twice),           *)
(* seven-segment display, lamp, servo motor and the coin machine's motor.  *)
(* An open makes their pins outputs, one by one, each an input first.      *)
(* After that all they put out goes through two registers: a store of a    *)
(* mask to one makes its pins high, to the other low, and the other pins   *)
(* keep their level.  Every store is a step, since what is lit in between  *)
(* is seen.  Both registers read as 0, so that |= is a store of its mask.  *)
(***************************************************************************)
EXTENDS DriverLifecycle, Sequences, Integers

CONSTANTS
  N,          \* rows and lines of a display: 8 in the code
  Base,       \* digits, the base of led_write: 10 in the code
  Refreshes,  \* how often led_write shows the rows of a digit: 50000 in the code
  Pulses,     \* pulses of a servo write: 4 in the code
  num,        \* the rows of each digit, as sets of lines
  fnd_values, \* the segments of each digit, the point, all and none, as sets of lines
  Blank,      \* nothing: what led_open shows
  Unset,      \* nobody wrote yet
  Spoilt      \* two processes have raced

Lines == 0..(N - 1)

\* The pins of the rows of a display and those of its lines are not the same.
ASSUME OutputAssumption ==
  /\ N \in 1..8
  /\ Base \in Nat /\ N < Base
  /\ Refreshes \in Nat
  /\ Pulses \in Nat
  /\ num \in [0..(Base - 1) -> [Lines -> SUBSET Lines]]
  /\ fnd_values \in [0..(Base + 2) -> SUBSET Lines]

VARIABLES
  device,   \* which device this is
  selected, \* how many function selects the open under way has stored
  output,   \* the pins that are outputs
  level,    \* the pins that are high, or would be as outputs
  stored,   \* history: the pins made high or low by a store since power on
  shown,    \* the value whose write was the last to begin, or one of the constants
  todo      \* the stores of levels left of the open or write under way

outputVars == <<device, selected, output, level, stored, shown, todo>>
allVars == <<vars, outputVars>>

Pins(first, lines) == {first + i : i \in lines}
Data(lines) == Pins(10, lines)

High(pins) == [high |-> TRUE, pins |-> pins]
Low(pins) == [high |-> FALSE, pins |-> pins]

\* A store, on the pins that are high.
Put(store, high) == IF store.high THEN high \cup store.pins ELSE high \ store.pins

\* The stores of a loop: those of body[0], ..., body[n - 1], size stores each.
Loop(n, size, body) ==
  [k \in 1..(n * size) |-> body[(k - 1) \div size][((k - 1) % size) + 1]]

----------------------------------------------------------------------------
(* The devices.  Each has the pins its open makes outputs, in that order,  *)
(* the stores of levels of its open, those of a write for each value the   *)
(* programs write, and for these the picture at rest and the pictures that *)
(* may be seen during the write.  A picture is a set of pins, in a matrix  *)
(* of <<row, line>>: there "rows" is the pin of row 0, and an LED is lit   *)
(* when the level of its row is rowOn and the level of its line the        *)
(* opposite.                                                               *)

\* The pins from first on.
Ascending(first) == [k \in 1..N |-> (first + k) - 1]

gauge == [n \in 0..N |-> 0..(n - 1)]

ShowGauge(v) == <<Low(Pins(20, Lines)), High(Data(gauge[v % Base]))>>

ShowDigit(v) ==
  Loop(Refreshes * N, 4, [k \in 0..(Refreshes * N - 1) |->
    <<Low(Pins(20, {k % N})), High(Data(num[v][k % N])),
      Low(Data(Lines)), High(Pins(20, Lines))>>])

LedBlank == <<Low(Data(Lines)), High(Pins(20, Lines))>>

\* Mutant: the display is not blanked before the new value.
LedWriteUnblanked(v) == IF v \div Base = 1 THEN ShowGauge(v) ELSE ShowDigit(v)

LedWrite(v) == LedBlank \o (IF v \div Base = 1 THEN ShowGauge(v) ELSE ShowDigit(v))

\* test_led writes all digits and gauges in turn.  A digit is shown row by row, a
\* gauge in all rows and until the next write.
LedBar ==
  [pins |-> Data(Lines) \cup Pins(20, Lines), rows |-> {20}, rowOn |-> FALSE,
   order |-> [k \in 1..(2 * N) |-> IF k % 2 = 1 THEN 10 + (k \div 2) ELSE 19 + (k \div 2)],
   open |-> LedBlank,
   write |-> [v \in 0..(Base + N) |-> LedWrite(v)],
   rest |-> [v \in 0..(Base + N) |->
               IF v \div Base = 1 THEN Lines \X gauge[v % Base] ELSE {}],
   during |-> [v \in 0..(Base + N) |->
                 {{}} \cup IF v \div Base = 1 THEN {} ELSE {{i} \X num[v][i] : i \in Lines}]]

\* One column after the other: its value to the lines, then its row pin, for 1 us.
DotWrite(v, first) ==
  Loop(N, 4, [i \in Lines |-> <<High(Data(num[v][i])), High(Pins(first, {i})),
                                Low(Pins(first, Lines)), Low(Data(Lines))>>])

\* The dot matrix whose row pins begin at first.  The lines of a value that are 0
\* are lit.
Dot(first) ==
  [pins |-> Data(Lines) \cup Pins(first, Lines), rows |-> {first}, rowOn |-> TRUE,
   order |-> Ascending(10) \o Ascending(first),
   open |-> <<>>,
   write |-> [v \in DOMAIN num |-> DotWrite(v, first)],
   rest |-> [v \in DOMAIN num |-> {}],
   during |-> [v \in DOMAIN num |-> {{}} \cup {{i} \X (Lines \ num[v][i]) : i \in Lines}]]

DotMatrix == Dot(20)
EarlierDotMatrix == Dot(2)

\* A device of pins alone, with the stores and the resting picture of each value.
PinDevice(pins, order, write, rest) ==
  [pins |-> pins, order |-> order, rows |-> {}, rowOn |-> TRUE, open |-> <<>>,
   write |-> write, rest |-> rest, during |-> [v \in DOMAIN write |-> {{}, pins}]]

\* test_fnd takes a number up to Base + 2 to the segments it writes.
Fnd ==
  LET segments == [v \in DOMAIN fnd_values |-> Data(fnd_values[v])]
      write == [v \in DOMAIN fnd_values |-> <<Low(Data(Lines)), High(segments[v])>>]
  IN [PinDevice(Data(Lines), Ascending(10), write, segments)
        EXCEPT !.during = [v \in DOMAIN fnd_values |-> {{}}]]

\* 0 makes the pin high, any other value low.
Lamp ==
  PinDevice({17}, <<17>>, [v \in {0, 1} |-> IF v = 0 THEN <<High({17})>> ELSE <<Low({17})>>],
            [v \in {0, 1} |-> IF v = 0 THEN {17} ELSE {}])

\* c, l and r differ in the length of the pulses; q and any other do nothing.
Servo ==
  LET write == [v \in {"c", "l", "r", "q"} |->
                  IF v = "q" THEN <<>>
                  ELSE Loop(Pulses, 2, [i \in 0..(Pulses - 1) |-> <<High({2}), Low({2})>>])]
  IN PinDevice({2}, <<2>>, write, [v \in DOMAIN write |-> {}])

Motor ==
  PinDevice({9}, <<9>>, [v \in {0, 1} |-> IF v = 1 THEN <<High({9})>> ELSE <<Low({9})>>],
            [v \in {0, 1} |-> IF v = 1 THEN {9} ELSE {}])

Key == PinDevice({}, <<>>, <<>>, <<>>)

Device ==
  [led |-> LedBar, dot |-> DotMatrix, dot2 |-> EarlierDotMatrix, fnd |-> Fnd, lamp |-> Lamp,
   servo |-> Servo, motor |-> Motor, key |-> Key]

\* No device writes a mark.
ASSUME MarkAssumption ==
  /\ Unset # Blank /\ Unset # Spoilt /\ Blank # Spoilt
  /\ \A d \in DOMAIN Device : DOMAIN Device[d].write \cap {Blank, Unset, Spoilt} = {}

----------------------------------------------------------------------------
\* The levels at power on are unknown, and the pins inputs.
OutputInit ==
  /\ Init
  /\ device \in DOMAIN Device
  /\ interrupt = (device = "key")
  /\ selected = 0
  /\ output = {}
  /\ level \in SUBSET Device[device].pins
  /\ stored = {}
  /\ shown = Unset
  /\ todo = <<>>

\* Begin with the first of the stores, if any.
Begin(stores) ==
  IF stores = <<>>
  THEN UNCHANGED <<level, stored, todo>>
  ELSE /\ level' = Put(stores[1], level)
       /\ stored' = stored \cup stores[1].pins
       /\ todo' = Tail(stores)

\* Once two processes raced, what they store is not followed any further.
Test(p) ==
  /\ OpenTest(p)
  /\ shown' = IF raced' THEN Spoilt ELSE shown
  /\ UNCHANGED <<device, selected, output, level, stored, todo>>

\* One store to a function select register: it makes the next pin an input, or, the
\* second for the same pin, an output.
SelectPin(p) ==
  /\ pc[p] = "configure"
  /\ regs \in live
  /\ shown # Spoilt
  /\ selected < 2 * Len(Device[device].order)
  /\ LET pin == Device[device].order[(selected \div 2) + 1]
     IN output' = IF selected % 2 = 0 THEN output \ {pin} ELSE output \cup {pin}
  /\ selected' = selected + 1
  /\ UNCHANGED <<vars, device, level, stored, shown, todo>>

\* All pins are outputs: the open goes on to the first of its stores of levels, if any.
PinsSelected(p) ==
  /\ OpenPins(p)
  /\ shown # Spoilt
  /\ selected = 2 * Len(Device[device].order)
  /\ selected' = 0
  /\ shown' = IF Device[device].open = <<>> THEN shown ELSE Blank
  /\ Begin(Device[device].open)
  /\ UNCHANGED <<device, output>>

ConfigureSpoilt(p) ==
  /\ OpenPins(p)
  /\ shown = Spoilt
  /\ UNCHANGED outputVars

\* One write after the other: the programs have one thread that writes.
Write(p) ==
  /\ pc[p] = "open"
  /\ shown # Spoilt
  /\ todo = <<>>
  /\ \E v \in DOMAIN Device[device].write :
       /\ Begin(Device[device].write[v])
       /\ shown' = IF Device[device].write[v] = <<>> THEN shown ELSE v
  /\ UNCHANGED <<vars, device, selected, output>>

Store ==
  /\ todo # <<>>
  /\ Begin(todo)
  /\ UNCHANGED <<vars, device, selected, output, shown>>

\* A process cannot be killed inside open or write: none of them sleeps so that a
\* signal would end it.
Release(p) ==
  /\ todo = <<>>
  /\ ReleaseUsage(p)
  /\ UNCHANGED outputVars

Elsewhere ==
  /\ \/ \E p \in Procs :
          \/ OpenTake(p) \/ OpenMap(p) \/ OpenMapFails(p) \/ OpenFaults(p)
          \/ OpenRequest(p) \/ OpenRequestFails(p)
          \/ ReleaseUnmap(p) \/ ReleaseFree(p)
     \/ Edge \/ HandlerReads
  /\ UNCHANGED outputVars

\* The pins and their levels survive the module.
ExitOrLoad ==
  /\ Exit \/ Load
  /\ UNCHANGED outputVars

OutputNext ==
  \/ \E p \in Procs :
       \/ Test(p) \/ SelectPin(p) \/ PinsSelected(p) \/ ConfigureSpoilt(p)
       \/ Write(p) \/ Release(p)
  \/ Store \/ Elsewhere \/ ExitOrLoad

OutputSpec == OutputInit /\ [][OutputNext]_allVars

----------------------------------------------------------------------------
\* The types of the lifecycle, and a store of levels left over only touches pins that
\* the open made outputs, each in its turn (led_driver.c:56-64, 93-115;
\* dot_driver.c:37-47, 82-89).
OutputTypeOK ==
  /\ TypeOK
  /\ device \in DOMAIN Device
  /\ selected \in 0..(2 * Len(Device[device].order))
  /\ output \subseteq Device[device].pins
  /\ level \subseteq Device[device].pins
  /\ stored \subseteq Device[device].pins
  /\ shown \in DOMAIN Device[device].write \cup {Blank, Unset, Spoilt}
  /\ \A k \in DOMAIN todo : todo[k].pins \subseteq output

\* What is to be seen of device d when these of its pins are high and only these are
\* outputs.  A pin that is an input lights nothing.
Picture(d, high, out) ==
  IF d.rows = {}
  THEN high \cap out
  ELSE {led \in Lines \X Lines :
          /\ 10 + led[2] \in out /\ (10 + led[2] \in high <=> ~d.rowOn)
          /\ \A first \in d.rows :
               first + led[1] \in out /\ (first + led[1] \in high <=> d.rowOn)}

Lit == Picture(Device[device], level, output)

\* Once every pin of a device has got a level from a store, no row or segment of an
\* earlier value, and no row of the value itself, is ever lit in a wrong place, not
\* even between two stores.  When a write has ended the display rests as that value
\* leaves it; an open only turns some of it dark while its pins are inputs, and then
\* either lights it again or, the LED bar's, blanks it (led_driver.c:56-64, 94-115;
\* dot_driver.c:37-47, 82-89; fnd_driver.c:38-42, 70-71; svm_driver.c:37-38, 68-93).
\* Before, in the open of the LED bar and in row 0 of the first write to a dot matrix,
\* which does not blank it, whatever the pins were at power on may be seen.
DisplayIsRight ==
  Device[device].pins \subseteq stored /\ shown \notin {Unset, Spoilt} =>
    CASE shown = Blank -> Lit = {}
      [] shown # Blank /\ todo # <<>> -> Lit \in Device[device].during[shown]
      [] shown # Blank /\ todo = <<>> /\ selected > 0 -> Lit \subseteq Device[device].rest[shown]
      [] OTHER -> Lit = Device[device].rest[shown]
=============================================================================
