# A verification development of the coin machine

The repository holds the programs and Linux drivers of a coin sorting machine
on a Raspberry Pi (`src/receive/`), with the exercises that led to it
(`src/code/` and the top directory). These TLA+ modules model the parts in which
something can go wrong that a run on the desk would hardly show: interrupts
against `poll(2)`, several threads on one flag, sensors that are only sampled,
buffers that several loops size and fill, drivers that share a register.

Paths without a directory are in `src/receive/`. "The repository's README" is
`src/receive/READ ME(무조건 끝까지 읽어보고 해요).txt`, in code page 949.

## The system

| component | state | operations | talks to |
|---|---|---|---|
| key drivers `key_driver.c`, `key_driver2.c` to `4.c` | `key_usage`, `key`, `tmp_buf`, `event_flag`, a wait queue | `key_open`, `key_release`, `key_poll`, `key_read`, `key_write`, `ind_interrupt_handler` | the interrupt of a pin wakes the pollers and counts; `poll(2)` calls `key_poll` of each file in turn |
| `test_mac.c`, `main` | `mac_state`, the revents of its polls, the motor and dot matrix descriptors | wait for key 1; create threads, motor on, join; motor off; menu of four keys | polls the keys, writes to motor and dot matrix, joins the threads |
| `test_mac.c`, `thread_sens1` to `3` | `sens_value`, `j`, `EA500`, `EA100`, `EA50`, `mac_state` (shared) | read the sensor, count, skip six reads, poll key 2 | share key 2's flag and `mac_state` with each other and `main` |
| sensor drivers `sens_driver.c`, `2.c`, `3.c` | `sens_usage`, `tmp_buf` | `sens_open`, `sens_read` (100 ms, then one sample), `sens_release` | one thread each |
| reports, `test_mac.c:182-561` | `len`, `size`, `n`, `m`, `arr`, `value_arr` | size a number, split it, store glyphs, move an eight-column window | `dot_write` |
| `mot_driver.c`, `dot_driver.c` | usage flags, pins | open, release, write | `main` |
| `led_driver.c`, `svm_driver.c` and their tests (top directory), `code/led/`, `code/fnd/`, `code/svm/`, `dddd/dot_driver.c` | usage flag, register mapping, the levels of the pins | open, release, write; `led_write` refreshes a digit row by row, the servo's write makes pulses | one test program each |
| function select registers | three bits for each pin, ten pins to a word | read, modify and write back, in every open | shared by all nine drivers |
| `code/key/` | a key and a LED in one driver; `tmp_buf` is the count of presses | as the key drivers; `key_write` sets the LED | `test_key.c` |
| `code/tcp/` | two buffers, two byte streams | one line, one read, one answer | client and server |

Not modelled: `code/dot_driver.c` and `code/hello_driver`, exercises for another
board (one copies bytes to an FPGA and does not compile, as `iom_demo_addr` is not
declared; the other prints); `test_thr.c`, a draft of the sensor threads that does not
compile; the `*.mod.c` files, which are generated. `aaaa/dot_driver.c` is the
driver of `receive/` with a `sleep(1000)` between its stores, which the kernel does
not have, so it is modelled only as that driver.

Hard behaviours, each listed with its line in `PROJECT.json`:

- `key_poll` tests `event_flag` and clears it in two steps, without a lock,
  against the interrupt and against other pollers; the interrupt wakes the
  pollers before it counts.
- Three threads and then `main` poll the same key; one of them consumes the
  event and the others must learn of it.
- Drivers outlive the program: what a killed session left behind is found by
  the next one.
- `open` and `release` test and change the usage flag, the mapping and the
  interrupt without a lock; an open can come between two steps of a release, an open
  that fails leaves the flag set, and the module can be removed.
- The pins of a display keep their levels between writes, closes and opens, and
  each store only changes some of them: what is seen in between depends on what
  all earlier stores left, and at first on what the pins were at power on. Every open
  makes the pins inputs and outputs again, one by one, while the display rests.
- Six ignored reads of 100 ms are all that keeps one coin from being two.
- Every digit loop of the reports appears twice, once to size a buffer, once to
  fill it, and the second and third part of a report reuse the first's counters,
  which its last loop leaves at -1.
- Three threads read, modify and write the same register.
- A count of presses in a `char`; a reply that TCP delivers in pieces.

What makes the components correct: a key acts at most once per interrupt and a
press nobody overwrites is found; counting ends, with the motor off and final
counts; each coin is counted once; one process holds a device; reports stay in
their buffers and say what was counted; a display shows nothing but what was
written; no open undoes the pins of another that is done; the LED demonstration shows a current count; the echo loses nothing.

## The modules

**`KeyPoll`** is the shared part: a key driver's interrupt handler in two steps
(`IsrWake`: the wake-up; `IsrCount`: `++event_flag`), `key_poll` in two steps for
each key of a `pollfd` array (`KeyPollTest`, `KeyPollClear`), and the loop of
`poll(2)` around them, modelled from its interface: passes over the array until
something is ready, a wake-up, or one last pass after the timeout
(`PollEnter`, `PollWoken`, `PollTimeout`, `PollReturn`). `event_flag` is only
compared with 0, so it is a Boolean; an increment that is overwritten by the clear,
or that overwrites it, leaves a value that one of the two orders leaves too. The steps
interleave freely: the kernel the drivers are built for is a multiprocessor one
(`vermagic=4.4.50-v7 SMP` in the built modules), so a handler and pollers really run at
the same time.

**`KeyDriver`** lets any threads poll any arrays of keys and records interrupts
and reports; **`KeyLatch`** is the abstract specification: an event is reported to
a thread only if an interrupt raised it, and at most once to each thread.
`KeyDriver` implements it under the identity mapping of its two history variables.

**`CoinMachine`** is `test_mac.c` over `KeyPoll` and `motor_write`: `Launch`,
`PreparePoll`/`PrepareReturn`, `OpenDevices`, `Spawn`, `MotorOn`, `Join`, `MotorOff`,
`MenuPoll`, `MenuOff`/`MenuShow`/`MenuNext`, `PollError`, `Exit`, `Kill`, and for
each sensor thread `SensorHead`, `SensorRead`, `SensorCount`, `SensorDecide`. Every
access to `mac_state` and to a counter is a step of its own. The motor pin and
the flags outlive the process. **`CoinMachineHistory`** adds two history
variables: `credit` (interrupts that no action used yet) and `pressed`.

**`CoinSession`** is what a session promises: counting is started, stopped once, and
each look for a coin that was under way at the stop adds one coin at most; the menu
opens when all have ended, and its counts are final. `CoinMachine` implements it
(`ImplementsSession`): `phase` is read off `main`'s place and `mac_state`, `counts` is
`EA`, and a sensor is busy from the test of `mac_state` at the head of its loop to
the adding of what its read returned.

**`CoinSensor`** is one sensor thread in time, in ticks of 50 ms, with
`sens_read`'s delay before its sample, against coins that pass. `SightAssumption` says which delays the sensor can keep up with.

**`DotReport`** is the text side of the menu: the three reports as lists of parts,
each with its fixed glyphs and a number, in the loops of the source (`Measure`,
`Alloc`, `Split`, `StoreFixed`, `StoreDigit`, `FinishPart`, `Scroll`, `Free`). `n` is the
index the source uses for both loops over the digits: it goes up while they are split
off, down to -1 while they are stored, and `FinishPart` sets it to 0 for the next part.

**`DriverLifecycle`** is `open`, `release`, `init` and `exit`, which all drivers of the
repository write the same way, by any number of processes: `OpenTest`, `OpenTake`,
`OpenMap`, `OpenMapFails`, `OpenPins`, `OpenFaults`, `OpenRequest`, `OpenRequestFails`,
`ReleaseUsage`, `ReleaseUnmap`, `ReleaseFree`, `Edge`, `HandlerReads`, `Exit`, `Load`.
A driver has an interrupt (`interrupt`: the key drivers) or none. `ioremap` gives each
open a mapping of its own and `request_irq` is exclusive, by their interface. An
open that finds the registers unmapped by a release (`OpenFaults`) kills its process
inside the kernel, which leaves the flag set and the module in use for ever.

**`OutputDriver`** composes it with what the output drivers put out: LED bar, both
wirings of the dot matrix, seven-segment display, lamp, servo and the motor.
An open first stores to the function selects, twice for each pin (`SelectPin`: an
input, then an output, in the order of the source; `selected` counts the stores), and
then, the LED bar's, to the levels (`PinsSelected`). `todo` holds the stores to levels
left of the open or write under way, and each store to the set or the clear register is
a step (`Store`), since it changes what is seen; `Lit` is that picture, from the pins'
functions and levels. The values are those the test programs write. Every level is
unknown at power on, for every device; `stored` are the pins that a store has given a
level since. `DisplayIsRight` speaks of a display from the moment all its pins are in
`stored`. Until then the code promises nothing: the LED bar may light at random while
its first open makes the pins outputs, and row 0 of the first write to a dot matrix, which no open
blanks, may show lines of no value. From then on a write shows nothing but its own value,
between any two stores, and after it the display rests as the value leaves it; an open
turns some of a resting display dark, never anything dark on, and lights it again or
blanks it. The programs write from one thread,
so writes follow one another; once two processes have raced in open (`Spoilt`) the
stores are not followed any further. A display has `N` rows and lines, at most 8: the
row pins of one wiring begin at 2 and its lines at 10. `Loop` writes the stores of a
loop out as one sequence. The lengths of the pulses and of the waits
between stores are left out; `q`, which the servo's program offers, is no store.

**`GpioPins`** is the function select part of the nine `open` methods: load and
store of a word are separate steps, `main` opens six drivers in order and goes on
past the keys only when all four are open, three threads open the sensors at once, and
the process may be killed and restarted.

**`KeyLed`** is `code/key/` over `KeyPoll`, with the count of presses as a char. Its
names that other modules use too begin with `Led` (`LedInit`, `LedNext`, `LedSpec`), as
those of `OutputDriver` begin with `Output`: a proof module extends both it and `KeyDriver`.
**`TcpEcho`** is `code/tcp/` over two streams of bytes that a read may cut
anywhere, with the reset that closing an unread connection causes.

Definitions marked "Mutant" in a comment are plausible mistakes in the
definition that follows them; no specification uses them. Each property of a
passing run is violated when its mutant takes the place of the definition
(`mutants` in `PROJECT.json`).

## The runs

| run | distinct states | bounds and why they are enough | shows |
|---|---|---|---|
| `key_driver` | 178,441 | 2 threads, 2 keys, 2 interrupts each: overlapping arrays `<<1,2>>` and `<<2>>` give two pollers on one flag and a poller whose pass goes on to another key; two interrupts distinguish one report from two | `PressBudget`, `ImplementsLatch`, `KeptUntilReported`, `VisiblePressIsReported` |
| `coin` | 2,871,014 | two of the three symmetric sensor threads (a consumer and one that must learn of it), keys 1 and 2 (3 and 4 only choose a report), one coin per thread, credit up to 2 (it saturates downwards, so a saturated credit can only make the property fail) | `MotorOffInMenu`, `OnePressOneAction`, `ImplementsSession` |
| `coin_live` | 185,507 | the same machine without coins: counts guard nothing, so liveness does not depend on them | `CountingEnds`, `VisiblePressStopsCounting` |
| `sensor` | 7,113 | 3 coins, the delays of the source, a jitter of one tick, coins of 300 to 400 ms that come 1150 ms apart. Both figures are tight: with 1100 ms between coins, or coins of 250 ms, `NoCoinMissed` fails | `CoinCountedOnce`, `SeenCoinsAreCounted`, `NoCoinMissed` |
| `lifecycle` | 961,613 | three processes, two that race for the device and one that releases; every device, with all levels its pins may have at power on; displays of three rows and lines with five digits (empty, full and overlapping rows), two refreshes of a digit and two servo pulses, so that a row follows itself and another one | `OneHolder`, `HandlerIsLoaded`, `MappedUnlessRaced`, `BusyHasCause`, `DisplayIsRight` |
| `report` | 89,069 | every combination of 0, 1, 9, 10, 99, 100, 205: both sides of each power of ten, 0 inside and at the end, so that each part of a report follows a longer and a shorter one | `StoresInBounds`, `ReportIsRight`, `WindowsAreWritten`, `ReportEnds` |
| `gpio` | 52,806 | pins that boot as inputs or with function 4, the sensor pins independently, so that a lost clear and a lost set both show | `MainPinsConfigured`, `OneSensorSurvives` |
| `key_led` | 6,409 | a char of 3 values and 4 presses, so that the count wraps | `ShownCountIsCurrent`, `VisiblePressIsShown`, `LedGoesOff` |
| `echo` | 8,956 | buffers of 4, three lines of 1 to 3 bytes: a reply in up to three pieces, and more than one line in the server's buffer | `EchoIsOrdered`, `ReplyComes`, `ServerEnds` |

`TypeOK` (in `lifecycle` as a part of `OutputTypeOK`) is checked in each of them but
`coin_live`, which runs the machine of `coin`. `CHECK_DEADLOCK FALSE` is given where
the system stops: the sensor thread after its loop, a report that is shown, the echo
programs after their exit, and a driver after a process died inside its open, when
the flag stays set and the module cannot be removed. (The echo client may also wait
for ever, see below.)

`wait_key1`, `lost_press` and `lifecycle_handler` end in a violation, because what the repository says is not what the code does:

- `wait_key1`, `MachineWaitsForKey1`: the machine is to wait until key 1 is pressed
  (repository's README, line 26). `event_flag` is reset only by a poll, so a
  press of key 1 in an earlier session, or its bouncing, starts the next one.
- `lost_press`, `PressStopsCounting`: pressing key 2 is to end the counting (line
  30). An interrupt between the test and the clearing in `key_poll` is erased and
  the counting goes on. Line 32 knows that a key may have to be held longer.
- `lifecycle_handler`, `HandlerFindsRegisters`: the key drivers are called correct
  (line 149). `key_release` unmaps the registers before it frees the interrupt.

Divergences that are described here without a run of their own:

- The menu acts at once on keys pressed while coins were counted (line 30 has
  each key wait for input).
- A failed `ioremap` or `request_irq` leaves `key_usage` at 1: the device cannot be
  opened until the module is loaded anew (line 148 has that unnecessary).
  That is what the code does, and no property forbids it; `BusyHasCause` shows that
  nothing else leaves the flag set.
- Two processes that pass the test of the usage flag together, or an open between the
  clearing of the flag and the `iounmap` of a release, leave a process with registers
  that another one unmaps. `MappedUnlessRaced` shows that those are the only windows.
- Key 4 uses GPIO 6 where line 11 and its edge bit have 5; a report is shown once
  where lines 73 to 75 have it repeated until a key comes (the loop is commented out).
- `key2_ev` has one element and four are used; the model gives `main` four.
- A sensor that cannot be opened leaves `sens_value` what it was on the stack;
  `CoinMachine` lets every read return either level.
- Nothing blanks a dot matrix before its first write, nor the LED bar before its pins are
  outputs: what the pins were at power on may be seen for a moment (`stored`, above).
- At the end of its input the echo client sends an empty message and waits for an
  answer that cannot come; the server waits too (`InputEnds`). `ReplyComes` shows that
  they wait for each other then only.
- The sensor threads' opens can undo one another: `OneSensorSurvives` is what is
  left, and "all sensors are configured" is false.

## Fairness

- Handlers return (weak fairness of their second step) and runnable threads are
  scheduled (weak fairness of the steps of each thread): interrupts end and the
  scheduler serves every thread.
- The timeout of a `poll(2)` is a point in time. Wake-ups that find nothing do
  not put it off, so a poll that keeps being woken still times out: strong
  fairness of `PollTimeout`, which a weak one would not give as each wake-up
  disables it for a moment.
- Nothing is assumed of keys, coins, kills, launches or the person at the echo
  client; input may stop at any time.
- `DotReport` has weak fairness of its one thread and takes the loop that waits
  for `clock()` to reach 100000 as one step: that this loop ends is not shown.

`Visible(k)` in the liveness properties is an event that is counted while no
poller stands between its test and its clear for that key; without it the
property is the one `lost_press` refutes.

## Proofs

All theorems are proved by TLAPS for every value of the constants, under the
assumptions the modules name; TLC evaluates those on every run.

| module | theorems | argument |
|---|---|---|
| `KeyPollProofs` | lemmas only | one lemma per step of `KeyPoll`: it keeps `KeyTypeInv`, the types with `PassOK` (a call between two keys has a non-empty list left), and loses no event that is `Kept` (visible, or in the revents of a call) unless it returns it; for this a thread outside `poll(2)` holds nothing (`IdleOK`). The three modules above `KeyPoll` have their proofs from them |
| `KeyDriverProofs`: `KeyDriver` | `TypeCorrect`, `PressBudgetHolds`, `KeptIsReported`, `DriversImplementLatch` | `PressBudget` is the inductive strengthening of the latch: reports already given, one held in the call, and one pending in the flag (unless this thread is about to clear it) are at most the interrupts. A report is then a `Report` of `KeyLatch`, everything else a `Raise` or a stutter. `KeptIsReported` is the other direction, as far as it is safety: a visible event is in the revents of every thread that goes on to clear its flag, so that a clear moves it and only a return ends it. Assumes `NKeysAssumption`, `WatchAssumption`, `MaxRaisedAssumption` |
| `KeyDriverProofs`: `KeyLed` | `LedTypeCorrect`, `ShownIsCurrent`, `PressIsKeptUntilShown` | `LedInv`: the driver's count is that of all presses modulo the size of a char, what is due has happened, and only a program that polls is inside `poll(2)`, so that what was due when the event was found stays so until the next poll. `ModUnique` and `CharSucc` are what the count needs of the remainder, for any size of a char. Assumes `KeyLedAssumption` |
| `CoinMachineProofs`: `CoinMachine` | `TypeCorrect`, `CoreInvariant`, `MotorIsOffInMenu`, `MachineImplementsSession`, `MenuReadsFinalCounts`, `PressIsKeptUntilStopped` | `CoreInv` ties `main`'s place to `mac_state`, to the threads that exist, and to counts of 0 before the threads: threads exist only while `main` turns the motor on or joins; one that exited did so because `mac_state` had become 2. Neither property is inductive without it. For the session every step of the machine is a step of `CoinSession` or leaves its variables alone; the first thread to set `mac_state` to 2 is the `Stop`, any later one a stutter. `MenuReadsFinalCounts` is read off the session: `CountLimit`, a count and the look under way, never grows after the stop. A visible press of key 2 is kept by the same lemmas as in `KeyDriver`; a thread that returns with it sets `mac_state`, and `Join` needs threads that have exited, which they do only after that. Assumes `MachineAssumption`, `NKeysAssumption` |
| `CoinMachineProofs`: `CoinMachineHistory` | `OneActionPerInterrupt` | `HistoryInv` adds to `CoreInv` that a thread is inside `poll(2)` only where the program calls it, and that the credit of a key covers what may still come of it: one action if some call holds an event that will be acted on (several threads that hold one act once, since the first ends the counting), and one more if the flag holds an event that none of them was given. It needs room for these two: `MaxCreditAssumption` |
| `CoinSensorProofs` | `TypeCorrect`, `CountedOnce`, `SeenIsCounted`, `NoneMissed`, `EndsInTime` | `BlindInv`: after a coin was counted, the time until the next sample that counts is at least what is left of the coin; this uses `DwellAssumption`, that a coin is gone before the first sample after the six reads. `Counted` relates the samples that saw coins to `EA` and to where the thread stands. `SightInv` is about `SampleIn`, the longest time until the next sample: as long as the thread counts, no coin that comes now, and none before the sensor that was not sampled yet, can pass within it. It holds as long as two samples without a coin between them are less than `MinDwell` apart and the thread is back from the six reads within `Spacing` (`SightAssumption`); at the delays of the source and a jitter of one tick that is 6 and 23 ticks, the very figures at which the run `sensor` turns from passing to failing. `EndsIn` adds up what is left of the wait, the iteration and the six reads: 23 ticks at most, and none of it is added to when the counting has been stopped. It assumes nothing of the coins |
| `OutputDriverProofs`: `DriverLifecycle` | `TypeCorrect`, `AtMostOneHolder`, `InterruptFindsModule`, `RegistersAreMapped`, `BusyOnlyWithCause` | `LifecycleInv`: a process that holds a key device is the one the interrupt line was given to, and conversely; whoever is inside an open or holds the device keeps the module; and as long as no two processes raced at most one is inside, with the flag set from `OpenTake` to the release. The usage flag plays no part in `AtMostOneHolder` and `InterruptFindsModule`: the exclusive `request_irq` does |
| `OutputDriverProofs`: `OutputDriver` | `OutputImplementsLifecycle`, `OutputTypeCorrect`, `ShowsOnlyItsValue` | every step is one of `DriverLifecycle` or leaves it alone, so all of the above holds of the output drivers. `OutputInv` says, unless two processes raced (`Spoilt`), what each pin is: `todo` is what is left of the stores of the value `shown` (`After`), and the levels of the pins in `stored` are those of an ideal display on which the same stores were made (`Agree`, `LevelsAreIdeal`), so that what the others were at power on does not matter. What the ideal display shows is one lemma per device (`Levels`; `Fits` and `Idle` at rest); a loop's level depends on the place in its body alone, by `Loop`'s quotient and remainder. During an open the outputs are the pins selected so far (`SelectedSoFar`) and perhaps some that were outputs before; an input is dark (`InputsAreDark`), so less is lit than at rest, and when all are selected they are all outputs (`AllSelected`). Assumes `NoneAssumption`, `OutputAssumption`, `MarkAssumption` |
| `DotReportProofs` | `ReportTypes`, `ReportStoresInBounds`, `ReportWindows`, `ReportReads`, `ReportIsFinite` | measuring and splitting each divide a number by 10 until nothing is left. Neither loop's count is a formula of the number; instead `ReportInv` says that there is a chain of numbers, each the tenth of the one before, of which the first loop has seen the first ones (`Divided`), that it has `size[p]` members when that loop has ended (`HasDigits`), and that the second loop goes down the same chain (`LeftAfter`): as long as something is left there are digits measured that are not split off (`SplitChain`). The index `n` is the number of digits split off, and one less than the number still to be stored. The text is then as long as the parts stored and what is stored of this one (`StoreInv`), and what `malloc` adds is what the fixed glyphs of the report need (`ReportParts`). That the text is also the right one is `TextInv`: what was split off are the digits of the number by place, last one first, and the text is that of the parts before (`Preceding`), the glyphs before the number and the digits stored so far. It follows from the same chain: its members are the quotients by the powers of ten (`ChainPowers`), by induction over the digits, so that it ends where `DecimalLength` does (`DigitsAreLength`). `StepsLeft` adds up the digits to measure, to split and to store and the columns to scroll by; a tenth has one digit less (`LengthOfTenth`), which is why each step counts. Assumes `CountsAssumption` |
| `GpioPinsProofs` | `TypeCorrect`, `PinsOfMainConfigured`, `OneSensorAtLeast` | `PinsInv`: the updates left of an open of `main` are the tail of its list, clearing before setting for each pin, and the pins before them are done; a word that a sensor thread has loaded agrees with the registers on the pins of `main`, since only `main` changes those and it is idle once the threads exist; what `main` loads agrees with the whole register, since it is alone then. `SurvivorInv` is about sensors 2 and 3: while only one of them has cleared its pin, that pin is clear in the register and in the word it loaded; once both have, each of these has one of the two pins clear, because a store either clears a pin or writes back a word of which this was true. Assumes `BootsAssumption` |
| `TcpEchoProofs` | `BuffersSuffice`, `EchoOrdered`, `NobodyWaitsInVain`, `WaitsAreFinite` | `EchoInv`: messages and streams are sequences of bytes, the server holds bytes only between its read and its write, and a connection is reset only by a client that has gone; then each step moves a piece from the tail of one part of what was sent to the next. `WaitInv` adds that the server has a piece whenever it writes, outlives its client, and that a line just sent is longer than what can have been shown of it; so with `EchoOrdered` something is on its way to a client that waits. `WorkLeft` bounds the steps of the server by the bytes in the stream to it and in its hands. Assumes `EchoAssumption` |

`KeyDriverProofs` and `OutputDriverProofs` each hold the proofs of two modules: these share
`KeyPoll`, or one is built on the other, and so are their lemmas.

Only model-checked:

- Liveness (`VisiblePressIsReported`, `CountingEnds`, `VisiblePressStopsCounting`,
  `ReportEnds`, `VisiblePressIsShown`, `LedGoesOff`, `ReplyComes`, `ServerEnds`): fairness is
  beyond the prover. What of it is safety is proved, but for `LedGoesOff`: a press is kept until
  it is reported, stops the counting or is shown (`KeptIsReported`, `PressIsKeptUntilStopped`,
  `PressIsKeptUntilShown`); once the counting is stopped a sensor thread has at most an iteration
  before it (`EndsInTime`); each step of a report leaves one step less, out of a number that is
  known from the start (`ReportIsFinite`); a client that waits has a reply coming, from a server
  that has finitely many steps to do without it (`NobodyWaitsInVain`, `WaitsAreFinite`).

`DotReport` takes the counts of a report as fixed; that they are is `MenuReadsFinalCounts`.

Induction over the natural numbers is done without the induction theorem of the library,
whose parameter is an operator: `SetInduction` states it for a set, and follows from the
library's theorem that a well-founded order has smallest elements. By it a recursive
function definition can be unfolded too (`PowersDefined`).

## Limits

- Properties of `coin` speak of two sensor threads; the theorems cover any number.
- The delays of `CoinSensor` are in ticks of 50 ms and assume that a wait ends at
  most one tick late. The source gives no bound; a busier system misses coins.
- Memory is taken to be sequentially consistent, on several cores: every access of
  the models is one of an aligned word, in the order of the source.
- The set and clear registers of the pins read as 0, so that `|=` on them stores the
  mask alone, and `char` is unsigned (as the compilers for this processor have it).
- A pin whose function is input is taken to light nothing: what the circuit of a
  display shows while a pin of it floats is not in the source.
- Signals other than the end of the process, memory that runs out in `malloc`,
  and the `printk` and `printf` output are left out.

## Plan

In this order:

1. `key_led` with open and release, by composing `KeyLed` with `DriverLifecycle` as
   `OutputDriver` does.
2. The refinement of the abstract latch by the key demonstration, where the count that is
   shown takes the place of the reports.
3. `CoinMachine` with the opens of `GpioPins`, so that a sensor that lost its pin is
   one that never sees a coin.
