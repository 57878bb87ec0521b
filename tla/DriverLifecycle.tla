-------------------------- MODULE DriverLifecycle --------------------------
(***************************************************************************)
(* Opening and releasing a device, by any number of processes: one method  *)
(* for all drivers of the repository.  The usage flag is tested and set    *)
(* without a lock, a failed open leaves it set, and a release gives up the *)
(* flag first, then the register mapping and last, in a driver that has    *)
(* one, the interrupt; so the steps of open and release are actions of     *)
(* their own.  The module can be removed and loaded again, which starts    *)
(* its variables anew.                                                     *)
(***************************************************************************)
EXTENDS Naturals

CONSTANTS
  Procs,   \* the processes that use the device
  None     \* no process

ASSUME NoneAssumption == None \notin Procs

VARIABLES
  interrupt,  \* the driver is one that requests an interrupt: a key driver
  loaded,     \* the module is loaded, and its major number registered
  usage,      \* 1 from the middle of an open to the start of a release
  regs,       \* the process whose ioremap the register pointer is from
  live,       \* the processes whose mapping is not unmapped
  irq,        \* the process whose request_irq the line is from
  handler,    \* the interrupt handler is about to read the registers
  pc,         \* where each process is
  failed,     \* history: an open failed after it took the flag
  raced       \* history: an open passed the test while another process was between
              \* that test and the setting of the flag, or still in its release

vars == <<interrupt, loaded, usage, regs, live, irq, handler, pc, failed, raced>>

Init ==
  /\ interrupt \in BOOLEAN
  /\ loaded = TRUE
  /\ usage = 0
  /\ regs = None
  /\ live = {}
  /\ irq = None
  /\ handler = FALSE
  /\ pc = [p \in Procs |-> "closed"]
  /\ failed = FALSE
  /\ raced = FALSE

Go(p, from, to) ==
  /\ pc[p] = from
  /\ pc' = [pc EXCEPT ![p] = to]
  /\ UNCHANGED interrupt

----------------------------------------------------------------------------
(* open. *)

\* An open that passes the test now races another process, or joins some that
\* raced.
Races ==
  \/ \E q \in Procs : pc[q] \in {"take", "unmap", "free"}
  \/ raced /\ \E q \in Procs : pc[q] # "closed"

\* Mutant: the flag is not tested.
OpenUntested(p) ==
  /\ loaded
  /\ Go(p, "closed", "take")
  /\ raced' = Races
  /\ UNCHANGED <<loaded, usage, regs, live, irq, handler, failed>>

\* if (key_usage != 0) return -EBUSY;
OpenTest(p) ==
  /\ loaded
  /\ usage = 0
  /\ Go(p, "closed", "take")
  /\ raced' = Races
  /\ UNCHANGED <<loaded, usage, regs, live, irq, handler, failed>>

\* Mutant: the flag counts the opens.
OpenTakeCounts(p) ==
  /\ Go(p, "take", "map")
  /\ usage' = usage + 1
  /\ UNCHANGED <<loaded, regs, live, irq, handler, failed, raced>>

OpenTake(p) ==
  /\ Go(p, "take", "map")
  /\ usage' = 1
  /\ UNCHANGED <<loaded, regs, live, irq, handler, failed, raced>>

\* ioremap succeeds, and the pointer is set.
OpenMap(p) ==
  /\ Go(p, "map", "configure")
  /\ regs' = p
  /\ live' = live \cup {p}
  /\ UNCHANGED <<loaded, usage, irq, handler, failed, raced>>

\* ioremap fails: -EBUSY, and the flag stays set.
OpenMapFails(p) ==
  /\ Go(p, "map", "closed")
  /\ failed' = TRUE
  /\ UNCHANGED <<loaded, usage, regs, live, irq, handler, raced>>

\* The pins are configured through the pointer, and a driver without an
\* interrupt has opened.
OpenPins(p) ==
  /\ regs \in live
  /\ Go(p, "configure", IF interrupt THEN "request" ELSE "open")
  /\ UNCHANGED <<loaded, usage, regs, live, irq, handler, failed, raced>>

\* A release has unmapped them: the kernel kills the process inside open, which
\* never gives back the flag, nor its reference to the module.
OpenFaults(p) ==
  /\ regs \notin live
  /\ Go(p, "configure", "dead")
  /\ failed' = TRUE
  /\ UNCHANGED <<loaded, usage, regs, live, irq, handler, raced>>

\* Mutant: request_irq with IRQF_SHARED.
OpenRequestShared(p) ==
  /\ Go(p, "request", "open")
  /\ irq' = p
  /\ UNCHANGED <<loaded, usage, regs, live, handler, failed, raced>>

\* The line is not shared: only one request_irq for it succeeds.
OpenRequest(p) ==
  /\ irq = None
  /\ Go(p, "request", "open")
  /\ irq' = p
  /\ UNCHANGED <<loaded, usage, regs, live, handler, failed, raced>>

\* request_irq fails, because the line is taken or for lack of resources: the flag
\* stays set and the mapping stays.
OpenRequestFails(p) ==
  /\ Go(p, "request", "closed")
  /\ failed' = TRUE
  /\ UNCHANGED <<loaded, usage, regs, live, irq, handler, raced>>

----------------------------------------------------------------------------
(* release. *)

\* Mutant: the flag is not given back.
ReleaseUsageForgotten(p) ==
  /\ Go(p, "open", "unmap")
  /\ UNCHANGED <<loaded, usage, regs, live, irq, handler, failed, raced>>

ReleaseUsage(p) ==
  /\ Go(p, "open", "unmap")
  /\ usage' = 0
  /\ UNCHANGED <<loaded, regs, live, irq, handler, failed, raced>>

\* iounmap of what the pointer points to by now; the pointer itself stays.
ReleaseUnmap(p) ==
  /\ Go(p, "unmap", IF interrupt THEN "free" ELSE "closed")
  /\ live' = live \ {regs}
  /\ UNCHANGED <<loaded, usage, regs, irq, handler, failed, raced>>

\* free_irq waits for a handler that runs.
ReleaseFree(p) ==
  /\ ~handler
  /\ Go(p, "free", "closed")
  /\ irq' = None
  /\ UNCHANGED <<loaded, usage, regs, live, handler, failed, raced>>

----------------------------------------------------------------------------
(* The interrupt. *)

Edge ==
  /\ irq # None
  /\ ~handler
  /\ handler' = TRUE
  /\ UNCHANGED <<interrupt, loaded, usage, regs, live, irq, pc, failed, raced>>

\* The handler reads the pin level through the pointer and goes on.
HandlerReads ==
  /\ handler
  /\ handler' = FALSE
  /\ UNCHANGED <<interrupt, loaded, usage, regs, live, irq, pc, failed, raced>>

----------------------------------------------------------------------------
(* The module. *)

\* Mutant: the file operations without .owner, so that an open device does not
\* hold the module.
ExitWithoutOwner ==
  /\ loaded
  /\ loaded' = FALSE
  /\ UNCHANGED <<interrupt, usage, regs, live, irq, handler, pc, failed, raced>>

\* rmmod: refused while a process has the device open or is about to, and for
\* ever after a process died inside open.
Exit ==
  /\ loaded
  /\ \A p \in Procs : pc[p] = "closed"
  /\ loaded' = FALSE
  /\ UNCHANGED <<interrupt, usage, regs, live, irq, handler, pc, failed, raced>>

\* insmod.  When register_chrdev fails the module is not loaded.
Load ==
  /\ ~loaded
  /\ loaded' = TRUE
  /\ usage' = 0
  /\ regs' = None
  /\ failed' = FALSE
  /\ UNCHANGED <<interrupt, live, irq, handler, pc, raced>>

Next ==
  \/ \E p \in Procs :
       \/ OpenTest(p) \/ OpenTake(p) \/ OpenMap(p) \/ OpenMapFails(p)
       \/ OpenPins(p) \/ OpenFaults(p)
       \/ OpenRequest(p) \/ OpenRequestFails(p)
       \/ ReleaseUsage(p) \/ ReleaseUnmap(p) \/ ReleaseFree(p)
  \/ Edge \/ HandlerReads \/ Exit \/ Load

Spec == Init /\ [][Next]_vars

----------------------------------------------------------------------------
\* The values each variable takes; usage is a flag, not a count, also when two
\* opens pass its test (key_driver.c:60-62).
TypeOK ==
  /\ interrupt \in BOOLEAN
  /\ loaded \in BOOLEAN
  /\ usage \in {0, 1}
  /\ regs \in Procs \cup {None}
  /\ live \in SUBSET Procs
  /\ irq \in Procs \cup {None}
  /\ handler \in BOOLEAN
  /\ pc \in [Procs -> {"closed", "take", "map", "configure", "request", "open",
                       "unmap", "free", "dead"}]
  /\ failed \in BOOLEAN
  /\ raced \in BOOLEAN

Holds(p) == pc[p] \in {"open", "unmap", "free"}

\* Although two processes can both find the flag 0, and one can open while
\* another releases, at most one holds a key device, because the interrupt line
\* is requested exclusively and given back last (key_driver.c:60-62, 80, 92-95).
\* It is not so of the drivers without an interrupt.
OneHolder ==
  interrupt => \A p, q \in Procs : Holds(p) /\ Holds(q) => p = q

\* No interrupt reaches a module that was removed: a removal waits for the last
\* release, which has freed the interrupt, also when two opens or an open and a
\* release overlapped (key_driver.c:80, 90-95, 133, 154-158).
HandlerIsLoaded ==
  irq # None \/ handler => loaded

\* A process that opens or has opened the device finds the registers it
\* reads and writes mapped, by its own open, unless two opens passed the test
\* together or one during a release: those are all the windows there are, and they
\* do no harm any more once every process has left (key_driver.c:60-62, 72, 92-94;
\* led_driver.c:43-45, 71-73).
MappedUnlessRaced ==
  ~raced => \A p \in Procs :
              pc[p] \in {"configure", "request", "open", "unmap"} => regs = p /\ p \in live

\* The device is busy only while a process opens it or has it open, or after an
\* open failed once the flag was set: nothing else leaves the flag set, in whatever
\* order opens, releases and loads overlap (key_driver.c:60-88, 92).
BusyHasCause ==
  usage = 1 => failed \/ \E p \in Procs : pc[p] \in {"map", "configure", "request", "open"}

\* The README calls the key drivers correct: the handler finds the registers
\* it reads mapped.  The code unmaps them before it frees the interrupt.
HandlerFindsRegisters ==
  handler => regs \in live
=============================================================================
