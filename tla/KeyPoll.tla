------------------------------ MODULE KeyPoll ------------------------------
(***************************************************************************)
(* The key drivers of receive/ (key_driver.c and its three copies) as      *)
(* poll(2) and the GPIO interrupt see them.  A key keeps one word,         *)
(* event_flag.  The interrupt handler wakes the pollers and then           *)
(* increments it; the poll method tests it and then clears it.  Neither    *)
(* pair is atomic and there is no lock, so all four steps are actions.     *)
(*                                                                         *)
(* Only "event_flag > 0" is ever tested, so the word is its truth value.   *)
(* tmp_buf, the press counter that only key_read returns, is left out:     *)
(* no caller of poll(2) reads it.                                          *)
(*                                                                         *)
(* The poll(2) system call is kernel code, modelled from the way the       *)
(* drivers and their callers use it: passes over the descriptors, a sleep  *)
(* between passes, and one more pass after a timeout.                      *)
(***************************************************************************)
EXTENDS Naturals, Sequences

CONSTANTS
  NKeys,    \* how many key drivers are loaded (4 in receive/Makefile)
  Threads   \* the threads that may be inside poll(2)

ASSUME NKeysAssumption == NKeys \in Nat

Keys == 1 .. NKeys

VARIABLES
  eventFlag,  \* eventFlag[k]: event_flag > 0 in the driver of key k
  isr,        \* isr[k]: where the interrupt handler of key k stands
  call        \* call[t]: the poll(2) call of thread t

keyVars == <<eventFlag, isr, call>>

----------------------------------------------------------------------------
(***************************************************************************)
(* A poll(2) call.  "test" and "clear" are the two halves of key_poll for  *)
(* the first descriptor of todo; waiting holds the keys whose wait queue   *)
(* the thread is on; triggered records a wake-up since the last sleep.     *)
(***************************************************************************)
PollCall == [phase     : {"idle", "test", "clear", "asleep", "done"},
             fds       : Seq(Keys),     \* the pollfd array
             todo      : Seq(Keys),     \* what is left of the current pass
             ready     : SUBSET Keys,   \* revents with POLLIN
             waiting   : SUBSET Keys,
             triggered : BOOLEAN,
             timedOut  : BOOLEAN]

NotPolling == [phase |-> "idle", fds |-> <<>>, todo |-> <<>>, ready |-> {},
               waiting |-> {}, triggered |-> FALSE, timedOut |-> FALSE]

KeyTypeOK ==
  /\ eventFlag \in [Keys -> BOOLEAN]
  /\ isr \in [Keys -> {"idle", "count"}]
  /\ call \in [Threads -> PollCall]

\* The pass over the descriptors never runs off its list.
PassOK ==
  \A t \in Threads :
    /\ call[t].phase # "idle" => call[t].fds # <<>>
    /\ call[t].phase \in {"test", "clear"} => call[t].todo # <<>>

KeyInit ==
  /\ eventFlag = [k \in Keys |-> FALSE]
  /\ isr = [k \in Keys |-> "idle"]
  /\ call = [t \in Threads |-> NotPolling]

----------------------------------------------------------------------------
(* The interrupt handler. *)

\* A falling edge: the handler runs up to and including wake_up_interruptible.
IsrWake(k) ==
  /\ isr[k] = "idle"
  /\ isr' = [isr EXCEPT ![k] = "count"]
  /\ call' = [t \in Threads |->
                [call[t] EXCEPT !.triggered = @ \/ k \in call[t].waiting]]
  /\ UNCHANGED eventFlag

\* ++event_flag, after the wake-up.
IsrCount(k) ==
  /\ isr[k] = "count"
  /\ isr' = [isr EXCEPT ![k] = "idle"]
  /\ eventFlag' = [eventFlag EXCEPT ![k] = TRUE]
  /\ UNCHANGED call

----------------------------------------------------------------------------
(* poll(2) and the drivers' poll method. *)

PollEnter(t, keys) ==
  /\ call[t].phase = "idle"
  /\ call' = [call EXCEPT ![t] =
                [NotPolling EXCEPT !.phase = "test", !.fds = keys, !.todo = keys]]
  /\ UNCHANGED <<eventFlag, isr>>

\* Mutant: revents is stored one entry too early.
KeyPollTestWrongEntry(t) ==
  LET k == Head(call[t].todo) IN
  /\ call[t].phase = "test"
  /\ call' = [call EXCEPT ![t] =
                [call[t] EXCEPT !.phase = "clear",
                                !.waiting = @ \cup {k},
                                !.ready = IF eventFlag[k] THEN @ \cup {k - 1} ELSE @]]
  /\ UNCHANGED <<eventFlag, isr>>

\* Mutant: event_flag = 0 comes before the test.
KeyPollTestCleared(t) ==
  LET k == Head(call[t].todo) IN
  /\ call[t].phase = "test"
  /\ eventFlag' = [eventFlag EXCEPT ![k] = FALSE]
  /\ call' = [call EXCEPT ![t] =
                [call[t] EXCEPT !.phase = "clear", !.waiting = @ \cup {k}]]
  /\ UNCHANGED isr

\* poll_wait, then the test of event_flag.
KeyPollTest(t) ==
  LET k == Head(call[t].todo) IN
  /\ call[t].phase = "test"
  /\ call' = [call EXCEPT ![t] =
                [call[t] EXCEPT !.phase = "clear",
                                !.waiting = @ \cup {k},
                                !.ready = IF eventFlag[k] THEN @ \cup {k} ELSE @]]
  /\ UNCHANGED <<eventFlag, isr>>

\* Mutant: the poll method does not reset event_flag.
KeyPollClearForgotten(t) ==
  LET rest == Tail(call[t].todo) IN
  /\ call[t].phase = "clear"
  /\ call' = [call EXCEPT ![t] =
                [call[t] EXCEPT !.todo = rest,
                                !.phase = IF rest # <<>> THEN "test"
                                          ELSE IF call[t].ready # {} \/ call[t].timedOut
                                               THEN "done" ELSE "asleep"]]
  /\ UNCHANGED <<eventFlag, isr>>

\* event_flag = 0, whatever was tested; the last one of a pass decides
\* whether the call returns or sleeps.
KeyPollClear(t) ==
  LET rest == Tail(call[t].todo) IN
  /\ call[t].phase = "clear"
  /\ eventFlag' = [eventFlag EXCEPT ![Head(call[t].todo)] = FALSE]
  /\ call' = [call EXCEPT ![t] =
                [call[t] EXCEPT !.todo = rest,
                                !.phase = IF rest # <<>> THEN "test"
                                          ELSE IF call[t].ready # {} \/ call[t].timedOut
                                               THEN "done" ELSE "asleep"]]
  /\ UNCHANGED isr

AnotherPass(t, late) ==
  /\ call[t].phase = "asleep"
  /\ call' = [call EXCEPT ![t] =
                [call[t] EXCEPT !.phase = "test",
                                !.todo = call[t].fds,
                                !.triggered = FALSE,
                                !.timedOut = late]]
  /\ UNCHANGED <<eventFlag, isr>>

PollWoken(t) == call[t].triggered /\ AnotherPass(t, FALSE)

PollTimeout(t) == AnotherPass(t, TRUE)

\* The call returns to its caller, which has read revents.
PollReturn(t) ==
  /\ call[t].phase = "done"
  /\ call' = [call EXCEPT ![t] = NotPolling]
  /\ UNCHANGED <<eventFlag, isr>>

PollStep(t) ==
  KeyPollTest(t) \/ KeyPollClear(t) \/ PollWoken(t) \/ PollTimeout(t)

----------------------------------------------------------------------------
\* Thread t has seen no event of key k and is about to clear its flag: an
\* event raised now is lost.
AboutToLose(t, k) ==
  /\ call[t].phase = "clear"
  /\ Head(call[t].todo) = k
  /\ k \notin call[t].ready

\* An event of key k that no poller is about to overwrite.
Visible(k) == eventFlag[k] /\ \A t \in Threads : ~AboutToLose(t, k)

\* An event of key k that the drivers have kept: it is visible, or in the revents
\* of a call.
Kept(k) == Visible(k) \/ \E t \in Threads : k \in call[t].ready
=============================================================================
