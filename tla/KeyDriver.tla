----------------------------- MODULE KeyDriver -----------------------------
(***************************************************************************)
(* The key drivers on their own: threads that call poll(2) for ever, each  *)
(* on its own list of keys, against interrupts at any time.  raised and    *)
(* reports are history variables: they count, and constrain nothing but    *)
(* the number of interrupts, which MaxRaised bounds for model checking.    *)
(***************************************************************************)
EXTENDS KeyPoll

CONSTANTS
  Watch,      \* Watch[t]: the pollfd array thread t passes to poll(2)
  MaxRaised   \* interrupts per key

ASSUME WatchAssumption ==
  /\ Watch \in [Threads -> Seq(Keys)]
  /\ \A t \in Threads : Watch[t] # <<>>

ASSUME MaxRaisedAssumption == MaxRaised \in Nat

VARIABLES
  raised,     \* raised[k]: how often ++event_flag ran
  reports     \* reports[t][k]: how often thread t received POLLIN for key k

vars == <<eventFlag, isr, call, raised, reports>>

Init ==
  /\ KeyInit
  /\ raised = [k \in Keys |-> 0]
  /\ reports = [t \in Threads |-> [k \in Keys |-> 0]]

----------------------------------------------------------------------------
Edge(k) ==
  /\ raised[k] < MaxRaised
  /\ IsrWake(k)
  /\ UNCHANGED <<raised, reports>>

Count(k) ==
  /\ IsrCount(k)
  /\ raised' = [raised EXCEPT ![k] = @ + 1]
  /\ UNCHANGED reports

Enter(t) == PollEnter(t, Watch[t]) /\ UNCHANGED <<raised, reports>>

Poll(t) == PollStep(t) /\ UNCHANGED <<raised, reports>>

Return(t) ==
  /\ PollReturn(t)
  /\ reports' = [reports EXCEPT ![t] =
                   [k \in Keys |-> IF k \in call[t].ready THEN @[k] + 1 ELSE @[k]]]
  /\ UNCHANGED raised

Thread(t) == Enter(t) \/ Poll(t) \/ Return(t)

Next ==
  \/ \E k \in Keys : Edge(k) \/ Count(k)
  \/ \E t \in Threads : Thread(t)

Spec == Init /\ [][Next]_vars

\* Handlers run to completion, threads are scheduled and their timeouts expire.
Fairness ==
  /\ \A k \in Keys : WF_vars(Count(k))
  /\ \A t \in Threads : WF_vars(Thread(t))

FairSpec == Spec /\ Fairness

----------------------------------------------------------------------------
\* The values each variable takes; revents only ever names polled keys.
TypeOK ==
  /\ KeyTypeOK
  /\ raised \in [Keys -> Nat]
  /\ reports \in [Threads -> [Keys -> Nat]]

\* The thread holds an event of key k that it has not returned yet, and the
\* flag it is about to clear is that same event.
Clearing(t, k) == call[t].phase = "clear" /\ Head(call[t].todo) = k

\* A thread never receives more events of a key than its interrupt raised,
\* counting the one in a call under way and the one still pending in
\* event_flag, although test and clear are two unlocked steps that other
\* pollers and the handler interleave with (key_driver.c, key_poll).
PressBudget ==
  \A t \in Threads, k \in Keys :
    LET held == IF k \in call[t].ready THEN 1 ELSE 0
        pending == IF eventFlag[k] /\ ~Clearing(t, k) THEN 1 ELSE 0
    IN  reports[t][k] + held + pending <= raised[k]

\* The drivers with poll(2) implement the abstract latch.
Latch == INSTANCE KeyLatch
ImplementsLatch == Latch!Spec

\* An event that no poller is about to overwrite when it is counted is never lost
\* afterwards: whatever other calls test and clear, it ends only by a call that
\* returns it to its thread (key_driver.c:47-51, key_poll).
KeptUntilReported ==
  [][\A k \in Keys : Kept(k) /\ ~Kept(k)' =>
       \E t \in Threads : reports'[t][k] = reports[t][k] + 1]_vars

Watched(k) == \E t \in Threads : \E i \in DOMAIN Watch[t] : Watch[t][i] = k

\* An event that no poller is about to overwrite is reported to some thread,
\* also when the wake-up came before the increment and found the flag still 0:
\* the pass after the timeout then finds it (key_driver.c:37-38, 47-51).
VisiblePressIsReported ==
  \A k \in Keys :
    Watched(k) /\ Visible(k) ~> \E t \in Threads : k \in call[t].ready
=============================================================================
