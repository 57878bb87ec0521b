--------------------------- MODULE KeyPollProofs ---------------------------
(***************************************************************************)
(* The typing invariant of the key drivers and poll(2), one lemma for each *)
(* step, for the specifications that are built from them.                  *)
(***************************************************************************)
EXTENDS KeyPoll, TLAPS

USE NKeysAssumption

\* A poll call record has the fields of NotPolling.
LEMMA NotPollingType == NotPolling \in PollCall
  BY DEF NotPolling, PollCall, Keys

\* The typing invariant, with the lists that Head and Tail are applied to.
KeyTypeInv == KeyTypeOK /\ PassOK

\* What is left of a non-empty list of keys is a list of keys.
LEMMA HeadTailType ==
  ASSUME NEW list \in Seq(Keys), list # <<>>
  PROVE  Head(list) \in Keys /\ Tail(list) \in Seq(Keys)
  OBVIOUS

\* The drivers start with their types.
LEMMA KeyInitType == KeyInit => KeyTypeInv
  BY NotPollingType DEF KeyInit, KeyTypeInv, KeyTypeOK, PassOK, NotPolling

\* A step that leaves the drivers alone keeps their types.
LEMMA KeyStutterType ==
  ASSUME KeyTypeInv, UNCHANGED keyVars
  PROVE  KeyTypeInv'
  BY DEF KeyTypeInv, KeyTypeOK, PassOK, keyVars

\* The wake-up of the interrupt handler keeps the types.
LEMMA IsrWakeType ==
  ASSUME KeyTypeInv, NEW k \in Keys, IsrWake(k)
  PROVE  KeyTypeInv'
  BY ZenonT(40) DEF KeyTypeInv, KeyTypeOK, PassOK, IsrWake, PollCall

\* ++event_flag keeps the types.
LEMMA IsrCountType ==
  ASSUME KeyTypeInv, NEW k \in Keys, IsrCount(k)
  PROVE  KeyTypeInv'
  BY DEF KeyTypeInv, KeyTypeOK, PassOK, IsrCount

\* A call of poll(2) on a non-empty list of keys keeps the types.
LEMMA PollEnterType ==
  ASSUME KeyTypeInv, NEW t \in Threads, NEW keys \in Seq(Keys), keys # <<>>,
         PollEnter(t, keys)
  PROVE  KeyTypeInv'
  BY DEF KeyTypeInv, KeyTypeOK, PassOK, PollEnter, NotPolling, PollCall

\* The test half of key_poll keeps the types.
LEMMA KeyPollTestType ==
  ASSUME KeyTypeInv, NEW t \in Threads, KeyPollTest(t)
  PROVE  KeyTypeInv'
<1> USE DEF KeyTypeInv, KeyTypeOK, PassOK
<1> DEFINE k == Head(call[t].todo)
           c == [call[t] EXCEPT
                   !.phase = "clear",
                   !.waiting = call[t].waiting \cup {k},
                   !.ready = IF eventFlag[k] THEN call[t].ready \cup {k}
                             ELSE call[t].ready]
<1>1. call' = [call EXCEPT ![t] = c]
  BY DEF KeyPollTest
<1>2. k \in Keys
  BY HeadTailType DEF KeyPollTest, PollCall
<1>3. c \in PollCall
  BY <1>2 DEF PollCall
<1>4. c.fds = call[t].fds /\ c.todo = call[t].todo
  BY DEF PollCall
<1> HIDE DEF c
<1>5. QED
  BY <1>1, <1>3, <1>4 DEF KeyPollTest

\* The clearing half of key_poll keeps the types, and goes on only with a key left.
LEMMA KeyPollClearType ==
  ASSUME KeyTypeInv, NEW t \in Threads, KeyPollClear(t)
  PROVE  KeyTypeInv'
<1> USE DEF KeyTypeInv, KeyTypeOK, PassOK
<1> DEFINE rest == Tail(call[t].todo)
           c == [call[t] EXCEPT !.todo = rest,
                   !.phase = IF rest # <<>> THEN "test"
                             ELSE IF call[t].ready # {} \/ call[t].timedOut
                                  THEN "done" ELSE "asleep"]
<1>1. call' = [call EXCEPT ![t] = c]
  BY DEF KeyPollClear
<1>2. rest \in Seq(Keys)
  BY HeadTailType DEF KeyPollClear, PollCall
<1>3. c \in PollCall
  BY <1>2 DEF PollCall
<1>4. /\ c.fds = call[t].fds
      /\ c.phase \in {"test", "clear"} => c.todo # <<>>
  BY DEF PollCall
<1>5. eventFlag' \in [Keys -> BOOLEAN]
  BY DEF KeyPollClear
<1> HIDE DEF c
<1>6. QED
  BY <1>1, <1>3, <1>4, <1>5 DEF KeyPollClear

\* A pass after a wake-up or a timeout begins with the whole list.
LEMMA AnotherPassType ==
  ASSUME KeyTypeInv, NEW t \in Threads, NEW late \in BOOLEAN, AnotherPass(t, late)
  PROVE  KeyTypeInv'
<1> USE DEF KeyTypeInv, KeyTypeOK, PassOK
<1> DEFINE c == [call[t] EXCEPT !.phase = "test", !.todo = call[t].fds,
                                !.triggered = FALSE, !.timedOut = late]
<1>1. call' = [call EXCEPT ![t] = c] /\ call[t].phase = "asleep"
  BY DEF AnotherPass
<1>2. c \in PollCall
  BY DEF PollCall
<1>3. c.fds = call[t].fds /\ c.todo = call[t].fds
  BY DEF PollCall
<1> HIDE DEF c
<1>4. QED
  BY <1>1, <1>2, <1>3 DEF AnotherPass

\* Every step inside poll(2) keeps the types.
LEMMA PollStepType ==
  ASSUME KeyTypeInv, NEW t \in Threads, PollStep(t)
  PROVE  KeyTypeInv'
  BY KeyPollTestType, KeyPollClearType, AnotherPassType
  DEF PollStep, PollWoken, PollTimeout

\* The return of poll(2) keeps the types.
LEMMA PollReturnType ==
  ASSUME KeyTypeInv, NEW t \in Threads, PollReturn(t)
  PROVE  KeyTypeInv'
  BY NotPollingType DEF KeyTypeInv, KeyTypeOK, PassOK, PollReturn, NotPolling

----------------------------------------------------------------------------
(* An event that is kept stays so until a call returns it.                 *)

\* A thread outside poll(2) holds nothing.
IdleOK == \A t \in Threads : call[t].phase = "idle" => call[t].ready = {}

\* It is so at first, ...
LEMMA KeyInitIdle == KeyInit => IdleOK
  BY DEF KeyInit, IdleOK, NotPolling

\* ... and after every step.
LEMMA KeyStepIdle ==
  ASSUME KeyTypeInv, IdleOK,
         \/ \E k \in Keys : IsrWake(k) \/ IsrCount(k)
         \/ \E t \in Threads : PollStep(t) \/ PollReturn(t) \/ \E keys : PollEnter(t, keys)
         \/ UNCHANGED keyVars
  PROVE  IdleOK'
<1> USE DEF IdleOK, KeyTypeInv, KeyTypeOK
<1>1. ASSUME NEW k \in Keys, IsrWake(k) \/ IsrCount(k) PROVE IdleOK'
  <2>1. \A t \in Threads : call'[t].phase = call[t].phase /\ call'[t].ready = call[t].ready
    BY <1>1 DEF IsrWake, IsrCount, PollCall
  <2>2. QED
    BY <2>1
<1>2. ASSUME NEW t \in Threads, PollStep(t) PROVE IdleOK'
  <2>1. CASE KeyPollTest(t)
    BY <2>1 DEF KeyPollTest, PollCall
  <2>2. CASE KeyPollClear(t)
    BY <2>2 DEF KeyPollClear, PollCall
  <2>3. ASSUME NEW late, AnotherPass(t, late) PROVE IdleOK'
    BY <2>3 DEF AnotherPass, PollCall
  <2>4. QED
    BY <1>2, <2>1, <2>2, <2>3 DEF PollStep, PollWoken, PollTimeout
<1>3. ASSUME NEW t \in Threads, PollReturn(t) PROVE IdleOK'
  BY <1>3 DEF PollReturn, NotPolling
<1>4. ASSUME NEW t \in Threads, NEW keys, PollEnter(t, keys) PROVE IdleOK'
  BY <1>4 DEF PollEnter, NotPolling
<1>5. CASE UNCHANGED keyVars
  BY <1>5 DEF keyVars
<1>6. QED
  BY <1>1, <1>2, <1>3, <1>4, <1>5

\* A step of a handler leaves it as it is.
LEMMA IsrKeeps ==
  ASSUME KeyTypeInv, NEW j \in Keys, Kept(j), NEW k \in Keys, IsrWake(k) \/ IsrCount(k)
  PROVE  Kept(j)'
<1>1. ASSUME NEW t \in Threads
      PROVE  /\ call'[t].phase = call[t].phase /\ call'[t].todo = call[t].todo
             /\ call'[t].ready = call[t].ready
  BY DEF KeyTypeInv, KeyTypeOK, PollCall, IsrWake, IsrCount
<1>2. eventFlag[j] => eventFlag'[j]
  BY DEF KeyTypeInv, KeyTypeOK, IsrWake, IsrCount
<1>3. QED
  BY <1>1, <1>2 DEF Kept, Visible, AboutToLose

\* So does a call that begins a pass: its first step is a test.
LEMMA PassKeeps ==
  ASSUME KeyTypeInv, NEW j \in Keys, Kept(j), NEW t \in Threads,
         \/ \E keys : PollEnter(t, keys) /\ IdleOK
         \/ \E late : AnotherPass(t, late)
  PROVE  Kept(j)'
<1>1. call'[t].phase = "test" /\ call[t].ready \subseteq call'[t].ready
  <2>1. ASSUME NEW keys, PollEnter(t, keys), IdleOK
        PROVE  call'[t].phase = "test" /\ call[t].ready = {}
    BY <2>1 DEF KeyTypeInv, KeyTypeOK, PollEnter, NotPolling, IdleOK
  <2>2. ASSUME NEW late, AnotherPass(t, late)
        PROVE  call'[t].phase = "test" /\ call'[t].ready = call[t].ready
    BY <2>2 DEF KeyTypeInv, KeyTypeOK, PollCall, AnotherPass
  <2>3. QED
    BY <2>1, <2>2, Zenon
<1>2. /\ \A u \in Threads \ {t} : call'[u] = call[u]
      /\ eventFlag' = eventFlag
  BY DEF KeyTypeInv, KeyTypeOK, PollEnter, AnotherPass
<1>3. QED
  BY <1>1, <1>2 DEF Kept, Visible, AboutToLose

\* The test of a visible event puts it into revents, before this thread clears it.
LEMMA TestKeeps ==
  ASSUME KeyTypeInv, NEW j \in Keys, Kept(j), NEW t \in Threads, KeyPollTest(t)
  PROVE  Kept(j)'
<1>1. /\ call[t].ready \subseteq call'[t].ready /\ call'[t].todo = call[t].todo
      /\ Head(call[t].todo) = j /\ eventFlag[j] => j \in call'[t].ready
  BY DEF KeyTypeInv, KeyTypeOK, PollCall, KeyPollTest
<1>2. /\ \A u \in Threads \ {t} : call'[u] = call[u]
      /\ eventFlag' = eventFlag
  BY DEF KeyTypeInv, KeyTypeOK, KeyPollTest
<1>3. QED
  BY <1>1, <1>2 DEF Kept, Visible, AboutToLose

\* A thread that clears a visible event has it in its revents.
LEMMA ClearKeeps ==
  ASSUME KeyTypeInv, NEW j \in Keys, Kept(j), NEW t \in Threads, KeyPollClear(t)
  PROVE  Kept(j)'
<1>1. /\ call'[t].ready = call[t].ready /\ call'[t].phase # "clear"
      /\ call[t].phase = "clear"
  BY DEF KeyTypeInv, KeyTypeOK, PollCall, KeyPollClear
<1>2. /\ \A u \in Threads \ {t} : call'[u] = call[u]
      /\ Head(call[t].todo) # j => eventFlag'[j] = eventFlag[j]
  BY DEF KeyTypeInv, KeyTypeOK, KeyPollClear
<1>3. \A u \in Threads : call'[u].ready = call[u].ready
  BY <1>1, <1>2
<1>4. QED
  BY <1>1, <1>2, <1>3 DEF Kept, Visible, AboutToLose

\* The return of a call ends an event only if it is in the call's revents.
LEMMA ReturnKeeps ==
  ASSUME KeyTypeInv, NEW j \in Keys, Kept(j), NEW t \in Threads, PollReturn(t),
         j \notin call[t].ready
  PROVE  Kept(j)'
<1>1. call'[t].phase = "idle"
  BY DEF KeyTypeInv, KeyTypeOK, PollReturn, NotPolling
<1>2. /\ \A u \in Threads \ {t} : call'[u] = call[u]
      /\ eventFlag' = eventFlag
  BY DEF KeyTypeInv, KeyTypeOK, PollReturn
<1>3. QED
  BY <1>1, <1>2 DEF Kept, Visible, AboutToLose

\* Every step inside poll(2).
LEMMA PollStepKeeps ==
  ASSUME KeyTypeInv, NEW j \in Keys, Kept(j), NEW t \in Threads, PollStep(t)
  PROVE  Kept(j)'
  BY PassKeeps, TestKeeps, ClearKeeps DEF PollStep, PollWoken, PollTimeout

\* What leaves the drivers alone.
LEMMA KeyStutterKeeps ==
  ASSUME NEW j \in Keys, Kept(j), UNCHANGED keyVars
  PROVE  Kept(j)'
  BY DEF Kept, Visible, AboutToLose, keyVars
=============================================================================
