------------------------- MODULE CoinMachineProofs -------------------------
(***************************************************************************)
(* What is proved about the coin machine, for every set of sensor threads  *)
(* and any number of keys and coins: first its states, then that it is a   *)
(* coin session, and last that no interrupt makes it act twice.            *)
(***************************************************************************)
EXTENDS CoinMachineHistory, KeyPollProofs, SequenceTheorems

USE NKeysAssumption, MachineAssumption

\* The typing invariant, with the lists that Head and Tail are applied to.
TypeInv == TypeOK /\ PassOK

\* The keys a thread polls are keys of loaded drivers.
LEMMA FdsType ==
  /\ <<Key1>> \in Seq(Keys) /\ <<Key1>> # <<>>
  /\ <<Key2>> \in Seq(Keys) /\ <<Key2>> # <<>>
  /\ MenuFds \in Seq(Keys) /\ MenuFds # <<>>
<1>1. Key1 \in Keys /\ Key2 \in Keys
  BY DEF Keys, Key1, Key2
<1>2. MenuFds \in Seq(Keys)
  BY SeqDef DEF MenuFds, Keys
<1>3. MenuFds[1] = 1 /\ DOMAIN MenuFds = 1 .. NKeys
  BY DEF MenuFds
<1>4. MenuFds # <<>>
  BY <1>3
<1>5. QED
  BY <1>1, <1>2, <1>4

\* The machine starts with its types.
LEMMA InitTypeInv == Init => TypeInv
<1>1. Init => KeyTypeOK /\ PassOK
  BY KeyInitType DEF Init, KeyTypeInv
<1>2. Init => motFd \in BOOLEAN /\ dotFd \in BOOLEAN
  BY Zenon DEF Init
<1>3. Init => TypeOK
  BY <1>1, <1>2 DEF Init, TypeOK
<1>4. QED
  BY <1>1, <1>3 DEF TypeInv

\* The end of the process, by exit or by kill, keeps the types.
LEMMA ProcessGoneType ==
  ASSUME TypeInv, ProcessGone
  PROVE  TypeInv'
<1>1. KeyTypeOK' /\ PassOK'
  BY NotPollingType DEF TypeInv, TypeOK, KeyTypeOK, PassOK, ProcessGone, NotPolling
<1>2. motFd' \in BOOLEAN /\ dotFd' \in BOOLEAN
  BY Zenon DEF ProcessGone, NoProcess
<1>3. TypeOK'
  BY <1>1, <1>2 DEF TypeInv, TypeOK, ProcessGone, NoProcess
<1>4. QED
  BY <1>1, <1>3 DEF TypeInv

\* Every step keeps the types, one case per action.
LEMMA NextTypeInv == TypeInv /\ [Next]_vars => TypeInv'
<1> SUFFICES ASSUME TypeInv, [Next]_vars PROVE TypeInv'
  OBVIOUS
<1> USE DEF TypeInv, TypeOK, KeyTypeInv, appVars
<1>1. ASSUME NEW k \in Keys, Edge(k) PROVE TypeInv'
  BY <1>1, IsrWakeType DEF Edge
<1>2. ASSUME NEW k \in Keys, Count(k) PROVE TypeInv'
  BY <1>2, IsrCountType DEF Count
<1>3. CASE Launch
  BY <1>3, KeyStutterType DEF Launch
<1>4. CASE PreparePoll
  BY <1>4, PollEnterType, FdsType DEF PreparePoll
<1>5. CASE PrepareReturn
  BY <1>5, PollReturnType DEF PrepareReturn
<1>6. CASE OpenDevices
  BY <1>6, KeyStutterType DEF OpenDevices
<1>7. CASE Spawn
  BY <1>7, KeyStutterType DEF Spawn
<1>8. CASE MotorOn
  BY <1>8, KeyStutterType DEF MotorOn, motor_write
<1>9. CASE Join
  BY <1>9, KeyStutterType DEF Join
<1>10. CASE MotorOff
  BY <1>10, KeyStutterType DEF MotorOff, motor_write
<1>11. CASE MenuPoll
  BY <1>11, PollEnterType, FdsType DEF MenuPoll
<1>12. CASE MenuOff
  BY <1>12, PollReturnType DEF MenuOff
<1>13. ASSUME NEW k \in Keys, MenuShow(k) PROVE TypeInv'
  <2> DEFINE c == [call[Main] EXCEPT !.ready = call[Main].ready \ {k}]
  <2>1. call' = [call EXCEPT ![Main] = c]
    BY <1>13 DEF MenuShow
  <2>2. Main \in Threads /\ call[Main] \in PollCall
    BY DEF KeyTypeOK
  <2>3. c \in PollCall
    BY <2>2 DEF PollCall
  <2>4. c.phase = call[Main].phase /\ c.fds = call[Main].fds /\ c.todo = call[Main].todo
    BY <2>2 DEF PollCall
  <2> HIDE DEF c
  <2>5. \A t \in Threads : call'[t] = IF t = Main THEN c ELSE call[t]
    BY <2>1, <2>2 DEF KeyTypeOK
  <2>6. KeyTypeOK'
    BY <1>13, <2>1, <2>2, <2>3, SMTT(30) DEF MenuShow, KeyTypeOK
  <2>7. PassOK'
    BY <2>2, <2>4, <2>5 DEF PassOK
  <2>8. QED
    BY <1>13, <2>6, <2>7 DEF MenuShow
<1>14. CASE MenuNext
  BY <1>14, PollReturnType DEF MenuNext
<1>15. CASE Exit \/ PollError \/ Kill
  BY <1>15, ProcessGoneType DEF Exit, PollError, Kill
<1>16. ASSUME NEW t \in Threads, Poll(t) PROVE TypeInv'
  BY <1>16, PollStepType DEF Poll
<1>17. ASSUME NEW s \in Sensors, SensorHead(s) PROVE TypeInv'
  BY <1>17, KeyStutterType DEF SensorHead
<1>18. ASSUME NEW s \in Sensors, SensorRead(s) PROVE TypeInv'
  BY <1>18, PollEnterType, FdsType DEF SensorRead
<1>19. ASSUME NEW s \in Sensors, SensorCount(s) PROVE TypeInv'
  BY <1>19, KeyStutterType DEF SensorCount
<1>20. ASSUME NEW s \in Sensors, SensorDecide(s) PROVE TypeInv'
  BY <1>20, PollReturnType DEF SensorDecide
<1>21. CASE UNCHANGED vars
  BY <1>21, KeyStutterType DEF vars
<1>22. QED
  BY <1>1, <1>2, <1>3, <1>4, <1>5, <1>6, <1>7, <1>8, <1>9, <1>10, <1>11,
     <1>12, <1>13, <1>14, <1>15, <1>16, <1>17, <1>18, <1>19, <1>20, <1>21
  DEF Next, MainStep, SensorStep

\* The state of program and drivers always has its type.
THEOREM TypeCorrect == Spec => []TypeOK
<1>1. TypeInv => TypeOK
  BY DEF TypeInv
<1>2. QED
  BY <1>1, InitTypeInv, NextTypeInv, PTL DEF Spec

----------------------------------------------------------------------------
(* Where main stands against mac_state, the threads and their counts.      *)

\* Threads exist only while main turns the motor on or joins.
ThreadsOnlyInJoin ==
  mainPc \notin {"motorOn", "join"} => \A s \in Sensors : sensPc[s] = "none"

\* Only while threads run is mac_state not main's alone.
StateMatchesMain ==
  /\ mainPc \in {"off", "prepare"} => mac_state = 0
  /\ mainPc = "open" => mac_state = 1
  /\ mainPc \in {"spawn", "motorOn", "join"} => mac_state \in {1, 2}
  /\ mainPc \in {"menu", "exit"} => mac_state = 2

\* A thread exits only after mac_state was set to 2.
ExitedMeansStopped ==
  \A s \in Sensors : sensPc[s] = "exited" => mac_state = 2

\* The counts are 0 until a thread runs.
NothingCountedYet ==
  mainPc \in {"off", "prepare", "open"} \/ (mainPc = "spawn" /\ mac_state = 1)
    => \A s \in Sensors : EA[s] = 0

\* All of it together: it is inductive.
CoreInv ==
  /\ TypeInv
  /\ ThreadsOnlyInJoin
  /\ StateMatchesMain
  /\ ExitedMeansStopped
  /\ NothingCountedYet
  /\ MotorOffInMenu

\* No process runs at first, so there is nothing to relate yet.
LEMMA InitCoreInv == Init => CoreInv
  BY InitTypeInv
  DEF Init, CoreInv, ThreadsOnlyInJoin, StateMatchesMain, ExitedMeansStopped,
      NothingCountedYet, MotorOffInMenu

\* Every step keeps the relation of mac_state, main and the sensor threads.
LEMMA NextCoreInv == CoreInv /\ [Next]_vars => CoreInv'
<1> SUFFICES ASSUME CoreInv, [Next]_vars PROVE CoreInv'
  OBVIOUS
<1>0. TypeInv'
  BY NextTypeInv DEF CoreInv
<1> USE <1>0
    DEF CoreInv, ThreadsOnlyInJoin, StateMatchesMain, ExitedMeansStopped,
        NothingCountedYet, MotorOffInMenu, appVars, TypeInv, TypeOK
<1>1. ASSUME NEW k \in Keys, Edge(k) PROVE CoreInv'
  BY <1>1 DEF Edge
<1>2. ASSUME NEW k \in Keys, Count(k) PROVE CoreInv'
  BY <1>2 DEF Count
<1>3. CASE Launch
  BY <1>3 DEF Launch
<1>4. CASE PreparePoll
  BY <1>4 DEF PreparePoll
<1>5. CASE PrepareReturn
  BY <1>5 DEF PrepareReturn
<1>6. CASE OpenDevices
  BY <1>6 DEF OpenDevices
<1>7. CASE Spawn
  BY <1>7 DEF Spawn
<1>8. CASE MotorOn
  BY <1>8 DEF MotorOn, motor_write
<1>9. CASE Join
  BY <1>9 DEF Join
<1>10. CASE MotorOff
  BY <1>10 DEF MotorOff, motor_write
<1>11. CASE MenuPoll
  BY <1>11 DEF MenuPoll
<1>12. CASE MenuOff
  BY <1>12 DEF MenuOff
<1>13. ASSUME NEW k \in Keys, MenuShow(k) PROVE CoreInv'
  BY <1>13 DEF MenuShow
<1>14. CASE MenuNext
  BY <1>14 DEF MenuNext
<1>15. CASE Exit \/ PollError \/ Kill
  BY <1>15 DEF Exit, PollError, Kill, ProcessGone, NoProcess
<1>16. ASSUME NEW t \in Threads, Poll(t) PROVE CoreInv'
  BY <1>16 DEF Poll
<1>17. ASSUME NEW s \in Sensors, SensorHead(s) PROVE CoreInv'
  BY <1>17 DEF SensorHead
<1>18. ASSUME NEW s \in Sensors, SensorRead(s) PROVE CoreInv'
  BY <1>18 DEF SensorRead
<1>19. ASSUME NEW s \in Sensors, SensorCount(s) PROVE CoreInv'
  BY <1>19 DEF SensorCount
<1>20. ASSUME NEW s \in Sensors, SensorDecide(s) PROVE CoreInv'
  BY <1>20 DEF SensorDecide
<1>21. CASE UNCHANGED vars
  BY <1>21 DEF vars
<1>22. QED
  BY <1>1, <1>2, <1>3, <1>4, <1>5, <1>6, <1>7, <1>8, <1>9, <1>10, <1>11,
     <1>12, <1>13, <1>14, <1>15, <1>16, <1>17, <1>18, <1>19, <1>20, <1>21
  DEF Next, MainStep, SensorStep

\* The inductive invariant of the machine, for every set of sensor threads.
THEOREM CoreInvariant == Spec => []CoreInv
  BY InitCoreInv, NextCoreInv, PTL DEF Spec

\* A motor device that could be opened is off once the counting has ended.
THEOREM MotorIsOffInMenu == Spec => []MotorOffInMenu
<1>1. CoreInv => MotorOffInMenu
  BY DEF CoreInv
<1>2. QED
  BY <1>1, CoreInvariant, PTL

----------------------------------------------------------------------------
(* The machine implements the abstract session.                            *)

\* A machine without a process is idle.
LEMMA InitSession == Init => Session!Init
  BY DEF Init, Session!Init, Session!NoCoins, SessionPhase, Looking

\* The end of the process leaves the session.
LEMMA LeaveSession == ProcessGone => Session!Leave
  BY DEF ProcessGone, NoProcess, Session!Leave, Session!NoCoins, SessionPhase, Looking

\* Every step of the machine is one of the session, or changes nothing in it.
LEMMA StepOfSession == CoreInv /\ [Next]_vars => [Session!Next]_(Session!vars)
<1> SUFFICES ASSUME CoreInv, [Next]_vars
             PROVE  Session!Next \/ UNCHANGED Session!vars
  OBVIOUS
<1> USE DEF Session!vars, SessionPhase, Looking
<1>1. ASSUME NEW s \in Sensors, SensorHead(s), mac_state = 1
      PROVE  Session!Look(s)
  <2>1. mainPc \in {"motorOn", "join"} /\ sensPc' = [sensPc EXCEPT ![s] = "read"]
    BY <1>1 DEF SensorHead, CoreInv, ThreadsOnlyInJoin
  <2>2. s \notin Looking /\ Looking' = Looking \cup {s}
    BY <1>1, <2>1 DEF SensorHead, CoreInv, TypeInv, TypeOK
  <2>3. QED
    BY <1>1, <2>1, <2>2 DEF SensorHead, Session!Look
<1>2. ASSUME NEW s \in Sensors, SensorHead(s), mac_state # 1
      PROVE  UNCHANGED Session!vars
  BY <1>2 DEF SensorHead, CoreInv, TypeInv, TypeOK
<1>3. ASSUME NEW s \in Sensors, SensorRead(s)
      PROVE  UNCHANGED Session!vars
  BY <1>3 DEF SensorRead, CoreInv, TypeInv, TypeOK
<1>4. ASSUME NEW s \in Sensors, SensorCount(s)
      PROVE  Session!Add(s)
  <2>1. sample[s] \in {0, 1} /\ EA' = [EA EXCEPT ![s] = EA[s] + sample[s]]
    BY <1>4 DEF SensorCount, CoreInv, TypeInv, TypeOK
  <2>2. s \in Looking /\ Looking' = Looking \ {s}
    BY <1>4 DEF SensorCount, CoreInv, TypeInv, TypeOK
  <2>3. UNCHANGED SessionPhase
    BY <1>4 DEF SensorCount
  <2>4. QED
    BY <2>1, <2>2, <2>3 DEF Session!Add
<1>5. ASSUME NEW s \in Sensors, SensorDecide(s)
      PROVE  Session!Stop \/ UNCHANGED Session!vars
  <2>1. UNCHANGED <<EA, Looking, mainPc>> /\ mac_state' \in {2, mac_state}
    BY <1>5 DEF SensorDecide, CoreInv, TypeInv, TypeOK
  <2>2. mainPc \in {"motorOn", "join"} /\ mac_state \in {1, 2}
    BY <1>5 DEF SensorDecide, CoreInv, ThreadsOnlyInJoin, StateMatchesMain
  <2>3. QED
    BY <2>1, <2>2 DEF Session!Stop, Session!Move
<1>6. CASE Spawn
  <2>1. Looking = {} /\ Looking' = {}
    BY <1>6 DEF Spawn, CoreInv, ThreadsOnlyInJoin
  <2>2. Session!Start
    BY <1>6, <2>1 DEF Spawn, Session!Start, Session!Move
  <2>3. QED
    BY <2>2 DEF Session!Next
<1>7. CASE Join
  <2>1. mac_state = 2
    BY <1>7 DEF Join, CoreInv, ExitedMeansStopped
  <2>2. UNCHANGED Session!vars
    BY <1>7, <2>1 DEF Join
  <2>3. QED
    BY <2>2
<1>8. CASE MotorOff
  <2>1. mac_state = 2 /\ Looking = {}
    BY <1>8 DEF MotorOff, CoreInv, StateMatchesMain, ThreadsOnlyInJoin
  <2>2. Session!Finish
    BY <1>8, <2>1 DEF MotorOff, Session!Finish, Session!Move
  <2>3. QED
    BY <2>2 DEF Session!Next
<1>9. CASE PollError \/ Kill \/ Exit
  BY <1>9, LeaveSession DEF PollError, Kill, Exit, Session!Next
<1>10. CASE Launch \/ PrepareReturn \/ OpenDevices \/ MotorOn \/ MenuOff
  BY <1>10 DEF Launch, PrepareReturn, OpenDevices, MotorOn, MenuOff, CoreInv, StateMatchesMain
<1>11. CASE \/ PreparePoll \/ MenuPoll \/ MenuNext
            \/ \E k \in Keys : Edge(k) \/ Count(k) \/ MenuShow(k)
            \/ \E t \in Threads : Poll(t)
  BY <1>11 DEF PreparePoll, MenuPoll, MenuNext, Edge, Count, MenuShow, Poll, appVars
<1>12. CASE UNCHANGED vars
  BY <1>12 DEF vars, appVars
<1>13. \A s \in Sensors : SensorStep(s) =>
         Session!Next \/ UNCHANGED Session!vars
  BY <1>1, <1>2, <1>3, <1>4, <1>5, <1>11 DEF SensorStep, Session!Next
<1>14. Main \in Threads
  OBVIOUS
<1>15. QED
  BY <1>6, <1>7, <1>8, <1>9, <1>10, <1>11, <1>12, <1>13, <1>14 DEF Next, MainStep

\* The coin machine implements the session, for any set of sensor threads: one stop,
\* then at most the looks under way are counted, and the menu's counts are final.
THEOREM MachineImplementsSession == Spec => ImplementsSession
  BY InitSession, StepOfSession, CoreInvariant, PTL DEF Spec, ImplementsSession, Session!Spec

----------------------------------------------------------------------------
(* What the session promises of the counts.                                *)

\* The count of s when the look it is at, if any, has ended.
CountLimit(s) == EA[s] + (IF s \in Looking THEN 1 ELSE 0)

\* Once the counting is stopped no count goes beyond what a look under way may add, and
\* none changes in the menu, so that main may read them without a lock: it follows from
\* the session, which stands for the threads here (test_mac.c:125-144, 573-680).
CountsKeepLimits ==
  SessionPhase' # "idle" =>
    /\ SessionPhase \in {"stopping", "menu"} =>
         \A s \in Sensors : EA[s] <= EA'[s] /\ CountLimit(s)' <= CountLimit(s)
    /\ SessionPhase = "menu" => EA' = EA

CountsAreFinal == [][CountsKeepLimits]_vars

\* A look that ends takes its one with it.
LEMMA SessionStepLimits ==
  ASSUME CoreInv, [Session!Next]_(Session!vars)
  PROVE  CountsKeepLimits
<1> SUFFICES ASSUME SessionPhase' # "idle", SessionPhase \in {"stopping", "menu"}
             PROVE  /\ \A s \in Sensors : EA[s] <= EA'[s] /\ CountLimit(s)' <= CountLimit(s)
                    /\ SessionPhase = "menu" => EA' = EA
  BY DEF CountsKeepLimits
<1>1. EA \in [Sensors -> Nat]
  BY DEF CoreInv, TypeInv, TypeOK
<1>2. CASE UNCHANGED <<EA, Looking>>
  BY <1>1, <1>2 DEF CountLimit
<1>3. ASSUME NEW s \in Sensors, Session!Add(s)
      PROVE  /\ \A r \in Sensors : EA[r] <= EA'[r] /\ CountLimit(r)' <= CountLimit(r)
             /\ SessionPhase # "menu"
  <2>1. PICK coin \in {0, 1} : EA' = [EA EXCEPT ![s] = EA[s] + coin]
    BY <1>3 DEF Session!Add
  <2>2. s \in Looking /\ Looking' = Looking \ {s}
    BY <1>3 DEF Session!Add
  <2>3. SessionPhase # "menu"
    BY <2>2 DEF SessionPhase, Looking, CoreInv, ThreadsOnlyInJoin
  <2> QED
    BY <1>1, <2>1, <2>2, <2>3 DEF CountLimit
<1>4. ASSUME Session!Next
      PROVE  UNCHANGED <<EA, Looking>> \/ \E s \in Sensors : Session!Add(s)
  BY <1>4
  DEF Session!Next, Session!Start, Session!Stop, Session!Finish, Session!Leave,
      Session!Look, Session!Move
<1>5. ASSUME UNCHANGED Session!vars PROVE UNCHANGED <<EA, Looking>>
  BY <1>5 DEF Session!vars
<1> QED
  BY <1>2, <1>3, <1>4, <1>5

\* So main reports what the threads counted, whichever of them saw key 2 and whatever they
\* were at then (test_mac.c:125-144, 573-680).
THEOREM MenuReadsFinalCounts == Spec => CountsAreFinal
<1>1. CoreInv /\ [Next]_vars => [CountsKeepLimits]_vars
  BY StepOfSession, SessionStepLimits
<1> QED
  BY <1>1, CoreInvariant, PTL DEF Spec, CountsAreFinal

----------------------------------------------------------------------------
(* A press of key 2 that is kept.                                          *)

\* While coins are counted, and from the moment key 1 was accepted, a press of key 2
\* that no poller is about to overwrite is in its flag or in the hands of a thread until
\* one sets mac_state: main does not leave the loop before.
KeptOrStopped ==
  mainPc \in {"open", "spawn", "motorOn", "join"} /\ mac_state = 1 /\ Kept(Key2) =>
    \/ mac_state' # 1
    \/ mainPc' \in {"open", "spawn", "motorOn", "join"} /\ Kept(Key2)'

KeptUntilStopped == [][KeptOrStopped]_vars

\* No call is left behind by a process that ends, or by a report.
LEMMA NextIdle == TypeInv /\ IdleOK /\ [Next]_vars => IdleOK'
<1> SUFFICES ASSUME TypeInv, IdleOK, [Next]_vars PROVE IdleOK'
  OBVIOUS
<1>0. KeyTypeInv
  BY DEF TypeInv, TypeOK, KeyTypeInv
<1>1. CASE Exit \/ PollError \/ Kill
  BY <1>1 DEF Exit, PollError, Kill, ProcessGone, NotPolling, IdleOK
<1>2. ASSUME NEW k \in Keys, MenuShow(k) PROVE IdleOK'
  <2>1. call'[Main].phase = "done" /\ \A t \in Threads \ {Main} : call'[t] = call[t]
    BY <1>0, <1>2 DEF MenuShow, KeyTypeInv, KeyTypeOK, PollCall
  <2>2. QED
    BY <2>1 DEF IdleOK
<1>3. CASE \/ \E k \in Keys : IsrWake(k) \/ IsrCount(k)
           \/ \E t \in Threads : PollStep(t) \/ PollReturn(t) \/ \E keys : PollEnter(t, keys)
           \/ UNCHANGED keyVars
  BY <1>0, <1>3, KeyStepIdle
<1>4. CASE \/ \E k \in Keys : Edge(k) \/ Count(k)
           \/ Launch \/ PreparePoll \/ PrepareReturn \/ OpenDevices \/ Spawn \/ MotorOn
           \/ Join \/ MotorOff \/ MenuPoll \/ MenuOff \/ MenuNext \/ Poll(Main)
           \/ \E s \in Sensors : SensorStep(s)
           \/ UNCHANGED vars
  BY <1>3, <1>4
  DEF Edge, Count, Launch, PreparePoll, PrepareReturn, OpenDevices, Spawn, MotorOn,
      Join, MotorOff, MenuPoll, MenuOff, MenuNext, Poll, SensorStep, SensorHead,
      SensorRead, SensorCount, SensorDecide, vars
<1>5. QED
  BY <1>1, <1>2, <1>4 DEF Next, MainStep

\* What a step of the machine does to a press of key 2 while coins are counted.
LEMMA NextKept ==
  ASSUME CoreInv, IdleOK, [Next]_vars, Kept(Key2), mac_state = 1, mac_state' = 1,
         mainPc \in {"open", "spawn", "motorOn", "join"}
  PROVE  mainPc' \in {"open", "spawn", "motorOn", "join"} /\ Kept(Key2)'
<1>0. KeyTypeInv /\ Key2 \in Keys /\ Main \in Threads /\ Sensors \subseteq Threads
  BY DEF CoreInv, TypeInv, TypeOK, KeyTypeInv, Keys, Key2
<1>1. ASSUME NEW k \in Keys, Edge(k) \/ Count(k) PROVE mainPc' = mainPc /\ Kept(Key2)'
  BY <1>0, <1>1, IsrKeeps DEF Edge, Count, appVars
<1>2. CASE OpenDevices \/ Spawn \/ MotorOn \/ Join
  <2>1. mainPc' \in {"spawn", "motorOn", "join"} /\ UNCHANGED keyVars
    BY <1>2 DEF OpenDevices, Spawn, MotorOn, Join
  <2>2. QED
    BY <1>0, <2>1, KeyStutterKeeps
<1>3. ASSUME NEW t \in Threads, Poll(t) PROVE mainPc' = mainPc /\ Kept(Key2)'
  BY <1>0, <1>3, PollStepKeeps DEF Poll, appVars
<1>4. ASSUME NEW s \in Sensors, SensorHead(s) \/ SensorCount(s)
      PROVE  mainPc' = mainPc /\ Kept(Key2)'
  BY <1>0, <1>4, KeyStutterKeeps DEF SensorHead, SensorCount
<1>5. ASSUME NEW s \in Sensors, SensorRead(s) PROVE mainPc' = mainPc /\ Kept(Key2)'
  BY <1>0, <1>5, PassKeeps DEF SensorRead
<1>6. ASSUME NEW s \in Sensors, SensorDecide(s) PROVE mainPc' = mainPc /\ Kept(Key2)'
  <2>1. Key2 \notin call[s].ready
    BY <1>6 DEF SensorDecide
  <2>2. QED
    BY <1>0, <1>6, <2>1, ReturnKeeps DEF SensorDecide
<1>7. CASE UNCHANGED vars
  BY <1>0, <1>7, KeyStutterKeeps DEF vars, appVars
<1>8. ~(Exit \/ PollError \/ Kill)
  BY DEF Exit, PollError, Kill, ProcessGone, NoProcess
<1>9. /\ ~(Launch \/ PreparePoll \/ PrepareReturn \/ MotorOff \/ MenuPoll \/ MenuOff)
      /\ ~(MenuNext \/ \E k \in Keys : MenuShow(k))
  BY DEF Launch, PreparePoll, PrepareReturn, MotorOff, MenuPoll, MenuOff, MenuNext, MenuShow
<1>10. QED
  BY <1>0, <1>1, <1>2, <1>3, <1>4, <1>5, <1>6, <1>7, <1>8, <1>9
  DEF Next, MainStep, SensorStep

\* A press of key 2 that is visible is not lost before the counting stops, whichever
\* threads poll the key, for any set of sensor threads: it is held until one of them
\* sets mac_state (test_mac.c:597-605, 633-641, 670-678; key_driver2.c:47-51).
THEOREM PressIsKeptUntilStopped == Spec => KeptUntilStopped
<1>1. Init => IdleOK
  BY KeyInitIdle DEF Init
<1>2. CoreInv /\ IdleOK /\ [Next]_vars => IdleOK'
  BY NextIdle DEF CoreInv
<1>3. CoreInv /\ IdleOK /\ [Next]_vars => [KeptOrStopped]_vars
  BY NextKept DEF KeptOrStopped
<1>4. QED
  BY <1>1, <1>2, <1>3, CoreInvariant, PTL DEF Spec, KeptUntilStopped

----------------------------------------------------------------------------
(* The actions that are still to come from the interrupts of a key. *)

\* The program will act on the event of key k that thread t has been given: a
\* sensor thread only as long as nobody stopped the counting.
Effective(t, k) ==
  /\ k \in call[t].ready
  /\ t = Main \/ (k = Key2 /\ mac_state = 1)

\* Thread t has tested the flag of key k and not cleared it yet.
Clearing(t, k) == call[t].phase = "clear" /\ Head(call[t].todo) = k

\* Some call has an event of key k that will be acted on.
Held(k) == \E t \in Threads : Effective(t, k)

\* The flag holds an event that no thread was given: there is none, or one of them
\* had cleared the flag before it was raised again.
Fresh(k) ==
  /\ eventFlag[k]
  /\ Held(k) => \E t \in Threads : Effective(t, k) /\ ~Clearing(t, k)

\* A Boolean as a number.
One(b) == IF b THEN 1 ELSE 0

\* Actions that may still come from the interrupts of key k so far.
Pending(k) == One(Held(k)) + One(Fresh(k))

\* A thread is inside poll(2) only where the program calls it.
CallsInPlace ==
  /\ \A s \in Sensors : sensPc[s] \notin {"poll", "decide"} =>
       call[s].phase = "idle" /\ call[s].ready = {}
  /\ mainPc \notin {"prepare", "menu"} =>
       call[Main].phase = "idle" /\ call[Main].ready = {}

\* The credit of a key covers every action that may still come.
Covered ==
  /\ credit \in [Keys -> Int]
  /\ \A k \in Keys : credit[k] >= Pending(k)

\* The inductive invariant.
HistoryInv == CoreInv /\ CallsInPlace /\ Covered

----------------------------------------------------------------------------
(* What a change of the flag and of the calls does to the pending actions. *)

\* At most one action for the event that is held, and one for the flag.
LEMMA PendingRange ==
  ASSUME NEW k
  PROVE  Pending(k) \in 0 .. 2
  BY DEF Pending, One

\* Threads that forget an event, or may no longer act on it, leave no more pending.
LEMMA Forgotten ==
  ASSUME NEW k, eventFlag'[k] = eventFlag[k],
         \A t \in Threads : Effective(t, k)' => Effective(t, k),
         \A t \in Threads : Effective(t, k)' /\ ~Clearing(t, k)' => ~Clearing(t, k)
  PROVE  Pending(k)' <= Pending(k)
<1>1. Held(k)' => Held(k)
  BY DEF Held
<1>2. Fresh(k)' /\ Held(k)' => Fresh(k)
  BY DEF Fresh
<1>3. Fresh(k)' => Fresh(k) \/ Held(k)
  BY DEF Fresh
<1> QED
  BY <1>1, <1>2, <1>3 DEF Pending, One

\* The thread that acts takes the event with it.
LEMMA Consumed ==
  ASSUME NEW k, eventFlag'[k] = eventFlag[k],
         NEW t \in Threads, Effective(t, k), ~Clearing(t, k),
         \A u \in Threads : ~Effective(u, k)'
  PROVE  Pending(k)' <= Pending(k) - 1
<1>1. Held(k) /\ ~Held(k)'
  BY DEF Held
<1>2. Fresh(k)' => Fresh(k)
  BY <1>1 DEF Fresh
<1> QED
  BY <1>1, <1>2 DEF Pending, One

\* An interrupt adds one.
LEMMA Raised ==
  ASSUME NEW k, UNCHANGED <<call, mac_state>>
  PROVE  Pending(k)' <= Pending(k) + 1
<1>1. Held(k)' <=> Held(k)
  BY DEF Held, Effective
<1> QED
  BY <1>1 DEF Pending, One

\* The test gives the event of the flag to a thread, which has yet to clear it.
LEMMA Tested ==
  ASSUME TypeInv, NEW k \in Keys, NEW t \in Threads, KeyPollTest(t), UNCHANGED mac_state
  PROVE  Pending(k)' <= Pending(k)
<1> DEFINE j == Head(call[t].todo)
<1>1. call \in [Threads -> PollCall]
  BY DEF TypeInv, TypeOK, KeyTypeOK
<1>2. /\ call[t].phase = "test" /\ call'[t].phase = "clear"
      /\ call'[t].todo = call[t].todo
      /\ call'[t].ready = IF eventFlag[j] THEN call[t].ready \cup {j} ELSE call[t].ready
      /\ \A u \in Threads \ {t} : call'[u] = call[u]
      /\ UNCHANGED eventFlag
  BY <1>1 DEF KeyPollTest, PollCall
<1> HIDE DEF j
<1>3. \A u \in Threads : Effective(u, k) => Effective(u, k)'
  BY <1>2 DEF Effective
<1>4. \A u \in Threads : Effective(u, k)' => Effective(u, k) \/ (u = t /\ k = j /\ eventFlag[k])
  BY <1>2 DEF Effective
<1>5. \A u \in Threads : u # t => (Clearing(u, k)' <=> Clearing(u, k))
  BY <1>2 DEF Clearing
<1>6. ~Clearing(t, k) /\ (Clearing(t, k)' <=> k = j)
  BY <1>2 DEF Clearing, j
<1>7. CASE \A u \in Threads : Effective(u, k)' => Effective(u, k)
  BY <1>2, <1>5, <1>6, <1>7, Forgotten
<1>8. CASE \E u \in Threads : Effective(u, k)' /\ ~Effective(u, k)
  <2>1. Effective(t, k)' /\ k = j /\ eventFlag[k] /\ Clearing(t, k)'
    BY <1>4, <1>6, <1>8
  <2>2. CASE Held(k)
    <3>1. ASSUME Fresh(k)' PROVE Fresh(k)
      <4>1. Held(k)'
        BY <2>1 DEF Held
      <4>2. PICK u \in Threads : Effective(u, k)' /\ ~Clearing(u, k)'
        BY <3>1, <4>1 DEF Fresh
      <4>3. Effective(u, k) /\ ~Clearing(u, k)
        BY <1>4, <1>5, <2>1, <4>2
      <4> QED
        BY <2>1, <4>3 DEF Fresh
    <3> QED
      BY <2>2, <3>1 DEF Pending, One
  <2>3. CASE ~Held(k)
    <3>1. Fresh(k)
      BY <2>1, <2>3 DEF Fresh
    <3>2. \A u \in Threads : Effective(u, k)' => u = t
      BY <1>4, <2>3 DEF Held
    <3>3. Held(k)' /\ ~Fresh(k)'
      BY <2>1, <3>2 DEF Held, Fresh
    <3> QED
      BY <2>3, <3>1, <3>3 DEF Pending, One
  <2> QED
    BY <2>2, <2>3
<1> QED
  BY <1>7, <1>8

\* The clearing leaves only what was given to a thread.
LEMMA Cleared ==
  ASSUME TypeInv, NEW k \in Keys, NEW t \in Threads, KeyPollClear(t), UNCHANGED mac_state
  PROVE  Pending(k)' <= Pending(k)
<1> DEFINE j == Head(call[t].todo)
<1>1. call \in [Threads -> PollCall] /\ eventFlag \in [Keys -> BOOLEAN]
  BY DEF TypeInv, TypeOK, KeyTypeOK
<1>2. /\ call[t].phase = "clear" /\ call'[t].phase # "clear"
      /\ call'[t].ready = call[t].ready
      /\ \A u \in Threads \ {t} : call'[u] = call[u]
  BY <1>1 DEF KeyPollClear, PollCall
<1>3. eventFlag' = [eventFlag EXCEPT ![j] = FALSE]
  BY DEF KeyPollClear
<1> HIDE DEF j
<1>4. \A u \in Threads : Effective(u, k)' <=> Effective(u, k)
  BY <1>2 DEF Effective
<1>5. CASE k = j
  <2>1. ~eventFlag'[k]
    BY <1>1, <1>3, <1>5
  <2>2. ~Fresh(k)' /\ (Held(k)' <=> Held(k))
    BY <1>4, <2>1 DEF Fresh, Held
  <2> QED
    BY <2>2 DEF Pending, One
<1>6. CASE k # j
  <2>1. eventFlag'[k] = eventFlag[k]
    BY <1>1, <1>3, <1>6
  <2>2. \A u \in Threads : ~Clearing(u, k)' => ~Clearing(u, k)
    BY <1>2, <1>6 DEF Clearing, j
  <2> QED
    BY <1>4, <2>1, <2>2, Forgotten
<1> QED
  BY <1>5, <1>6

----------------------------------------------------------------------------
(* The steps of the machine. *)

\* What a step may do to key k: act on it only with one pending action less, and
\* add one only by an interrupt.
Accounted(k) ==
  \/ ~ActsOn(k) /\ Pending(k)' <= Pending(k)
  \/ ~ActsOn(k) /\ Raises(k) /\ Pending(k)' <= Pending(k) + 1
  \/ Pending(k)' <= Pending(k) - 1

\* The keys of the machine are different ones.
LEMMA TwoKeys == Key1 \in Keys /\ Key2 \in Keys /\ Key1 # Key2 /\ Main \in Threads
  BY NKeysAssumption, MachineAssumption DEF Key1, Key2, Keys

\* A step that moves no call and leaves mac_state alone acts on nothing.
LEMMA QuietStep ==
  ASSUME NEW k, UNCHANGED <<eventFlag, call, mac_state>>, ~TurnsOff
  PROVE  Accounted(k)
<1>1. Pending(k)' = Pending(k)
  BY DEF Pending, Held, Fresh, Effective, Clearing
<1>2. ~ActsOn(k)
  BY DEF ActsOn, Starts, Stops, Shows
<1>3. Pending(k) \in 0 .. 2
  BY PendingRange
<1> QED
  BY <1>1, <1>2, <1>3 DEF Accounted

\* The interrupt handler.
LEMMA HandlerStep ==
  ASSUME TypeInv, NEW k \in Keys, NEW j \in Keys, Edge(j) \/ Count(j)
  PROVE  Accounted(k)
<1>1. call \in [Threads -> PollCall] /\ eventFlag \in [Keys -> BOOLEAN]
      /\ isr \in [Keys -> {"idle", "count"}]
  BY DEF TypeInv, TypeOK, KeyTypeOK
<1>2. UNCHANGED <<mac_state, mainPc>>
  BY DEF Edge, Count, appVars
<1>3. \A t \in Threads : /\ call'[t].ready = call[t].ready
                         /\ call'[t].phase = call[t].phase
                         /\ call'[t].todo = call[t].todo
  BY <1>1 DEF Edge, Count, IsrWake, IsrCount, PollCall
<1>4. ~ActsOn(k)
  BY <1>2, <1>3, TwoKeys DEF ActsOn, Starts, Stops, TurnsOff, Shows
<1>5. CASE Edge(j) \/ (Count(j) /\ k # j)
  <2>1. eventFlag'[k] = eventFlag[k]
    BY <1>1, <1>5 DEF Edge, Count, IsrWake, IsrCount
  <2>2. \A t \in Threads : /\ Effective(t, k)' => Effective(t, k)
                           /\ ~Clearing(t, k)' => ~Clearing(t, k)
    BY <1>2, <1>3 DEF Effective, Clearing
  <2> QED
    BY <1>4, <2>1, <2>2, Forgotten DEF Accounted
<1>6. CASE Count(j) /\ k = j
  <2>1. Raises(k) /\ UNCHANGED <<call, mac_state>>
    BY <1>1, <1>2, <1>6 DEF Raises, Count, IsrCount
  <2> QED
    BY <1>4, <2>1, Raised DEF Accounted
<1> QED
  BY <1>5, <1>6

\* The poll method of a key, and the passes of poll(2).
LEMMA PollingStep ==
  ASSUME TypeInv, NEW k \in Keys, NEW t \in Threads, Poll(t)
  PROVE  Accounted(k)
<1>1. call \in [Threads -> PollCall] /\ UNCHANGED <<mac_state, mainPc>>
  BY DEF TypeInv, TypeOK, KeyTypeOK, Poll, appVars
<1>2. PollStep(t)
  BY DEF Poll
<1>3. \A u \in Threads : call[u].ready \subseteq call'[u].ready
  <2>1. CASE KeyPollTest(t)
    <3>1. call[t].ready \subseteq call'[t].ready /\ \A u \in Threads \ {t} : call'[u] = call[u]
      BY <1>1, <2>1 DEF KeyPollTest, PollCall
    <3> QED
      BY <3>1
  <2>2. CASE KeyPollClear(t)
    <3>1. call'[t].ready = call[t].ready /\ \A u \in Threads \ {t} : call'[u] = call[u]
      BY <1>1, <2>2 DEF KeyPollClear, PollCall
    <3> QED
      BY <3>1
  <2>3. CASE PollWoken(t) \/ PollTimeout(t)
    <3>1. call'[t].ready = call[t].ready /\ \A u \in Threads \ {t} : call'[u] = call[u]
      BY <1>1, <2>3, ZenonT(40) DEF PollWoken, PollTimeout, AnotherPass, PollCall
    <3> QED
      BY <3>1
  <2> QED
    BY <1>2, <2>1, <2>2, <2>3 DEF PollStep
<1>4. ~ActsOn(k)
  BY <1>1, <1>3, TwoKeys DEF ActsOn, Starts, Stops, TurnsOff, Shows
<1>5. CASE KeyPollTest(t) \/ KeyPollClear(t)
  BY <1>1, <1>4, <1>5, Tested, Cleared DEF Accounted
<1>6. CASE PollWoken(t) \/ PollTimeout(t)
  <2>1. /\ UNCHANGED eventFlag
        /\ call[t].phase # "clear" /\ call'[t].ready = call[t].ready
        /\ \A u \in Threads \ {t} : call'[u] = call[u]
    BY <1>1, <1>6, ZenonT(40) DEF PollWoken, PollTimeout, AnotherPass, PollCall
  <2>2. \A u \in Threads : /\ Effective(u, k)' => Effective(u, k)
                           /\ ~Clearing(u, k)' => ~Clearing(u, k)
    BY <1>1, <2>1 DEF Effective, Clearing
  <2> QED
    BY <1>4, <2>1, <2>2, Forgotten DEF Accounted
<1> QED
  BY <1>2, <1>5, <1>6 DEF PollStep

\* A call of poll(2) begins.
LEMMA EnterStep ==
  ASSUME TypeInv, NEW k \in Keys, NEW t \in Threads, NEW keys, PollEnter(t, keys),
         UNCHANGED <<mac_state, mainPc>>
  PROVE  Accounted(k)
<1>1. /\ UNCHANGED eventFlag
      /\ call'[t].ready = {} /\ call'[t].phase = "test"
      /\ \A u \in Threads \ {t} : call'[u] = call[u]
  BY DEF PollEnter, NotPolling, TypeInv, TypeOK, KeyTypeOK, PollCall
<1>2. \A u \in Threads : /\ Effective(u, k)' => Effective(u, k)
                         /\ Effective(u, k)' /\ ~Clearing(u, k)' => ~Clearing(u, k)
  BY <1>1 DEF Effective, Clearing
<1>3. ~ActsOn(k)
  BY <1>1, TwoKeys DEF ActsOn, Starts, Stops, TurnsOff, Shows
<1> QED
  BY <1>1, <1>2, <1>3, Forgotten DEF Accounted

\* What the return of poll(2) leaves of the calls.
LEMMA AfterReturn ==
  ASSUME TypeInv, NEW t \in Threads, PollReturn(t)
  PROVE  /\ UNCHANGED eventFlag
         /\ call[t].phase = "done"
         /\ call'[t].ready = {} /\ call'[t].phase = "idle"
         /\ \A u \in Threads \ {t} : call'[u] = call[u]
  BY DEF PollReturn, NotPolling, TypeInv, TypeOK, KeyTypeOK

\* The return of a call, without a change of mac_state or an action.
LEMMA ReturnStep ==
  ASSUME TypeInv, NEW k \in Keys, NEW t \in Threads, PollReturn(t),
         mac_state' = mac_state \/ mac_state' # 1, ~ActsOn(k)
  PROVE  Accounted(k)
<1>1. \A u \in Threads : /\ Effective(u, k)' => Effective(u, k)
                         /\ Effective(u, k)' /\ ~Clearing(u, k)' => ~Clearing(u, k)
  BY AfterReturn DEF Effective, Clearing
<1> QED
  BY <1>1, AfterReturn, Forgotten DEF Accounted

\* The machine starts on the event of key 1 that main was given.
LEMMA PrepareStep ==
  ASSUME CoreInv, CallsInPlace, NEW k \in Keys, PrepareReturn
  PROVE  Accounted(k)
<1>1. TypeInv /\ Main \in Threads /\ PollReturn(Main) /\ mainPc = "prepare" /\ mac_state = 0
  BY TwoKeys DEF CoreInv, PrepareReturn, StateMatchesMain
<1>2. CASE Key1 \notin call[Main].ready
  <2>1. UNCHANGED <<mac_state, mainPc>>
    BY <1>2 DEF PrepareReturn
  <2>2. ~ActsOn(k)
    BY <1>1, <2>1, TwoKeys DEF ActsOn, Starts, Stops, TurnsOff, Shows
  <2> QED
    BY <1>1, <2>1, <2>2, ReturnStep
<1>3. CASE Key1 \in call[Main].ready
  <2>1. mac_state' = 1 /\ mainPc' = "open"
    BY <1>3 DEF PrepareReturn
  <2>2. \A s \in Sensors : call[s].ready = {}
    BY <1>1 DEF CoreInv, ThreadsOnlyInJoin, CallsInPlace
  <2>3. \A u \in Threads : call'[u].ready = {}
    BY <1>1, <2>2, AfterReturn, MachineAssumption
  <2>4. \A u \in Threads : ~Effective(u, k)'
    BY <2>3 DEF Effective
  <2>5. CASE k = Key1
    <3>1. Effective(Main, k) /\ ~Clearing(Main, k) /\ UNCHANGED eventFlag
      BY <1>1, <1>3, <2>5, AfterReturn DEF Effective, Clearing
    <3> QED
      BY <1>1, <2>4, <3>1, Consumed DEF Accounted
  <2>6. CASE k # Key1
    <3>1. ~ActsOn(k)
      BY <1>1, <2>1, <2>6, TwoKeys DEF ActsOn, Starts, Stops, TurnsOff, Shows
    <3>2. UNCHANGED eventFlag
      BY <1>1, AfterReturn
    <3> QED
      BY <2>4, <3>1, <3>2, Forgotten DEF Accounted
  <2> QED
    BY <2>5, <2>6
<1> QED
  BY <1>2, <1>3

\* The menu: off, a report, or another poll.
LEMMA MenuStep ==
  ASSUME CoreInv, NEW k \in Keys, NEW j \in Keys, MenuOff \/ MenuShow(j) \/ MenuNext
  PROVE  Accounted(k)
<1>1. /\ TypeInv /\ Main \in Threads /\ mainPc = "menu" /\ mac_state = 2 /\ mac_state' = 2
  BY TwoKeys DEF CoreInv, StateMatchesMain, MenuOff, MenuShow, MenuNext, appVars
<1>2. CASE MenuOff
  <2>1. PollReturn(Main) /\ Key1 \in call[Main].ready
    BY <1>2 DEF MenuOff
  <2>2. CASE k = Key1
    <3>1. Effective(Main, k) /\ ~Clearing(Main, k) /\ UNCHANGED eventFlag
      BY <1>1, <2>1, <2>2, AfterReturn DEF Effective, Clearing
    <3>2. \A u \in Threads : ~Effective(u, k)'
      BY <1>1, <2>1, AfterReturn DEF Effective
    <3> QED
      BY <1>1, <3>1, <3>2, Consumed DEF Accounted
  <2>3. CASE k # Key1
    <3>1. ~ActsOn(k)
      BY <1>1, <2>1, <2>3, AfterReturn DEF ActsOn, Starts, Stops, Shows
    <3> QED
      BY <1>1, <2>1, <3>1, ReturnStep
  <2> QED
    BY <2>2, <2>3
<1>3. CASE MenuNext
  <2>1. PollReturn(Main) /\ call[Main].ready = {} /\ mainPc' = mainPc
    BY <1>3 DEF MenuNext, appVars
  <2>2. ~ActsOn(k)
    BY <1>1, <2>1 DEF ActsOn, Starts, Stops, TurnsOff, Shows
  <2> QED
    BY <1>1, <2>1, <2>2, ReturnStep
<1>4. CASE MenuShow(j)
  <2>1. /\ UNCHANGED <<eventFlag, mainPc>> /\ call[Main].phase = "done"
        /\ j \in call[Main].ready
        /\ call'[Main].ready = call[Main].ready \ {j}
        /\ call'[Main].phase = "done"
        /\ \A u \in Threads \ {Main} : call'[u] = call[u]
    BY <1>1, <1>4 DEF MenuShow, TypeInv, TypeOK, KeyTypeOK, PollCall, appVars
  <2>2. \A u \in Threads : Effective(u, k)' => u = Main /\ k # j
    BY <1>1, <2>1 DEF Effective
  <2>3. CASE k = j
    <3>1. Effective(Main, k) /\ ~Clearing(Main, k)
      BY <1>1, <2>1, <2>3 DEF Effective, Clearing
    <3> QED
      BY <1>1, <2>1, <2>2, <2>3, <3>1, Consumed DEF Accounted
  <2>4. CASE k # j
    <3>1. ~ActsOn(k)
      BY <1>1, <2>1, <2>4 DEF ActsOn, Starts, Stops, TurnsOff, Shows
    <3>2. \A u \in Threads : /\ Effective(u, k)' => Effective(u, k)
                             /\ Effective(u, k)' => ~Clearing(u, k)
      BY <1>1, <2>1, <2>2 DEF Effective, Clearing
    <3> QED
      BY <2>1, <3>1, <3>2, Forgotten DEF Accounted
  <2> QED
    BY <2>3, <2>4
<1> QED
  BY <1>2, <1>3, <1>4

\* A sensor thread stops the counting on the event of key 2 that it was given, or
\* finds that another one has.
LEMMA DecideStep ==
  ASSUME CoreInv, CallsInPlace, NEW k \in Keys, NEW s \in Sensors, SensorDecide(s)
  PROVE  Accounted(k)
<1>1. /\ TypeInv /\ s \in Threads /\ s # Main /\ PollReturn(s) /\ sensPc[s] = "decide"
      /\ mainPc' = mainPc
  BY MachineAssumption DEF CoreInv, SensorDecide
<1>2. mainPc \in {"motorOn", "join"} /\ mac_state \in {1, 2}
  BY <1>1 DEF CoreInv, ThreadsOnlyInJoin, StateMatchesMain
<1>3. mac_state' = IF Key2 \in call[s].ready THEN 2 ELSE mac_state
  BY DEF SensorDecide
<1>4. CASE mac_state = 1 /\ Key2 \in call[s].ready
  <2>1. mac_state' = 2 /\ call[Main].ready = {}
    BY <1>2, <1>3, <1>4 DEF CallsInPlace
  <2>2. \A u \in Threads : ~Effective(u, k)'
    BY <1>1, <2>1, AfterReturn, TwoKeys DEF Effective
  <2>3. CASE k = Key2
    <3>1. Effective(s, k) /\ ~Clearing(s, k) /\ UNCHANGED eventFlag
      BY <1>1, <1>4, <2>3, AfterReturn DEF Effective, Clearing
    <3> QED
      BY <1>1, <2>2, <3>1, Consumed DEF Accounted
  <2>4. CASE k # Key2
    <3>1. ~ActsOn(k)
      BY <1>2, <1>4, <2>1, <2>4 DEF ActsOn, Starts, TurnsOff, Shows
    <3> QED
      BY <1>1, <2>1, <3>1, ReturnStep
  <2> QED
    BY <2>3, <2>4
<1>5. CASE mac_state = 2 \/ Key2 \notin call[s].ready
  <2>1. mac_state' = mac_state
    BY <1>3, <1>5
  <2>2. ~ActsOn(k)
    BY <1>2, <2>1 DEF ActsOn, Starts, Stops, TurnsOff, Shows
  <2> QED
    BY <1>1, <2>1, <2>2, ReturnStep
<1> QED
  BY <1>2, <1>4, <1>5

\* The end of the process forgets what its threads were given.
LEMMA GoneStep ==
  ASSUME NEW k \in Keys, ProcessGone
  PROVE  Accounted(k)
<1>1. /\ \A t \in Threads : call'[t].ready = {} /\ call'[t].phase = "idle"
      /\ UNCHANGED eventFlag /\ mac_state' = 0 /\ mainPc' = "off"
  BY DEF ProcessGone, NoProcess, NotPolling
<1>2. \A u \in Threads : ~Effective(u, k)'
  BY <1>1 DEF Effective
<1>3. ~ActsOn(k)
  BY <1>1, TwoKeys DEF ActsOn, Starts, Stops, TurnsOff, Shows
<1> QED
  BY <1>1, <1>2, <1>3, Forgotten DEF Accounted

\* Every step of the machine is accounted for.
LEMMA StepAccounted ==
  ASSUME CoreInv, CallsInPlace, [Next]_vars, NEW k \in Keys
  PROVE  Accounted(k)
<1>1. TypeInv
  BY DEF CoreInv
<1>2. CASE \E j \in Keys : Edge(j) \/ Count(j)
  BY <1>1, <1>2, HandlerStep
<1>3. CASE \E t \in Threads : Poll(t)
  BY <1>1, <1>3, PollingStep
<1>4. CASE PreparePoll \/ MenuPoll \/ \E s \in Sensors : SensorRead(s)
  BY <1>1, <1>4, EnterStep, TwoKeys, MachineAssumption
     DEF PreparePoll, MenuPoll, SensorRead, appVars
<1>5. CASE PrepareReturn
  BY <1>5, PrepareStep
<1>6. CASE MenuOff \/ MenuNext \/ \E j \in Keys : MenuShow(j)
  BY <1>6, MenuStep
<1>7. CASE \E s \in Sensors : SensorDecide(s)
  BY <1>7, DecideStep
<1>8. CASE PollError \/ Kill \/ Exit
  BY <1>8, GoneStep DEF PollError, Kill, Exit
<1>9. CASE \/ Launch \/ OpenDevices \/ Spawn \/ MotorOn \/ Join \/ MotorOff
           \/ \E s \in Sensors : SensorHead(s) \/ SensorCount(s)
  BY <1>9, QuietStep
     DEF Launch, OpenDevices, Spawn, MotorOn, Join, MotorOff, SensorHead, SensorCount,
         keyVars, TurnsOff
<1>10. CASE UNCHANGED vars
  BY <1>10, QuietStep DEF vars, appVars, keyVars, TurnsOff
<1> QED
  BY <1>2, <1>3, <1>4, <1>5, <1>6, <1>7, <1>8, <1>9, <1>10, TwoKeys, MachineAssumption
     DEF Next, MainStep, SensorStep

\* A thread is inside poll(2) only where the program calls it.
LEMMA CallsStayInPlace ==
  ASSUME CoreInv, CallsInPlace, [Next]_vars
  PROVE  CallsInPlace'
<1>1. /\ call \in [Threads -> PollCall] /\ Main \in Threads /\ Sensors \subseteq Threads
      /\ Main \notin Sensors
      /\ sensPc \in [Sensors -> {"none", "head", "read", "poll", "decide", "exited"}]
  BY TwoKeys, MachineAssumption DEF CoreInv, TypeInv, TypeOK, KeyTypeOK
<1> USE <1>1 DEF CallsInPlace
<1>2. CASE \E j \in Keys : Edge(j) \/ Count(j)
  <2>1. /\ \A t \in Threads : call'[t].phase = call[t].phase /\ call'[t].ready = call[t].ready
        /\ UNCHANGED <<sensPc, mainPc>>
    BY <1>2 DEF Edge, Count, IsrWake, IsrCount, PollCall, appVars
  <2> QED
    BY <2>1
<1>3. ASSUME NEW t \in Threads, Poll(t)
      PROVE  CallsInPlace'
  <2>1. /\ UNCHANGED <<sensPc, mainPc>> /\ call[t].phase # "idle"
        /\ \A u \in Threads \ {t} : call'[u] = call[u]
    BY <1>3 DEF Poll, PollStep, KeyPollTest, KeyPollClear, PollWoken, PollTimeout,
                AnotherPass, appVars
  <2> QED
    BY <2>1
<1>4. CASE PreparePoll \/ MenuPoll
  BY <1>4 DEF PreparePoll, MenuPoll, PollEnter, appVars
<1>5. ASSUME NEW s \in Sensors, SensorRead(s)
      PROVE  CallsInPlace'
  BY <1>5 DEF SensorRead, PollEnter
<1>6. CASE PrepareReturn \/ MenuOff \/ MenuNext
  BY <1>6 DEF PrepareReturn, MenuOff, MenuNext, PollReturn, NotPolling, appVars
<1>7. ASSUME NEW j \in Keys, MenuShow(j)
      PROVE  CallsInPlace'
  BY <1>7 DEF MenuShow, appVars
<1>8. ASSUME NEW s \in Sensors, SensorDecide(s)
      PROVE  CallsInPlace'
  BY <1>8 DEF SensorDecide, PollReturn, NotPolling
<1>9. CASE PollError \/ Kill \/ Exit
  BY <1>9 DEF PollError, Kill, Exit, ProcessGone, NoProcess, NotPolling
<1>10. CASE \/ Launch \/ OpenDevices \/ Spawn \/ MotorOn \/ Join \/ MotorOff
  BY <1>10 DEF Launch, OpenDevices, Spawn, MotorOn, Join, MotorOff, keyVars, CoreInv,
               ThreadsOnlyInJoin
<1>11. ASSUME NEW s \in Sensors, SensorHead(s) \/ SensorCount(s)
       PROVE  CallsInPlace'
  BY <1>11 DEF SensorHead, SensorCount, keyVars
<1>12. CASE UNCHANGED vars
  BY <1>12 DEF vars, appVars, keyVars
<1> QED
  BY <1>2, <1>3, <1>4, <1>5, <1>6, <1>7, <1>8, <1>9, <1>10, <1>11, <1>12, MachineAssumption
     DEF Next, MainStep, SensorStep

\* The credit covers what is pending, and the cap on it is above that.
LEMMA CreditStep ==
  ASSUME HistoryInv, [HistoryNext]_historyVars
  PROVE  HistoryInv'
<1>1. [Next]_vars
  BY DEF HistoryNext, historyVars
<1>2. CoreInv' /\ CallsInPlace'
  BY <1>1, NextCoreInv, CallsStayInPlace DEF HistoryInv
<1>3. \A k \in Keys : Pending(k) \in 0 .. 2 /\ Pending(k)' \in 0 .. 2
  <2>1. \A k \in Keys : Pending(k) \in 0 .. 2
    BY PendingRange
  <2>2. \A k \in Keys : Pending(k)' \in 0 .. 2
    BY DEF Pending, One
  <2> QED
    BY <2>1, <2>2
<1>4. CASE UNCHANGED historyVars
  <2>1. \A k : Pending(k)' = Pending(k)
    BY <1>4 DEF historyVars, vars, appVars, keyVars, Pending, Held, Fresh, Effective, Clearing
  <2>2. credit' = credit
    BY <1>4 DEF historyVars
  <2> QED
    BY <1>2, <2>1, <2>2 DEF HistoryInv, Covered
<1>5. CASE HistoryNext
  <2>1. credit' = [k \in Keys |->
                     LET granted == IF Raises(k) /\ credit[k] < MaxCredit THEN 1 ELSE 0
                         used    == IF ActsOn(k) THEN 1 ELSE 0
                     IN  credit[k] + granted - used]
    BY <1>5 DEF HistoryNext
  <2>2. credit \in [Keys -> Int] /\ MaxCredit \in Nat \ {0, 1}
    BY MaxCreditAssumption DEF HistoryInv, Covered
  <2>3. ASSUME NEW k \in Keys
        PROVE  credit'[k] \in Int /\ credit'[k] >= Pending(k)'
    <3>1. Accounted(k)
      BY <1>1, StepAccounted DEF HistoryInv
    <3>2. credit[k] \in Int /\ credit[k] >= Pending(k)
      BY <2>2 DEF HistoryInv, Covered
    <3>3. CASE ~ActsOn(k)
      <4>1. credit'[k] = credit[k] + (IF Raises(k) /\ credit[k] < MaxCredit THEN 1 ELSE 0)
        BY <2>1, <3>2, <3>3
      <4> QED
        BY <1>3, <2>2, <3>1, <3>2, <3>3, <4>1 DEF Accounted
    <3>4. CASE ActsOn(k)
      <4>1. credit'[k] \in {credit[k] - 1, credit[k]}
        BY <2>1, <3>2, <3>4
      <4> QED
        BY <1>3, <3>1, <3>2, <3>4, <4>1 DEF Accounted
    <3> QED
      BY <3>3, <3>4
  <2>4. credit' \in [Keys -> Int]
    BY <2>1, <2>3
  <2> QED
    BY <1>2, <2>3, <2>4 DEF HistoryInv, Covered
<1> QED
  BY <1>4, <1>5

\* Nothing is pending at first.
LEMMA InitCredit == HistoryInit => HistoryInv
<1> SUFFICES ASSUME HistoryInit PROVE HistoryInv
  OBVIOUS
<1>1. CoreInv
  BY InitCoreInv DEF HistoryInit
<1>2. /\ \A t \in Threads : call[t].ready = {} /\ call[t].phase = "idle"
      /\ \A k \in Keys : ~eventFlag[k]
  BY DEF HistoryInit, Init, KeyInit, NotPolling
<1>3. CallsInPlace
  BY <1>2, TwoKeys, MachineAssumption DEF CallsInPlace
<1>4. \A k \in Keys : Pending(k) = 0
  BY <1>2 DEF Pending, Held, Fresh, Effective, One
<1> QED
  BY <1>1, <1>3, <1>4 DEF HistoryInv, Covered, HistoryInit

\* The credit covers everything the program may still do for an interrupt.
LEMMA HistoryInvariant == HistorySpec => []HistoryInv
  BY InitCredit, CreditStep, PTL DEF HistorySpec

\* No interrupt makes the program act twice, however many sensor threads poll key 2
\* without a lock, whoever of them is given the event, and although the flags
\* outlive the process (key_driver.c:43-54, test_mac.c:103, 152-185, 598).
THEOREM OneActionPerInterrupt == HistorySpec => []OnePressOneAction
<1>1. HistoryInv => OnePressOneAction
  BY PendingRange DEF HistoryInv, Covered, OnePressOneAction
<1> QED
  BY HistoryInvariant, <1>1, PTL
=============================================================================
