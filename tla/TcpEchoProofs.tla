---------------------------- MODULE TcpEchoProofs ----------------------------
(***************************************************************************)
(* The echo loses, doubles and reorders nothing, and neither program waits *)
(* for the other in vain or for ever, for buffers of any size and any      *)
(* number of lines.                                                        *)
(***************************************************************************)
EXTENDS TcpEcho, SequenceTheorems, TLAPS

\* Messages and streams are sequences of bytes.
Streams ==
  /\ message \in Seq(Nat) /\ held \in Seq(Nat)
  /\ toServer \in Seq(Nat) /\ toClient \in Seq(Nat)
  /\ sent \in Seq(Nat) /\ shown \in Seq(Nat)

\* The server holds bytes only between its read and its write, and a
\* connection is reset only by a client that has gone.
EchoInv ==
  /\ TypeOK
  /\ Streams
  /\ server # "write" => held = <<>>
  /\ reset => client = "exited"
  /\ EchoIsOrdered

\* What a read takes and what it leaves are the stream.
LEMMA TakeAndRest ==
  ASSUME NEW s \in Seq(Nat), NEW n \in 1 .. Len(s)
  PROVE  /\ Take(s, n) \in Seq(Nat) /\ Rest(s, n) \in Seq(Nat)
         /\ Len(Take(s, n)) = n
         /\ Take(s, n) \o Rest(s, n) = s
<1>1. Take(s, n) \in Seq(Nat) /\ Len(Take(s, n)) = n
  BY DEF Take
<1>2. Rest(s, n) \in Seq(Nat) /\ Len(Rest(s, n)) = Len(s) - n
  BY DEF Rest
<1>3. Take(s, n) \o Rest(s, n) = SubSeq(s, 1, Len(s))
  BY ConcatAdjacentSubSeq DEF Take, Rest
<1>4. SubSeq(s, 1, Len(s)) = s
  BY SubSeqFull
<1> QED
  BY <1>1, <1>2, <1>3, <1>4

\* A write after a write is a longer stream.
LEMMA Joined ==
  ASSUME NEW a \in Seq(Nat), NEW b \in Seq(Nat)
  PROVE  a \o b \in Seq(Nat)
  BY ConcatProperties

\* Where two pieces of the four meet does not matter.
LEMMA Regroup == \A a, b, c \in Seq(Nat) : (a \o b) \o c = a \o (b \o c)
  BY ConcatAssociative

\* An empty piece adds nothing.
LEMMA EmptyConcat ==
  ASSUME NEW a \in Seq(Nat)
  PROVE  a \o <<>> = a /\ <<>> \o a = a
  BY ConcatEmptySeq

\* A line is as long as it was read.
LEMMA BytesAreStream ==
  ASSUME NEW n \in Nat, NEW k \in Nat
  PROVE  Bytes(n, k) \in Seq(Nat) /\ Len(Bytes(n, k)) = n
  BY DEF Bytes

----------------------------------------------------------------------------
\* Nothing is sent, held or shown at first.
LEMMA InitEcho == Init => EchoInv
<1>1. <<>> \in Seq(Nat) /\ Len(<<>>) = 0 /\ <<>> \o <<>> = <<>>
  BY EmptyConcat
<1> SUFFICES ASSUME Init PROVE EchoInv
  OBVIOUS
<1>2. TypeOK
  <2>1. Len(message) = 0 /\ Len(held) = 0 /\ lines = 0 /\ reset = FALSE
    BY <1>1 DEF Init
  <2>2. 0 <= BufSize - 1 /\ 0 <= BufSize /\ 0 \in 0 .. MaxLines
    BY EchoAssumption
  <2>3. client = "input" /\ server = "accept"
    BY DEF Init
  <2> QED
    BY <2>1, <2>2, <2>3 DEF TypeOK
<1>4. Streams
  BY <1>1, Zenon DEF Init, Streams
<1>3. EchoIsOrdered
  <2>1. /\ shown = <<>> /\ toClient = <<>> /\ held = <<>>
        /\ toServer = <<>> /\ sent = <<>>
    BY DEF Init
  <2>2. shown \o toClient = <<>>
    BY <1>1, <2>1
  <2>3. (shown \o toClient) \o held = <<>>
    BY <1>1, <2>1, <2>2
  <2>4. ((shown \o toClient) \o held) \o toServer = <<>>
    BY <1>1, <2>1, <2>3
  <2> QED
    BY <2>1, <2>4 DEF EchoIsOrdered
<1> QED
  BY <1>2, <1>3, <1>4 DEF Init, EchoInv

\* The steps that move no bytes.
LEMMA StepsWithoutBytes ==
  ASSUME EchoInv,
         Input \/ InputEnds \/ Quit \/ Accept \/ ServerEnd \/ UNCHANGED vars
  PROVE  EchoInv'
<1> USE EchoAssumption DEF EchoInv, TypeOK, Streams, EchoIsOrdered
<1>1. CASE Input
  <2>1. PICK n \in 1 .. BufSize - 1 : message' = Bytes(n, lines + 1)
    BY <1>1 DEF Input
  <2>2. message' \in Seq(Nat) /\ Len(message') = n
    BY <2>1, BytesAreStream
  <2>3. client = "input" /\ lines < MaxLines /\ lines' = lines + 1 /\ client' = "write"
    BY <1>1 DEF Input
  <2>4. UNCHANGED <<server, held, toServer, toClient, reset, sent, shown>>
    BY <1>1 DEF Input
  <2>5. lines' \in 0 .. MaxLines /\ Len(message') <= BufSize - 1
    BY <2>2, <2>3
  <2> QED
    BY <2>2, <2>3, <2>4, <2>5
<1>2. CASE InputEnds
  <2>1. message' \in Seq(Nat) /\ Len(message') = 0
    BY <1>2 DEF InputEnds
  <2> QED
    BY <1>2, <2>1 DEF InputEnds
<1>3. CASE Quit
  BY <1>3 DEF Quit
<1>4. CASE Accept
  BY <1>4 DEF Accept
<1>5. CASE ServerEnd
  BY <1>5 DEF ServerEnd
<1>6. CASE UNCHANGED vars
  BY <1>6 DEF vars
<1> QED
  BY <1>1, <1>2, <1>3, <1>4, <1>5, <1>6

\* The client moves its line to the stream, and shows the head of the other.
LEMMA ClientSteps ==
  ASSUME EchoInv, ClientWrite \/ ClientRead
  PROVE  EchoInv'
<1> USE EchoAssumption DEF EchoInv, TypeOK, Streams
<1> DEFINE before == (shown \o toClient) \o held
<1>1. before \in Seq(Nat)
  BY Joined
<1>2. CASE ClientWrite
  <2>1. toServer' \in Seq(Nat) /\ sent' \in Seq(Nat)
    BY <1>2, Joined DEF ClientWrite
  <2>2. before \o (toServer \o message) = (before \o toServer) \o message
    BY <1>1, Regroup, ZenonT(40)
  <2>3. EchoIsOrdered'
    BY <1>2, <2>2 DEF ClientWrite, EchoIsOrdered
  <2> QED
    BY <1>2, <2>1, <2>3 DEF ClientWrite
<1>3. CASE ClientRead
  <2>1. PICK n \in 1 .. BufSize - 1 :
          /\ n <= Len(toClient)
          /\ message' = Take(toClient, n)
          /\ toClient' = Rest(toClient, n)
          /\ shown' = shown \o Take(toClient, n)
    BY <1>3 DEF ClientRead
  <2>2. n \in 1 .. Len(toClient)
    BY <2>1
  <2>3. /\ message' \in Seq(Nat) /\ toClient' \in Seq(Nat)
        /\ Len(message') = n
        /\ message' \o toClient' = toClient
    BY <2>1, <2>2, TakeAndRest
  <2>4. shown' \in Seq(Nat) /\ shown' \o toClient' = shown \o toClient
    <3>1. shown' = shown \o message'
      BY <2>1
    <3>2. shown \o message' \in Seq(Nat)
      BY <2>3, Joined
    <3>3. (shown \o message') \o toClient' = shown \o toClient
      <4>1. (shown \o message') \o toClient' = shown \o (message' \o toClient')
        BY <2>3, Regroup, ZenonT(40)
      <4> QED
        BY <2>3, <4>1
    <3> QED
      BY <3>1, <3>2, <3>3
  <2>5. EchoIsOrdered'
    BY <1>3, <2>4 DEF ClientRead, EchoIsOrdered
  <2> QED
    BY <1>3, <2>3, <2>4, <2>5 DEF ClientRead
<1> QED
  BY <1>2, <1>3

\* The server moves bytes from one stream to the other.
LEMMA ServerSteps ==
  ASSUME EchoInv, ServerRead \/ ServerReadFails \/ ServerWrite
  PROVE  EchoInv'
<1> USE EchoAssumption DEF EchoInv, TypeOK, Streams
<1> DEFINE before == shown \o toClient
<1>1. before \in Seq(Nat)
  BY Joined
<1>2. CASE ServerRead
  <2>1. PICK n \in 1 .. BufSize :
          /\ n <= Len(toServer)
          /\ held' = Take(toServer, n)
          /\ toServer' = Rest(toServer, n)
    BY <1>2 DEF ServerRead
  <2>2. n \in 1 .. Len(toServer)
    BY <2>1
  <2>3. /\ held' \in Seq(Nat) /\ toServer' \in Seq(Nat)
        /\ Len(held') = n
        /\ held' \o toServer' = toServer
    BY <2>1, <2>2, TakeAndRest
  <2>4. held = <<>> /\ before \o held = before
    BY <1>1, <1>2, EmptyConcat DEF ServerRead
  <2>5. (before \o held') \o toServer' = (before \o held) \o toServer
    <3>1. (before \o held') \o toServer' = before \o toServer
      <4>1. held' \in Seq(Nat) /\ toServer' \in Seq(Nat)
        BY <2>3
      <4> HIDE EchoAssumption DEF EchoInv, TypeOK, Streams
      <4>2. \A x \in Seq(Nat) : (x \o held') \o toServer' = x \o (held' \o toServer')
        BY <4>1, Regroup
      <4>3. \A x \in Seq(Nat) : (x \o held') \o toServer' = x \o toServer
        BY <2>3, <4>2
      <4> QED
        BY <1>1, <4>3
    <3> QED
      BY <2>4, <3>1
  <2>6. EchoIsOrdered'
    BY <1>2, <2>5 DEF ServerRead, EchoIsOrdered
  <2> QED
    BY <1>2, <2>3, <2>6 DEF ServerRead
<1>3. CASE ServerReadFails
  BY <1>3 DEF ServerReadFails, EchoIsOrdered
<1>4. CASE ServerWrite /\ client = "exited"
  BY <1>4 DEF ServerWrite, EchoIsOrdered
<1>5. CASE ServerWrite /\ client # "exited"
  <2>1. toClient' = toClient \o held /\ held' = <<>>
    BY <1>5 DEF ServerWrite
  <2>2. toClient \o held \in Seq(Nat) /\ before \o held \in Seq(Nat)
    BY <1>1, Joined
  <2>3. before \o held = shown \o (toClient \o held)
    BY Regroup
  <2>4. (before \o held) \o <<>> = before \o held
    BY <2>2, EmptyConcat
  <2>5. (shown \o toClient') \o held' = before \o held
    BY <2>1, <2>3, <2>4
  <2>6. EchoIsOrdered'
    BY <1>5, <2>5 DEF ServerWrite, EchoIsOrdered
  <2>7. toClient' \in Seq(Nat) /\ held' \in Seq(Nat) /\ Len(held') = 0
    BY <2>1, <2>2
  <2> QED
    BY <1>5, <2>1, <2>6, <2>7 DEF ServerWrite
<1> QED
  BY <1>2, <1>3, <1>4, <1>5

----------------------------------------------------------------------------
\* So the invariant holds throughout.
LEMMA EchoInvariant == Spec => []EchoInv
<1>1. EchoInv /\ [Next]_vars => EchoInv'
  BY StepsWithoutBytes, ClientSteps, ServerSteps DEF Next, Client, Server
<1> QED
  BY InitEcho, <1>1, PTL DEF Spec

\* While the client runs, every byte it sent is shown, on its way or in the
\* server, once and in order, whatever the size of the buffers and wherever
\* the reads cut the streams (client.c:48-55, server.c:52-57).
THEOREM EchoOrdered == Spec => []EchoIsOrdered
<1>1. EchoInv => EchoIsOrdered
  BY DEF EchoInv
<1> QED
  BY EchoInvariant, <1>1, PTL

\* What either program reads fits its buffer, with the 0 that the client adds
\* (client.c:50-54, server.c:52).
THEOREM BuffersSuffice == Spec => []TypeOK
<1>1. EchoInv => TypeOK
  BY DEF EchoInv
<1> QED
  BY EchoInvariant, <1>1, PTL

----------------------------------------------------------------------------
(* Client and server never wait for each other, and not for ever.           *)

\* What a client that reads will get: from the stream to it, from the server, or
\* from the stream that the server is about to read.
ReplyIsComing ==
  \/ toClient # <<>>
  \/ server = "write" /\ held # <<>>
  \/ server \in {"accept", "read"} /\ toServer # <<>>

\* The server holds a piece while it has one to write, it does not end before its
\* client, and a line that was sent and not answered yet is not shown yet.
WaitInv ==
  /\ server = "write" => held # <<>>
  /\ client # "exited" => server # "exited"
  /\ client = "read" /\ message # <<>> => shown # sent

\* A bound on the steps left to the server: to read and to write each byte, where a write
\* may bring a reset; to report a reset; to accept and to end.
WorkLeft ==
  4 * Len(toServer) + 2 * Len(held) + (IF reset THEN 1 ELSE 0)
    + (CASE server = "accept" -> 2
          [] server \in {"read", "write"} -> 1
          [] server = "exited" -> 0)

\* A stream is empty when its length is 0, and lengths of pieces add up.
LEMMA Lengths ==
  /\ \A s \in Seq(Nat) : Len(s) \in Nat /\ (s = <<>> <=> Len(s) = 0)
  /\ \A s, t \in Seq(Nat) : Len(s \o t) = Len(s) + Len(t)
<1>1. \A s \in Seq(Nat) : Len(s) \in Nat /\ (s = <<>> <=> Len(s) = 0)
  BY EmptySeq
<1>2. \A s, t \in Seq(Nat) : Len(s \o t) = Len(s) + Len(t)
  BY ConcatProperties
<1> QED
  BY <1>1, <1>2

\* Nobody has read anything at first.
LEMMA InitWait == Init => WaitInv
  BY DEF Init, WaitInv

\* The server takes a piece when it reads, and ends only after the client.
LEMMA WaitStep ==
  ASSUME EchoInv, WaitInv, [Next]_vars
  PROVE  WaitInv'
<1>1. /\ held \in Seq(Nat) /\ toServer \in Seq(Nat) /\ toClient \in Seq(Nat)
      /\ message \in Seq(Nat) /\ sent \in Seq(Nat) /\ shown \in Seq(Nat)
  BY DEF EchoInv, Streams
<1>2. CASE Input \/ InputEnds \/ Quit \/ Accept \/ UNCHANGED vars
  BY <1>2 DEF Input, InputEnds, Quit, Accept, vars, WaitInv
<1>3. CASE ClientWrite
  <2>1. ASSUME message # <<>> PROVE shown # sent \o message
    <3>1. ((shown \o toClient) \o held) \o toServer = sent
      BY <1>3 DEF ClientWrite, EchoInv, EchoIsOrdered
    <3>2. Len(sent) = Len(shown) + Len(toClient) + Len(held) + Len(toServer)
      <4>1. shown \o toClient \in Seq(Nat) /\ (shown \o toClient) \o held \in Seq(Nat)
        BY <1>1, Joined
      <4>2. /\ Len(shown \o toClient) = Len(shown) + Len(toClient)
            /\ Len((shown \o toClient) \o held) = Len(shown \o toClient) + Len(held)
            /\ Len(((shown \o toClient) \o held) \o toServer)
                 = Len((shown \o toClient) \o held) + Len(toServer)
        BY <1>1, <4>1, Lengths
      <4> QED
        BY <3>1, <4>2
    <3>3. Len(sent \o message) = Len(sent) + Len(message) /\ Len(message) > 0
      BY <1>1, <2>1, Lengths
    <3>4. /\ Len(shown) \in Nat /\ Len(toClient) \in Nat /\ Len(held) \in Nat
          /\ Len(toServer) \in Nat /\ Len(message) \in Nat
      BY <1>1, Lengths
    <3>5. Len(shown) # Len(sent \o message)
      BY <3>2, <3>3, <3>4
    <3> QED
      BY <3>5
  <2>2. /\ client = "write" /\ client' = "read" /\ sent' = sent \o message
        /\ UNCHANGED <<server, held, message, shown>>
    BY <1>3 DEF ClientWrite
  <2> QED
    BY <2>1, <2>2 DEF WaitInv
<1>4. CASE ClientRead
  BY <1>4 DEF ClientRead, WaitInv
<1>5. CASE ServerRead
  <2>1. PICK n \in 1 .. BufSize : n <= Len(toServer) /\ held' = Take(toServer, n)
    BY <1>5 DEF ServerRead
  <2>2. n \in 1 .. Len(toServer)
    BY <1>1, <2>1, Lengths, EchoAssumption
  <2>3. held' # <<>>
    BY <1>1, <2>1, <2>2, TakeAndRest, Lengths
  <2> QED
    BY <1>5, <2>3 DEF ServerRead, WaitInv
<1>6. CASE ServerReadFails
  BY <1>6 DEF ServerReadFails, WaitInv
<1>7. CASE ServerWrite
  BY <1>7 DEF ServerWrite, WaitInv
<1>8. CASE ServerEnd
  BY <1>8 DEF ServerEnd, WaitInv
<1> QED
  BY <1>2, <1>3, <1>4, <1>5, <1>6, <1>7, <1>8 DEF Next, Client, Server

\* In every reachable state the server holds a piece while it writes, outlives its client,
\* and a line under way is not shown before its reply has come.
LEMMA WaitInvariant == Spec => []WaitInv
  BY InitWait, WaitStep, EchoInvariant, PTL DEF Spec

\* ReplyComes, as far as it is safety: whoever waits for a reply has one coming, in the
\* stream to it or by way of a server that is there and has something to read or to
\* write (client.c:43-50, server.c:52-57).
THEOREM NobodyWaitsInVain ==
  Spec => [](client = "read" /\ (message # <<>> \/ shown # sent) => ReplyIsComing)
<1>1. ASSUME EchoInv, WaitInv, client = "read", message # <<>> \/ shown # sent
      PROVE  ReplyIsComing
  <2> SUFFICES ASSUME ~ReplyIsComing PROVE FALSE
    OBVIOUS
  <2>1. shown # sent /\ server # "exited"
    BY <1>1 DEF WaitInv
  <2>2. toClient = <<>> /\ held = <<>> /\ toServer = <<>>
    BY <1>1, <2>1 DEF ReplyIsComing, EchoInv, TypeOK, WaitInv
  <2>3. ((shown \o <<>>) \o <<>>) \o <<>> = sent
    BY <1>1, <2>2 DEF EchoInv, EchoIsOrdered
  <2>4. shown \in Seq(Nat)
    BY <1>1 DEF EchoInv, Streams
  <2> QED
    BY <2>1, <2>3, <2>4, EmptyConcat
<1> QED
  BY <1>1, EchoInvariant, WaitInvariant, PTL

\* What the server has left to do is a number.
LEMMA WorkType == EchoInv => WorkLeft \in Nat
<1> SUFFICES ASSUME EchoInv PROVE WorkLeft \in Nat
  OBVIOUS
<1>1. Len(toServer) \in Nat /\ Len(held) \in Nat
  BY Lengths DEF EchoInv, Streams
<1>2. server \in {"accept", "read", "write", "exited"}
  BY DEF EchoInv, TypeOK
<1> QED
  BY <1>1, <1>2 DEF WorkLeft

\* Every step of the server leaves it less.
LEMMA ServerWorks ==
  ASSUME EchoInv, WaitInv, Server
  PROVE  WorkLeft' < WorkLeft
<1>1. held \in Seq(Nat) /\ toServer \in Seq(Nat) /\ reset \in BOOLEAN
  BY DEF EchoInv, Streams, TypeOK
<1>2. Len(toServer) \in Nat /\ Len(held) \in Nat /\ Len(<<>>) = 0
  BY <1>1, Lengths
<1>3. CASE Accept
  BY <1>2, <1>3 DEF Accept, WorkLeft
<1>4. CASE ServerRead
  <2>1. PICK n \in 1 .. BufSize :
          n <= Len(toServer) /\ held' = Take(toServer, n) /\ toServer' = Rest(toServer, n)
    BY <1>4 DEF ServerRead
  <2>2. n \in 1 .. Len(toServer)
    BY <1>2, <2>1, EchoAssumption
  <2>3. Len(held') = n /\ Len(toServer') = Len(toServer) - n
    <3>1. /\ held' \in Seq(Nat) /\ toServer' \in Seq(Nat) /\ Len(held') = n
          /\ held' \o toServer' = toServer
      BY <1>1, <2>1, <2>2, TakeAndRest
    <3>2. Len(toServer) = Len(held') + Len(toServer') /\ Len(toServer') \in Nat
      BY <3>1, Lengths
    <3> QED
      BY <1>2, <2>2, <3>1, <3>2
  <2>4. held = <<>>
    BY <1>4 DEF ServerRead, EchoInv
  <2>5. server = "read" /\ server' = "write" /\ reset' = reset
    BY <1>4 DEF ServerRead
  <2> QED
    BY <1>2, <2>2, <2>3, <2>4, <2>5 DEF WorkLeft
<1>5. CASE ServerReadFails
  BY <1>2, <1>5 DEF ServerReadFails, WorkLeft
<1>6. CASE ServerWrite
  <2>1. Len(held) > 0
    BY <1>1, <1>6, Lengths DEF ServerWrite, WaitInv
  <2>2. /\ server = "write" /\ server' \in {"exited", "read"} /\ held' = <<>>
        /\ toServer' = toServer /\ reset' \in BOOLEAN
    BY <1>1, <1>6 DEF ServerWrite
  <2> QED
    BY <1>1, <1>2, <2>1, <2>2 DEF WorkLeft
<1>7. CASE ServerEnd
  BY <1>2, <1>7 DEF ServerEnd, WorkLeft
<1> QED
  BY <1>3, <1>4, <1>5, <1>6, <1>7 DEF Server

\* ReplyComes and ServerEnds, as far as they are safety: while the client waits for a
\* reply, and when it has gone, every step that is not its read leaves the server less to
\* do, so that the server cannot go on for ever without it (client.c:48-50,
\* server.c:52-59).
THEOREM WaitsAreFinite ==
  Spec => /\ [](WorkLeft \in Nat)
          /\ [][client' = client /\ client \in {"read", "exited"}
                  => WorkLeft' < WorkLeft]_vars
<1>1. ASSUME EchoInv, WaitInv, [Next]_vars
      PROVE  [client' = client /\ client \in {"read", "exited"}
                => WorkLeft' < WorkLeft]_vars
  <2>1. CASE Server
    BY <1>1, <2>1, ServerWorks
  <2>2. CASE Client
    BY <2>2 DEF Client, Input, InputEnds, Quit, ClientWrite, ClientRead
  <2>3. CASE UNCHANGED vars
    BY <2>3
  <2> QED
    BY <1>1, <2>1, <2>2, <2>3 DEF Next
<1> QED
  BY <1>1, WorkType, EchoInvariant, WaitInvariant, PTL DEF Spec
=============================================================================
