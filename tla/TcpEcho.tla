------------------------------- MODULE TcpEcho -------------------------------
(***************************************************************************)
(* The echo client and server of code/tcp.  The client sends a line, then  *)
(* reads once and shows what it got; the server writes back whatever it    *)
(* reads.  TCP delivers the bytes in order, but in pieces of any size, so  *)
(* a reply may come in parts, and the rest of it is read as the reply to   *)
(* the next line.                                                          *)
(*                                                                         *)
(* The connection is modelled from its use: two streams of bytes, of which *)
(* a read takes one or more, 0 for a peer that has closed and a last error *)
(* for one that closed without reading everything.  A byte is the number   *)
(* of the line it is from.                                                 *)
(***************************************************************************)
EXTENDS Naturals, SequencesExt

CONSTANTS
  BufSize,   \* BUFSIZE: 30
  MaxLines   \* bound for model checking: lines sent

ASSUME EchoAssumption == BufSize \in Nat \ {0, 1} /\ MaxLines \in Nat

VARIABLES
  client,    \* "input", "write", "read" or "exited"
  server,    \* "accept", "read", "write" or "exited"
  lines,     \* lines sent
  message,   \* message of the client
  held,      \* message of the server, up to str_len
  toServer,  \* bytes written and not read yet
  toClient,
  reset,     \* the client closed without reading everything
  sent,      \* history: everything the client wrote
  shown      \* history: everything the client showed

vars == <<client, server, lines, message, held, toServer, toClient, reset, sent, shown>>

Init ==
  /\ client = "input" /\ server = "accept"
  /\ lines = 0 /\ message = <<>> /\ held = <<>>
  /\ toServer = <<>> /\ toClient = <<>> /\ reset = FALSE
  /\ sent = <<>> /\ shown = <<>>

Bytes(n, k) == [i \in 1 .. n |-> k]
Take(s, n) == SubSeq(s, 1, n)
Rest(s, n) == SubSeq(s, n + 1, Len(s))

----------------------------------------------------------------------------
(* The client, connected by the listening socket before the accept. *)

\* fgets gives at most BUFSIZE - 1 bytes of a line.
Input ==
  /\ client = "input"
  /\ lines < MaxLines
  /\ \E n \in 1 .. BufSize - 1 : message' = Bytes(n, lines + 1)
  /\ lines' = lines + 1
  /\ client' = "write"
  /\ UNCHANGED <<server, held, toServer, toClient, reset, sent, shown>>

\* The input has ended: fgets leaves the message empty, and it is sent.
InputEnds ==
  /\ client = "input"
  /\ message' = <<>>
  /\ client' = "write"
  /\ UNCHANGED <<server, lines, held, toServer, toClient, reset, sent, shown>>

\* A "q" ends the loop: close(sock).
Quit ==
  /\ client = "input"
  /\ client' = "exited"
  /\ reset' = (toClient # <<>>)
  /\ UNCHANGED <<server, lines, message, held, toServer, toClient, sent, shown>>

ClientWrite ==
  /\ client = "write"
  /\ toServer' = toServer \o message
  /\ sent' = sent \o message
  /\ client' = "read"
  /\ UNCHANGED <<server, lines, message, held, toClient, reset, shown>>

\* Mutant: read(sock, message, BUFSIZE).
ClientReadFull ==
  /\ client = "read"
  /\ \E n \in 1 .. BufSize :
       /\ n <= Len(toClient)
       /\ message' = Take(toClient, n)
       /\ toClient' = Rest(toClient, n)
       /\ shown' = shown \o Take(toClient, n)
  /\ client' = "input"
  /\ UNCHANGED <<server, lines, held, toServer, reset, sent>>

\* Mutant: the client reads until the reply is as long as the line.
ClientReadAll ==
  /\ client = "read"
  /\ Len(toClient) >= BufSize
  /\ message' = Take(toClient, BufSize - 1)
  /\ toClient' = Rest(toClient, BufSize - 1)
  /\ shown' = shown \o Take(toClient, BufSize - 1)
  /\ client' = "input"
  /\ UNCHANGED <<server, lines, held, toServer, reset, sent>>

\* One read of at most BUFSIZE - 1 bytes; message[str_len] = 0 ends them.
ClientRead ==
  /\ client = "read"
  /\ \E n \in 1 .. BufSize - 1 :
       /\ n <= Len(toClient)
       /\ message' = Take(toClient, n)
       /\ toClient' = Rest(toClient, n)
       /\ shown' = shown \o Take(toClient, n)
  /\ client' = "input"
  /\ UNCHANGED <<server, lines, held, toServer, reset, sent>>

----------------------------------------------------------------------------
(* The server. *)

Accept ==
  /\ server = "accept"
  /\ server' = "read"
  /\ UNCHANGED <<client, lines, message, held, toServer, toClient, reset, sent, shown>>

ServerRead ==
  /\ server = "read"
  /\ \E n \in 1 .. BufSize :
       /\ n <= Len(toServer)
       /\ held' = Take(toServer, n)
       /\ toServer' = Rest(toServer, n)
  /\ server' = "write"
  /\ UNCHANGED <<client, lines, message, toClient, reset, sent, shown>>

\* read gives -1, which is not 0: write of -1 bytes fails, and the loop goes on.
\* The error is reported once, and what was not read by then is gone.
ServerReadFails ==
  /\ server = "read"
  /\ reset
  /\ reset' = FALSE
  /\ toServer' = <<>>
  /\ UNCHANGED <<client, server, lines, message, held, toClient, sent, shown>>

\* Mutant: the buffer is cleared before it is written back.
ServerWriteCleared ==
  /\ server = "write"
  /\ toClient' = toClient \o Bytes(Len(held), 0)
  /\ held' = <<>>
  /\ server' = "read"
  /\ UNCHANGED <<client, lines, message, toServer, reset, sent, shown>>

\* To a client that has closed the bytes are lost, and bring a reset; a write
\* after it fails, or ends the server by SIGPIPE.
ServerWrite ==
  /\ server = "write"
  /\ held' = <<>>
  /\ IF client = "exited"
     THEN /\ reset' = ~reset
          /\ server' \in IF reset THEN {"exited", "read"} ELSE {"read"}
          /\ UNCHANGED toClient
     ELSE /\ toClient' = toClient \o held
          /\ server' = "read"
          /\ UNCHANGED reset
  /\ UNCHANGED <<client, lines, message, toServer, sent, shown>>

\* Mutant: while (read(...) > 0) around a wait for the next client.
ServerWaits ==
  /\ server = "read" /\ client = "exited" /\ toServer = <<>> /\ ~reset
  /\ server' = "accept"
  /\ UNCHANGED <<client, lines, message, held, toServer, toClient, reset, sent, shown>>

\* read gives 0: the client has closed, and everything has been read.
ServerEnd ==
  /\ server = "read" /\ client = "exited" /\ toServer = <<>> /\ ~reset
  /\ server' = "exited"
  /\ UNCHANGED <<client, lines, message, held, toServer, toClient, reset, sent, shown>>

Client == Input \/ InputEnds \/ Quit \/ ClientWrite \/ ClientRead
Server == Accept \/ ServerRead \/ ServerReadFails \/ ServerWrite \/ ServerEnd

Next == Client \/ Server

Spec == Init /\ [][Next]_vars

\* Bytes arrive and both programs are scheduled; nobody has to type.
Fairness == WF_vars(Server) /\ WF_vars(ClientWrite \/ ClientRead)

FairSpec == Spec /\ Fairness

----------------------------------------------------------------------------
\* The values each variable takes; what is read fits its buffer, the client's
\* with the 0 that ends it (client.c:50-54, server.c:52).
TypeOK ==
  /\ client \in {"input", "write", "read", "exited"}
  /\ server \in {"accept", "read", "write", "exited"}
  /\ lines \in 0 .. MaxLines
  /\ Len(message) <= BufSize - 1 /\ Len(held) <= BufSize
  /\ reset \in BOOLEAN

\* While the client runs every byte it sent is shown, on its way or in the
\* server, once and in order, however the streams are cut into reads and
\* however far the replies lag behind the lines (client.c:48-55, server.c:52-57).
EchoIsOrdered ==
  client # "exited" => shown \o toClient \o held \o toServer = sent

\* Client and server wait for each other only at the end of the client's input:
\* whoever sent a line, or still has a part of an earlier reply to come, reads
\* something and goes on, although each read is matched to no reply in particular
\* (client.c:43-50, server.c:52-57).
ReplyComes ==
  client = "read" /\ (message # <<>> \/ shown # sent) ~> client # "read"

\* The server ends after its client, also when the client left replies unread.
ServerEnds ==
  client = "exited" ~> server = "exited"
=============================================================================
