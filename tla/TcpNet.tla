------------------------------- MODULE TcpNet -------------------------------
(***************************************************************************)
(* What the event loop servers of code_2026_05_24 run against: the client  *)
(* program tcp_client.cpp, the kernel's side of its connections, and the   *)
(* operations of Socket.hpp with which the servers reach them.             *)
(*                                                                         *)
(* A message is its number on its connection: sent[c] messages have been   *)
(* sent, taken[c] of them have been received by the server.  A reply is    *)
(* the sequence of the messages it greets.  Every message and reply fits   *)
(* into one recv() (8191 bytes at the server, 2047 at the client).         *)
(***************************************************************************)
EXTENDS Naturals, Sequences, FiniteSets, FiniteSetsExt

CONSTANTS
    Conns,          \* the connections, one per run of the client program
    FdNums,         \* the descriptors the server process may have besides 0..2
    BacklogLimit,   \* BuildTcpServerListenSocket's backlog
    MaxMsgs,        \* bound on the messages of one client
    Listener,       \* the owner of the listening socket's descriptor
    Unused          \* the owner of a free descriptor

ASSUME NetAssumption ==
    /\ FdNums \subseteq Nat \ 0 .. 2
    /\ IsFiniteSet(FdNums) /\ FdNums # {}
    /\ BacklogLimit \in Nat
    /\ MaxMsgs \in Nat
    /\ {Listener, Unused} \cap Conns = {} /\ Listener # Unused

VARIABLES
    client,     \* per connection: where the client program is
    sent,       \* per connection: messages sent to the server
    got,        \* per connection: replies the client has received
    closing,    \* per connection: "open", or how the client ended it
    taken,      \* per connection: messages the server has received
    replies,    \* per connection: the replies the server has sent
    ended,      \* per connection: "no", or how the server ended it
    backlog,    \* the connections that wait for accept()
    fds         \* the server's descriptor table: who owns each number

netVars == <<client, sent, got, closing, taken, replies, ended, backlog, fds>>

\* The listening socket is created first and gets the lowest number.
ListenFd == Min(FdNums)

NetInit ==
    /\ client = [c \in Conns |-> "off"]
    /\ sent = [c \in Conns |-> 0]
    /\ got = [c \in Conns |-> 0]
    /\ closing = [c \in Conns |-> "open"]
    /\ taken = [c \in Conns |-> 0]
    /\ replies = [c \in Conns |-> <<>>]
    /\ ended = [c \in Conns |-> "no"]
    /\ backlog = <<>>
    /\ fds = [fd \in FdNums |-> IF fd = ListenFd THEN Listener ELSE Unused]

----------------------------------------------------------------------------
(* The client program: one message, one reply, until the input is empty.    *)

serverSide == <<taken, replies, ended, fds>>

\* connect(): the handshake is over when the connection is in the backlog.
ClientConnect(c) ==
    /\ client[c] = "off"
    /\ Len(backlog) < BacklogLimit
    /\ client' = [client EXCEPT ![c] = "ready"]
    /\ backlog' = Append(backlog, c)
    /\ UNCHANGED <<sent, got, closing, serverSide>>

ClientSend(c) ==
    /\ client[c] = "ready"
    /\ sent[c] < MaxMsgs
    /\ ended[c] = "no"
    /\ client' = [client EXCEPT ![c] = "waiting"]
    /\ sent' = [sent EXCEPT ![c] = @ + 1]
    /\ UNCHANGED <<got, closing, backlog, serverSide>>

\* send() on a connection that the server has closed: the message is lost and
\* recv() will fail, or SIGPIPE ends the client.
ClientSendLost(c) ==
    /\ client[c] = "ready"
    /\ ended[c] # "no"
    /\ \E next \in {"waiting", "gone"} : client' = [client EXCEPT ![c] = next]
    /\ UNCHANGED <<sent, got, closing, backlog, serverSide>>

Unread(c) == got[c] < Len(replies[c])

ClientRecv(c) ==
    /\ client[c] = "waiting"
    /\ Unread(c)
    /\ got' = [got EXCEPT ![c] = @ + 1]
    /\ client' = [client EXCEPT ![c] = "ready"]
    /\ UNCHANGED <<sent, closing, backlog, serverSide>>

\* recv() finds the connection closed: "recv error", and the loop goes on.
ClientRecvError(c) ==
    /\ client[c] = "waiting"
    /\ ~Unread(c)
    /\ ended[c] # "no"
    /\ client' = [client EXCEPT ![c] = "ready"]
    /\ UNCHANGED <<sent, got, closing, backlog, serverSide>>

\* An empty line closes the connection; a signal does so at any time, and if
\* a reply is left unread the kernel resets the connection.
ClientLeave(c) ==
    /\ client[c] \in {"ready", "waiting"}
    /\ client' = [client EXCEPT ![c] = "gone"]
    /\ closing' = [closing EXCEPT ![c] = IF Unread(c) THEN "rst" ELSE "fin"]
    /\ UNCHANGED <<sent, got, backlog, serverSide>>

ClientAnswered(c) == ClientRecv(c) \/ ClientRecvError(c)

ClientStep(c) ==
    \/ ClientConnect(c) \/ ClientSend(c) \/ ClientSendLost(c)
    \/ ClientAnswered(c) \/ ClientLeave(c)

----------------------------------------------------------------------------
(* The operations of Socket.hpp, seen from the server.                      *)

clientSide == <<client, sent, got>>

\* What select, poll and epoll report for a descriptor.
Readable(fd) ==
    LET c == fds[fd]
    IN  \/ c = Listener /\ backlog # <<>>
        \/ c \in Conns /\ (taken[c] < sent[c] \/ closing[c] # "open")

FreeFds == {fd \in FdNums : fds[fd] = Unused}

\* Accept(): the oldest connection gets the lowest free descriptor.
Accept(fd) ==
    /\ backlog # <<>>
    /\ FreeFds # {} /\ fd = Min(FreeFds)
    /\ fds' = [fds EXCEPT ![fd] = Head(backlog)]
    /\ backlog' = Tail(backlog)
    /\ UNCHANGED <<clientSide, closing, taken, replies, ended>>

\* Accept() followed by close(sock->Fd()).
AcceptAndClose ==
    /\ backlog # <<>>
    /\ FreeFds # {}
    /\ ended' = [ended EXCEPT ![Head(backlog)] = "refused"]
    /\ backlog' = Tail(backlog)
    /\ UNCHANGED <<clientSide, closing, taken, replies, fds>>

\* accept() fails: no descriptor or no memory is left, or a signal came; the
\* connection stays in the backlog.
AcceptFails ==
    /\ backlog # <<>>
    /\ UNCHANGED netVars

\* Recv() returns everything that has arrived ...
Recv(c) ==
    /\ taken[c] < sent[c]
    /\ taken' = [taken EXCEPT ![c] = sent[c]]
    /\ UNCHANGED <<clientSide, closing, replies, ended, backlog, fds>>

Buffer(c) == [i \in 1 .. sent[c] - taken[c] |-> taken[c] + i]

\* ... or 0 or -1 when the client has ended the connection: Close().
RecvEndAndClose(fd) ==
    LET c == fds[fd]
    IN  /\ taken[c] = sent[c]
        /\ closing[c] # "open"
        /\ ended' = [ended EXCEPT ![c] = "finished"]
        /\ fds' = [fds EXCEPT ![fd] = Unused]
        /\ UNCHANGED <<clientSide, closing, taken, replies, backlog>>

\* Send(): a client that has gone answers with a reset.
Send(c, buff) ==
    /\ closing[c] # "rst"
    /\ replies' = [replies EXCEPT ![c] = Append(@, buff)]
    /\ closing' = [closing EXCEPT ![c] = IF @ = "fin" THEN "rst" ELSE @]
    /\ UNCHANGED <<clientSide, taken, ended, backlog, fds>>

----------------------------------------------------------------------------
\* The variables have their types, and no connection has had more replies than
\* the server has taken messages from it.
NetTypeOK ==
    /\ client \in [Conns -> {"off", "ready", "waiting", "gone"}]
    /\ sent \in [Conns -> 0 .. MaxMsgs]
    /\ got \in [Conns -> 0 .. MaxMsgs]
    /\ closing \in [Conns -> {"open", "fin", "rst"}]
    /\ taken \in [Conns -> 0 .. MaxMsgs]
    /\ replies \in [Conns -> Seq(Seq(1 .. MaxMsgs))]
    /\ \A c \in Conns : Len(replies[c]) <= taken[c]
    /\ ended \in [Conns -> {"no", "refused", "finished"}]
    /\ backlog \in Seq(Conns)
    /\ fds \in [FdNums -> Conns \cup {Listener, Unused}]

Admitted == {c \in Conns : \E fd \in FdNums : fds[fd] = c}

\* A client waits for a reply, not for ever: it gets one, or finds that the
\* server has closed its connection.
NobodyWaitsForEver ==
    \A c \in Conns : client[c] = "waiting" ~> client[c] # "waiting"

\* Reply k answers message k and nothing else: two messages are never merged
\* into one reply, and no reply is for an older message.
RepliesMatch ==
    \A c \in Conns : replies[c] = [k \in 1 .. Len(replies[c]) |-> <<k>>]

----------------------------------------------------------------------------
(* What every step of the servers and their clients keeps.                  *)

\* A client is one message ahead of its replies at most, and gone once it has
\* ended the connection; a connection is reset only after its last reply.
OneAhead(c) ==
    /\ got[c] <= Len(replies[c]) /\ taken[c] <= sent[c] /\ sent[c] <= got[c] + 1
    /\ client[c] = "off" => sent[c] = 0 /\ ended[c] = "no"
    /\ client[c] = "ready" => sent[c] = got[c] \/ ended[c] # "no"
    /\ closing[c] # "open" => client[c] = "gone"
    /\ closing[c] = "rst" => Len(replies[c]) = sent[c]
OneAtATime == \A c \in Conns : OneAhead(c)

\* The connection is there and the server has not ended it.
Alive(c) == client[c] # "off" /\ ended[c] = "no"

\* A connection is in one place: in the backlog or behind one descriptor.
OnePlace ==
    /\ fds[ListenFd] = Listener
    /\ \A f, g \in FdNums : fds[f] = fds[g] /\ fds[f] # Unused => f = g
    /\ \A f \in FdNums : fds[f] \in Conns => Alive(fds[f])
    /\ \A m \in 1 .. Len(backlog) :
          /\ Alive(backlog[m])
          /\ \A n \in 1 .. Len(backlog) : backlog[m] = backlog[n] => m = n
          /\ \A f \in FdNums : fds[f] # backlog[m]

NetInv == NetTypeOK /\ OneAtATime /\ OnePlace

\* A server's table of descriptors, none where it has none: the listening socket
\* keeps place 0, every descriptor has one place, and all that are open have one.
Tabled(table, none) ==
    /\ table[0] = ListenFd
    /\ \A i, j \in DOMAIN table : table[i] = table[j] /\ table[i] # none => i = j
    /\ {table[i] : i \in DOMAIN table} \ {none} = FdNums \ FreeFds

----------------------------------------------------------------------------
\* The connections as the abstract service EchoService sees them.
StateOf(c) ==
    IF client[c] = "off" THEN "away"
    ELSE IF ended[c] # "no" THEN ended[c]
    ELSE IF c \in Admitted THEN "admitted" ELSE "queued"
ServiceState == [c \in Conns |-> StateOf(c)]
ServiceHere == [c \in Conns |-> client[c] \in {"ready", "waiting"}]
ServiceAnswered == [c \in Conns |-> Len(replies[c])]

\* The abstract service with so many places.
Echo(places) == INSTANCE EchoService WITH
    Places <- places,
    state <- ServiceState, here <- ServiceHere,
    asked <- sent, answered <- ServiceAnswered
=============================================================================
