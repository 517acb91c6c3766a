---------------------------- MODULE ThreadServer ----------------------------
(***************************************************************************)
(* TcpServer of code_2026_05_23/code1/tcp_server.hpp: the main thread only *)
(* accepts, and a detached thread serves each connection.  The clients run *)
(* the program that TcpNet models.                                         *)
(*                                                                         *)
(* A thread knows its connection by the number it captured; what it reaches*)
(* is whatever the descriptor table holds under that number when it calls. *)
(***************************************************************************)
EXTENDS TcpNet, Functions

CONSTANTS NoFd      \* no descriptor

ASSUME ThreadAssumption == NoFd \notin FdNums

VARIABLES
    server,     \* "running", "killed" by SIGPIPE or "aborted" by std::terminate
    sockfd,     \* the main thread's sockfd between accept() and the new thread
    thread,     \* per connection: where its thread is
    captured,   \* per connection: the sockfd of its thread
    buff,       \* per connection: what its thread has received and not answered
    reported    \* per connection: recv() has returned the error of a reset

threadVars == <<server, sockfd, thread, captured, buff, reported>>
tcpVars == <<netVars, threadVars>>

TcpInit ==
    /\ NetInit
    /\ server = "running"
    /\ sockfd = NoFd
    /\ thread = [c \in Conns |-> "none"]
    /\ captured = [c \in Conns |-> NoFd]
    /\ buff = [c \in Conns |-> <<>>]
    /\ reported = [c \in Conns |-> FALSE]

\* The process ends: all its connections and its backlog end with it.
Dies(why) ==
    /\ server' = why
    /\ ended' = [c \in Conns |-> IF client[c] = "off" THEN "no" ELSE "finished"]
    /\ fds' = [fd \in FdNums |-> Unused]
    /\ backlog' = <<>>
    /\ UNCHANGED <<clientSide, closing, taken, replies>>
    /\ UNCHANGED <<sockfd, thread, captured, buff, reported>>

----------------------------------------------------------------------------
(* The main thread: Start().                                                *)

Accepting == server = "running" /\ sockfd = NoFd

\* Mutant: the main thread joins the thread it has made.
StartAcceptsAfterJoin ==
    /\ Accepting
    /\ \A c \in Conns : thread[c] \in {"none", "ended"}
    /\ \E fd \in FdNums : Accept(fd) /\ sockfd' = fd
    /\ UNCHANGED <<server, thread, captured, buff, reported>>

StartAccepts ==
    /\ Accepting
    /\ \E fd \in FdNums : Accept(fd) /\ sockfd' = fd
    /\ UNCHANGED <<server, thread, captured, buff, reported>>

\* "accept error" and the next round: nothing is done for the client.
StartAcceptFails ==
    /\ Accepting
    /\ AcceptFails
    /\ UNCHANGED threadVars

\* std::thread t([this, sockfd, ...]) and t.detach(): the thread has a copy.
StartThread ==
    /\ server = "running" /\ sockfd # NoFd
    /\ thread' = [thread EXCEPT ![fds[sockfd]] = "start"]
    /\ captured' = [captured EXCEPT ![fds[sockfd]] = sockfd]
    /\ sockfd' = NoFd
    /\ UNCHANGED <<netVars, server, buff, reported>>

\* The constructor of std::thread throws, and nobody catches it.
StartThreadFails ==
    /\ server = "running" /\ sockfd # NoFd
    /\ Dies("aborted")

----------------------------------------------------------------------------
(* The thread of connection c: Service(sockfd, ip, port).                   *)

\* The connection its calls reach.
Peer(c) == fds[captured[c]]

\* Mutant: the lambda captures by reference and meets a later sockfd.
ServiceStartsByReference(c) ==
    /\ server = "running" /\ thread[c] = "start"
    /\ thread' = [thread EXCEPT ![c] = "recv"]
    /\ captured' = [captured EXCEPT ![c] = IF sockfd = NoFd THEN @ ELSE sockfd]
    /\ UNCHANGED <<netVars, server, sockfd, buff, reported>>

ServiceStarts(c) ==
    /\ server = "running" /\ thread[c] = "start"
    /\ thread' = [thread EXCEPT ![c] = "recv"]
    /\ UNCHANGED <<netVars, server, sockfd, captured, buff, reported>>

InRecv(c) == server = "running" /\ thread[c] = "recv" /\ Peer(c) \in Conns
NothingLeft(c) == taken[c] = sent[c] /\ closing[c] # "open"

ServiceReceives(c) ==
    /\ InRecv(c)
    /\ Recv(Peer(c))
    /\ buff' = [buff EXCEPT ![c] = Buffer(Peer(c))]
    /\ thread' = [thread EXCEPT ![c] = "send"]
    /\ UNCHANGED <<server, sockfd, captured, reported>>

ServiceSends(c) ==
    /\ server = "running" /\ thread[c] = "send" /\ Peer(c) \in Conns
    /\ IF closing[Peer(c)] = "rst"
       THEN Dies("killed")
       ELSE /\ Send(Peer(c), buff[c])
            /\ thread' = [thread EXCEPT ![c] = "recv"]
            /\ buff' = [buff EXCEPT ![c] = <<>>]
            /\ UNCHANGED <<server, sockfd, captured, reported>>

\* recv() returned 0: the loop is left, the descriptor is not closed.
ServiceBreaks(c) ==
    /\ InRecv(c) /\ NothingLeft(Peer(c))
    /\ thread' = [thread EXCEPT ![c] = "ended"]
    /\ UNCHANGED <<netVars, server, sockfd, captured, buff, reported>>

\* recv() returned -1: "read error", and recv() is called again.  The kernel
\* reports a reset once; after that recv() returns 0.
ServiceReadError(c) ==
    /\ InRecv(c) /\ NothingLeft(Peer(c))
    /\ closing[Peer(c)] = "rst" /\ ~reported[Peer(c)]
    /\ reported' = [reported EXCEPT ![Peer(c)] = TRUE]
    /\ UNCHANGED <<netVars, server, sockfd, thread, captured, buff>>

Service(c) ==
    \/ ServiceStarts(c) \/ ServiceReceives(c) \/ ServiceSends(c)
    \/ ServiceBreaks(c) \/ ServiceReadError(c)

----------------------------------------------------------------------------
\* tcp_client.cc; connect() is refused when the server is gone.
Client(c) ==
    /\ ClientStep(c)
    /\ server # "running" => client[c] # "off"
    /\ UNCHANGED threadVars

TcpNext ==
    \/ StartAccepts \/ StartAcceptFails \/ StartThread \/ StartThreadFails
    \/ \E c \in Conns : Service(c) \/ Client(c)

\* Every thread runs, accept() does not fail for ever as long as a descriptor
\* is free, and a client's blocked recv() returns once there is something to
\* return.  Nobody has to connect, to send or to leave.
TcpFairness ==
    /\ SF_tcpVars(StartAccepts)
    /\ WF_tcpVars(StartThread)
    /\ \A c \in Conns : WF_tcpVars(Service(c))
    /\ \A c \in Conns : WF_tcpVars(Client(c) /\ ClientAnswered(c))

----------------------------------------------------------------------------
(* Correctness                                                             *)

\* The variables have their types.
TcpTypeOK ==
    /\ NetTypeOK
    /\ server \in {"running", "killed", "aborted"}
    /\ sockfd \in FdNums \cup {NoFd}
    /\ thread \in [Conns -> {"none", "start", "recv", "send", "ended"}]
    /\ captured \in [Conns -> FdNums \cup {NoFd}]
    /\ buff \in [Conns -> Seq(1 .. MaxMsgs)]
    /\ reported \in [Conns -> BOOLEAN]

\* Threads stay apart though all of them use the process's one descriptor
\* table: a thread that runs reaches its own connection, whatever is accepted
\* meanwhile; each connection, also one whose thread has ended, holds one
\* descriptor and never a second; replies answer the messages of the same
\* client in order; and no thread kills the process by writing to a client
\* that has gone.
ThreadsApart ==
    /\ TcpTypeOK
    /\ server = "running" =>
          \A c \in Conns : thread[c] # "none" =>
             /\ Peer(c) = c
             /\ {fd \in FdNums : fds[fd] = c} = {captured[c]}
    /\ RepliesMatch
    /\ server # "killed"

\* No client depends on another one: the connection at hand is accepted as
\* long as there is a descriptor, although those of past connections are never
\* given back; a client with a thread gets its reply even if no other client
\* ever sends or leaves; and the thread of a client that has gone ends, also
\* after an error, since the error branch leaves the loop only with the next
\* recv().  That holds until std::thread fails, which ends everything.
ServedAlone ==
    \A c \in Conns :
        /\ c \in Range(backlog) ~> c \notin Range(backlog) \/ FreeFds = {}
        /\ client[c] = "waiting" /\ thread[c] # "none" ~> client[c] # "waiting"
        /\ client[c] = "gone" /\ thread[c] # "none" ~>
              thread[c] = "ended" \/ server # "running"

----------------------------------------------------------------------------
(* The inductive invariant                                                  *)

\* An accepted connection has no thread until the main thread has made it; a
\* thread's number stays its connection's; a thread that does not send has
\* answered all it has received, and one that does holds the next message.
ThreadsInv ==
    /\ sockfd # NoFd => fds[sockfd] \in Conns /\ thread[fds[sockfd]] = "none"
    /\ \A c \in Conns :
          /\ thread[c] # "none" => captured[c] \in FdNums /\ Peer(c) = c
          /\ thread[c] # "send" => taken[c] = Len(replies[c])
          /\ thread[c] = "send" =>
                Len(replies[c]) < taken[c] /\ buff[c] = <<Len(replies[c]) + 1>>

\* The clients' progress and the replies outlive the server.
TcpIInv ==
    /\ TcpTypeOK /\ OneAtATime /\ RepliesMatch
    /\ server # "killed"
    /\ server = "running" => OnePlace /\ ThreadsInv
=============================================================================
