----------------------------- MODULE ForkServer -----------------------------
(***************************************************************************)
(* TcpServer of code_2026_05_23/code2/TcpServer.hpp with the service of    *)
(* HttpServer: a process per connection, made by forking twice so that the *)
(* accepting process has only the short-lived child to wait for and the    *)
(* grandchild, an orphan, needs no wait at all.                            *)
(*                                                                         *)
(* Every process has its own copy of the descriptors; a connection ends    *)
(* for its client when the last copy is closed.  Either fork() may fail.   *)
(***************************************************************************)
EXTENDS Naturals, Sequences, Functions

CONSTANTS
    Browsers,           \* the clients, one connection each
    ListenSocket,       \* the listening socket's descriptor
    Nobody,             \* no connection
    MaxPending,         \* the backlog of BuildTcpServerListenSocket
    MaxForkFailures,    \* bound on the failures of the outer fork()
    MaxInnerFailures    \* bound on the failures of the inner fork()

ASSUME ServerAssumption ==
    /\ ListenSocket \notin Browsers /\ Nobody \notin Browsers
    /\ MaxPending \in Nat
    /\ MaxForkFailures \in Nat /\ MaxInnerFailures \in Nat

\* The processes that may serve a connection.
Child(c) == <<"child", c>>
Grandchild(c) == <<"grandchild", c>>
Workers == {"child", "grandchild"} \X Browsers
Parent == <<"parent", Nobody>>
Processes == Workers \cup {Parent}

VARIABLES
    browser,        \* per connection: "off", "connected", "asked" or "gone"
    request,        \* per connection: a request was sent and nobody has read it
    answered,       \* per connection: responses sent
    pending,        \* the connections that wait for accept()
    parent,         \* where the accepting process is in Start()
    cur,            \* the connection it is handling
    phase,          \* per worker: where it is; "none" before its fork
    held,           \* per process: the descriptors it has open
    forkFailures, innerFailures

browserVars == <<browser, request, answered, pending>>
forkVars == <<browserVars, parent, cur, phase, held, forkFailures, innerFailures>>
failures == <<forkFailures, innerFailures>>

ForkInit ==
    /\ browser = [c \in Browsers |-> "off"]
    /\ request = [c \in Browsers |-> FALSE]
    /\ answered = [c \in Browsers |-> 0]
    /\ pending = <<>>
    /\ parent = "accept"
    /\ cur = Nobody
    /\ phase = [w \in Workers |-> "none"]
    /\ held = [p \in Processes |-> IF p = Parent THEN {ListenSocket} ELSE {}]
    /\ forkFailures = 0
    /\ innerFailures = 0

----------------------------------------------------------------------------
(* The clients: one request, at any time or never; they may leave early.    *)

BrowserConnects(c) ==
    /\ browser[c] = "off"
    /\ Len(pending) < MaxPending
    /\ parent # "dead"
    /\ browser' = [browser EXCEPT ![c] = "connected"]
    /\ pending' = Append(pending, c)
    /\ UNCHANGED <<request, answered, parent, cur, phase, held, failures>>

BrowserAsks(c) ==
    /\ browser[c] = "connected"
    /\ browser' = [browser EXCEPT ![c] = "asked"]
    /\ request' = [request EXCEPT ![c] = TRUE]
    /\ UNCHANGED <<answered, pending, parent, cur, phase, held, failures>>

BrowserLeaves(c) ==
    /\ browser[c] \in {"connected", "asked"}
    /\ browser' = [browser EXCEPT ![c] = "gone"]
    /\ UNCHANGED <<request, answered, pending, parent, cur, phase, held, failures>>

----------------------------------------------------------------------------
(* The accepting process.                                                   *)

Close(p, d) == held' = [held EXCEPT ![p] = @ \ {d}]

\* accept() returned a connection; when it fails the loop just repeats it.
ParentAccept ==
    /\ parent = "accept"
    /\ pending # <<>>
    /\ cur' = Head(pending)
    /\ pending' = Tail(pending)
    /\ held' = [held EXCEPT ![Parent] = @ \cup {Head(pending)}]
    /\ parent' = "fork"
    /\ UNCHANGED <<browser, request, answered, phase, failures>>

\* The child starts with a copy of every descriptor of its parent.
ParentFork ==
    /\ parent = "fork"
    /\ phase' = [phase EXCEPT ![Child(cur)] = "start"]
    /\ held' = [held EXCEPT ![Child(cur)] = held[Parent]]
    /\ parent' = "close"
    /\ UNCHANGED <<browserVars, cur, failures>>

\* "fork error": the server exits.  That closes the connection at hand and the
\* last copy of the listening socket, and with it every connection in the backlog.
ParentForkFails ==
    /\ parent = "fork"
    /\ forkFailures < MaxForkFailures
    /\ forkFailures' = forkFailures + 1
    /\ parent' = "dead"
    /\ held' = [held EXCEPT ![Parent] = {}]
    /\ pending' = <<>>
    /\ UNCHANGED <<browser, request, answered, cur, phase, innerFailures>>

\* Mutant: the parent keeps its copy of the connection.
ParentKeeps ==
    /\ parent = "close"
    /\ parent' = "wait"
    /\ UNCHANGED <<browserVars, cur, phase, held, failures>>

ParentClose ==
    /\ parent = "close"
    /\ Close(Parent, cur)
    /\ parent' = "wait"
    /\ UNCHANGED <<browserVars, cur, phase, failures>>

\* Mutant: waitpid with WNOHANG, which returns when there is nothing to reap.
ParentPolls ==
    /\ parent = "wait"
    /\ phase' = [phase EXCEPT ![Child(cur)] = IF @ = "zombie" THEN "reaped" ELSE @]
    /\ parent' = "accept"
    /\ cur' = Nobody
    /\ UNCHANGED <<browserVars, held, failures>>

\* waitpid blocks until the child has exited, and reaps it.
ParentWait ==
    /\ parent = "wait"
    /\ phase[Child(cur)] = "zombie"
    /\ phase' = [phase EXCEPT ![Child(cur)] = "reaped"]
    /\ parent' = "accept"
    /\ cur' = Nobody
    /\ UNCHANGED <<browserVars, held, failures>>

ParentStep == ParentAccept \/ ParentFork \/ ParentClose \/ ParentWait

----------------------------------------------------------------------------
(* The child.                                                               *)

Goto(w, old, new) == phase[w] = old /\ phase' = [phase EXCEPT ![w] = new]

\* Mutant: the child leaves the listening socket open.
ChildKeepsListener(c) ==
    /\ Goto(Child(c), "start", "fork")
    /\ UNCHANGED <<browserVars, parent, cur, held, failures>>

ChildCloseListener(c) ==
    /\ Goto(Child(c), "start", "fork")
    /\ Close(Child(c), ListenSocket)
    /\ UNCHANGED <<browserVars, parent, cur, failures>>

\* Mutant: the branches of the inner fork are swapped: the child serves and
\* the grandchild exits.
ChildForkSwapped(c) ==
    /\ phase[Child(c)] = "fork"
    /\ phase' = [phase EXCEPT ![Child(c)] = "recv", ![Grandchild(c)] = "exit"]
    /\ held' = [held EXCEPT ![Grandchild(c)] = held[Child(c)]]
    /\ UNCHANGED <<browserVars, parent, cur, failures>>

\* Mutant: if(fork() >= 0) exit(0), so that the grandchild exits as well.
ChildForkBothExit(c) ==
    /\ phase[Child(c)] = "fork"
    /\ phase' = [phase EXCEPT ![Child(c)] = "exit", ![Grandchild(c)] = "exit"]
    /\ held' = [held EXCEPT ![Grandchild(c)] = held[Child(c)]]
    /\ UNCHANGED <<browserVars, parent, cur, failures>>

\* if(fork() > 0) exit(0): the child is about to exit, the grandchild serves.
ChildFork(c) ==
    /\ phase[Child(c)] = "fork"
    /\ phase' = [phase EXCEPT ![Child(c)] = "exit", ![Grandchild(c)] = "recv"]
    /\ held' = [held EXCEPT ![Grandchild(c)] = held[Child(c)]]
    /\ UNCHANGED <<browserVars, parent, cur, failures>>

\* fork() returned -1, which is not above 0: the child itself goes on.
ChildForkFails(c) ==
    /\ innerFailures < MaxInnerFailures
    /\ innerFailures' = innerFailures + 1
    /\ Goto(Child(c), "fork", "recv")
    /\ UNCHANGED <<browserVars, parent, cur, held, forkFailures>>

----------------------------------------------------------------------------
(* Service(sock), sock->Close(), exit(0), in whatever process runs it.      *)

\* recv() returned a request ...
WorkerRecv(w) ==
    LET c == w[2]
    IN  /\ request[c]
        /\ request' = [request EXCEPT ![c] = FALSE]
        /\ Goto(w, "recv", "send")
        /\ UNCHANGED <<browser, answered, pending, parent, cur, held, failures>>

\* ... or 0 or -1: there is nothing to answer.
WorkerRecvEnd(w) ==
    LET c == w[2]
    IN  /\ ~request[c]
        /\ browser[c] = "gone"
        /\ Goto(w, "recv", "close")
        /\ UNCHANGED <<browserVars, parent, cur, held, failures>>

WorkerSend(w) ==
    /\ Goto(w, "send", "close")
    /\ answered' = [answered EXCEPT ![w[2]] = @ + 1]
    /\ UNCHANGED <<browser, request, pending, parent, cur, held, failures>>

\* SIGPIPE ends only the process that serves the client that has gone.
WorkerKilled(w) ==
    /\ browser[w[2]] = "gone"
    /\ Goto(w, "send", "exit")
    /\ UNCHANGED <<browserVars, parent, cur, held, failures>>

WorkerClose(w) ==
    /\ Goto(w, "close", "exit")
    /\ Close(w, w[2])
    /\ UNCHANGED <<browserVars, parent, cur, failures>>

\* The end of a process closes what it has open.  A child waits for its
\* parent; an orphan, or the child of a dead server, is reaped by init.
Exit(w) ==
    /\ Goto(w, "exit", IF w[1] = "child" /\ parent # "dead" THEN "zombie" ELSE "reaped")
    /\ held' = [held EXCEPT ![w] = {}]
    /\ UNCHANGED <<browserVars, parent, cur, failures>>

WorkerStep(w) ==
    \/ WorkerRecv(w) \/ WorkerRecvEnd(w) \/ WorkerSend(w)
    \/ WorkerKilled(w) \/ WorkerClose(w) \/ Exit(w)
    \/ \E c \in Browsers :
          w = Child(c) /\ (ChildCloseListener(c) \/ ChildFork(c) \/ ChildForkFails(c))

BrowserStep(c) == BrowserConnects(c) \/ BrowserAsks(c) \/ BrowserLeaves(c)

ForkNext ==
    \/ ParentStep \/ ParentForkFails
    \/ \E w \in Workers : WorkerStep(w)
    \/ \E c \in Browsers : BrowserStep(c)

\* The scheduler runs every process that can run, and accept() does not fail
\* for ever.  No client has to connect, to ask or to leave.
ForkFairness == WF_forkVars(ParentStep) /\ \A w \in Workers : WF_forkVars(WorkerStep(w))

ForkSpec == ForkInit /\ [][ForkNext]_forkVars /\ ForkFairness

----------------------------------------------------------------------------
(* Correctness                                                             *)

\* The variables have their types.
ForkTypeOK ==
    /\ browser \in [Browsers -> {"off", "connected", "asked", "gone"}]
    /\ request \in [Browsers -> BOOLEAN]
    /\ answered \in [Browsers -> 0 .. 1]
    /\ pending \in Seq(Browsers)
    /\ parent \in {"accept", "fork", "close", "wait", "dead"}
    /\ cur \in Browsers \cup {Nobody}
    /\ phase \in [Workers -> {"none", "start", "fork", "recv", "send", "close",
                              "exit", "zombie", "reaped"}]
    /\ held \in [Processes -> SUBSET (Browsers \cup {ListenSocket})]
    /\ forkFailures \in 0 .. MaxForkFailures
    /\ innerFailures \in 0 .. MaxInnerFailures

\* Descriptors do not spread: a process that serves a client has that client's
\* connection open and nothing else, neither the listening socket nor a
\* connection the server accepted before; between two connections the
\* accepting process has only the listening socket.
OwnDescriptorsOnly ==
    /\ ForkTypeOK
    /\ \A w \in Workers : phase[w] \in {"recv", "send", "close"} => held[w] = {w[2]}
    /\ parent = "accept" => held[Parent] = {ListenSocket}

\* No zombies pile up: while the server waits for the next connection all its
\* children have been reaped, and otherwise one at most has not.
NoZombiesPileUp ==
    LET unreaped == {w \in Workers : w[1] = "child" /\ phase[w] \notin {"none", "reaped"}}
    IN  /\ parent = "accept" => unreaped = {}
        /\ \A v, w \in unreaped : v = w

\* TcpServer.hpp: "fork again, to prevent the parent from blocking".  The
\* process that the accepting process waits for never serves a client.
ParentNotBlockedByService ==
    parent = "wait" => phase[Child(cur)] \notin {"recv", "send"}

\* While the server lives it goes on accepting, though its clients need never
\* ask for anything nor leave: only a failure of the inner fork() can make it
\* wait for one of them.
KeepsAccepting ==
    \A c \in Browsers :
        c \in Range(pending) ~>
            c \notin Range(pending) \/ parent = "dead" \/ innerFailures > 0

\* The response ends: whoever got one sees its connection closed, because no
\* process keeps a copy of it, whatever the other clients do.
ResponseEnds ==
    \A c \in Browsers :
        answered[c] = 1 ~> \A p \in Processes : c \notin held[p]

----------------------------------------------------------------------------
(* The service that the clients see                                         *)

\* A connection is open as long as any process has a copy of its descriptor.
Open(c) == \E p \in Processes : c \in held[p]
Seen(c) ==
    IF browser[c] = "off" THEN "away"
    ELSE IF c \in Range(pending) THEN "waiting"
    ELSE IF Open(c) THEN "open" ELSE "ended"

Here(c) == browser[c] \in {"connected", "asked"}

\* A question has not been read yet, or a process is about to answer it.
Answering(c) == phase[Child(c)] = "send" \/ phase[Grandchild(c)] = "send"
Question(c) == request[c] \/ Answering(c)

ForkService == INSTANCE OneShotService WITH
    Clients <- Browsers,
    up <- parent # "dead",
    line <- pending,
    state <- [c \in Browsers |-> Seen(c)],
    here <- [c \in Browsers |-> Here(c)],
    question <- [c \in Browsers |-> Question(c)],
    answered <- [c \in Browsers |-> answered[c] = 1]

\* However the copies of a descriptor are handed on and closed, and whichever
\* fork fails: nobody is answered twice, or unasked, and no connection ends under
\* a client that waits for its answer, but those that the server has not begun to
\* serve when the outer fork fails and it exits.
ImplementsOneShot == ForkService!Spec

----------------------------------------------------------------------------
(* The inductive invariant                                                  *)

\* Nobody has begun to serve c.
Untouched(c) ==
    phase[Child(c)] = "none" /\ phase[Grandchild(c)] = "none" /\ answered[c] = 0

\* A client connects once and waits in one place until it is accepted.
Pending ==
    /\ \A i, j \in DOMAIN pending : pending[i] = pending[j] => i = j
    /\ \A c \in Range(pending) : browser[c] # "off"
    /\ \A c \in Browsers :
          browser[c] = "off" \/ c \in Range(pending) => c # cur /\ Untouched(c)

\* What the accepting process holds is known at each step of its loop, and it
\* is the parent of one child at most, that of the connection at hand.
OneChild ==
    /\ parent = "accept" => cur = Nobody /\ held[Parent] = {ListenSocket}
    /\ parent \in {"fork", "close"} => held[Parent] = {ListenSocket, cur}
    /\ parent = "wait" => held[Parent] = {ListenSocket}
    /\ parent \in {"fork", "close", "wait"} => cur \in Browsers
    /\ parent \in {"fork", "dead"} /\ cur \in Browsers => Untouched(cur)
    /\ parent \in {"close", "wait"} => phase[Child(cur)] \notin {"none", "reaped"}
    /\ \A c \in Browsers \ {cur} : phase[Child(c)] \in {"none", "reaped"}

\* Either the child serves or the grandchild, with the one descriptor it needs;
\* the request is unanswered until it has sent the response.
OneService ==
    \A c \in Browsers :
        /\ phase[Grandchild(c)] \notin {"start", "fork"}
        /\ phase[Grandchild(c)] # "none" => phase[Child(c)] \in {"exit", "zombie", "reaped"}
        /\ phase[Child(c)] = "start" => held[Child(c)] = {ListenSocket, c}
        /\ phase[Child(c)] = "fork" => held[Child(c)] = {c}
        /\ \A w \in {Child(c), Grandchild(c)} :
              /\ phase[w] \in {"recv", "send", "close"} => held[w] = {c}
              /\ phase[w] \in {"start", "fork", "recv", "send"} => answered[c] = 0

ForkIInv == ForkTypeOK /\ Pending /\ OneChild /\ OneService

\* A process has copies of its own connection only, and none before its fork; a
\* copy of the listening socket lives only until its new owner has closed it, so
\* that a server that exits takes the backlog with it.
Copies ==
    /\ parent = "dead" => held[Parent] = {} /\ pending = <<>>
    /\ \A w \in Workers : /\ held[w] \subseteq {ListenSocket, w[2]}
                          /\ phase[w] = "none" => held[w] = {}
                          /\ ListenSocket \in held[w] => phase[w] = "start"

\* A client asks once, and its question is in one place: unread, or read by the
\* process that is about to answer.
Asked ==
    \A c \in Browsers :
        /\ browser[c] \in {"off", "connected"} => ~request[c] /\ ~Answering(c) /\ answered[c] = 0
        /\ request[c] => ~Answering(c) /\ answered[c] = 0

\* The server exited before it had forked a process for c.
LetDown(c) == parent = "dead" /\ Untouched(c)

\* A connection that has left the backlog and whose client waits for its answer is
\* in the hands of a process that has not finished with it, unless the server
\* exited before it had made one.
Served ==
    \A c \in Browsers :
        Here(c) /\ c \notin Range(pending) /\ answered[c] = 0 =>
            \/ LetDown(c)
            \/ cur = c /\ parent = "fork"
            \/ phase[Child(c)] \in {"start", "fork", "recv", "send"}
            \/ phase[Grandchild(c)] \in {"recv", "send"}

ServiceIInv == ForkIInv /\ Copies /\ Asked /\ Served
=============================================================================
