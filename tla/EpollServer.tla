---------------------------- MODULE EpollServer -----------------------------
(***************************************************************************)
(* EpollServer of code_2026_05_24/code3: one thread, no table of its own.  *)
(* The kernel keeps the interest list and a queue of ready descriptors;    *)
(* epoll_wait() copies the head of that queue into _events, and the        *)
(* dispatcher handles the copies one after the other, in an order that the *)
(* clients have decided: the listening socket may come last.               *)
(*                                                                         *)
(* An event is remembered with the owner its descriptor had when           *)
(* epoll_wait() returned.  The epoll descriptor itself is not in FdNums.   *)
(***************************************************************************)
EXTENDS TcpNet, SequencesExt

CONSTANTS
    MaxEvents,      \* max_size, 128 in the code
    MaxCtlFailures  \* bound on the failures of epoll_ctl(EPOLL_CTL_ADD)

ASSUME EpollAssumption == MaxEvents \in Nat \ {0} /\ MaxCtlFailures \in Nat

VARIABLES
    interest,       \* the descriptors added to _epfd
    queue,          \* the kernel's queue of ready descriptors
    events,         \* the part of _events that is still to be handled
    pc,             \* "wait", "dispatch", "send" or "killed"
    buff,           \* the message that Recver has received and will answer
    ctlFailures     \* failures of epoll_ctl so far

serverVars == <<interest, queue, events, pc, buff, ctlFailures>>
vars == <<netVars, serverVars>>

Init ==
    /\ NetInit
    /\ interest = {ListenFd}
    /\ queue = <<>>
    /\ events = <<>>
    /\ pc = "wait"
    /\ buff = <<>>
    /\ ctlFailures = 0

----------------------------------------------------------------------------
(* The kernel's queue: descriptors enter it when they become readable.  As  *)
(* the events are level-triggered, those that epoll_wait() returned enter   *)
(* it again at the end, and those no longer readable are dropped.           *)

Before(q, f, g) == \E i, j \in 1 .. Len(q) : i < j /\ q[i] = f /\ q[j] = g

\* The queues of the descriptors in S that keep the order of the present queue,
\* with the new ones behind it.
Queues(S) ==
    {q \in SetToSeqs(S) :
        \A f \in S \cap Range(queue), g \in S :
           f # g /\ (Before(queue, f, g) \/ g \notin Range(queue)) => Before(q, f, g)}

EpollWait ==
    /\ pc = "wait"
    /\ \E q \in Queues({fd \in interest : Readable(fd)}) :
          LET n == Min({MaxEvents, Len(q)})
          IN  /\ n > 0
              /\ events' = [i \in 1 .. n |-> [fd |-> q[i], owner |-> fds[q[i]]]]
              /\ queue' = SubSeq(q, n + 1, Len(q)) \o SubSeq(q, 1, n)
    /\ pc' = "dispatch"
    /\ UNCHANGED <<netVars, interest, buff, ctlFailures>>

\* epoll_wait() returns 0 after five seconds.
EpollTimeout ==
    /\ pc = "wait"
    /\ \A fd \in interest : ~Readable(fd)
    /\ UNCHANGED vars

DispatchEnd ==
    /\ pc = "dispatch" /\ events = <<>>
    /\ pc' = "wait"
    /\ UNCHANGED <<netVars, interest, queue, events, buff, ctlFailures>>

Dispatching == pc = "dispatch" /\ events # <<>>
Fd == Head(events).fd
AtListener == Dispatching /\ Fd = ListenFd
AtClient == Dispatching /\ Fd # ListenFd

\* HeaderEvents goes on with the next event.
Advance == events' = Tail(events) /\ pc' = "dispatch" /\ buff' = <<>>

\* Mutant: the connection is accepted and never added.
AccepterForgets ==
    /\ AtListener
    /\ \E fd \in FdNums : Accept(fd)
    /\ Advance
    /\ UNCHANGED <<interest, queue, ctlFailures>>

\* Accepter: the connection is added to the interest list.
AccepterAdds ==
    /\ AtListener
    /\ \E fd \in FdNums : Accept(fd) /\ interest' = interest \cup {fd}
    /\ Advance
    /\ UNCHANGED <<queue, ctlFailures>>

\* epoll_ctl() fails: an error is logged, and the connection is neither
\* watched nor closed.
AccepterCtlFails ==
    /\ AtListener
    /\ ctlFailures < MaxCtlFailures
    /\ \E fd \in FdNums : Accept(fd)
    /\ ctlFailures' = ctlFailures + 1
    /\ Advance
    /\ UNCHANGED <<interest, queue>>

AccepterFails ==
    /\ AtListener
    /\ AcceptFails
    /\ Advance
    /\ UNCHANGED <<interest, queue, ctlFailures>>

\* Mutant: the message stays in the socket's buffer (MSG_PEEK).
RecverPeeks ==
    /\ AtClient
    /\ taken[fds[Fd]] < sent[fds[Fd]]
    /\ buff' = Buffer(fds[Fd])
    /\ pc' = "send"
    /\ UNCHANGED <<netVars, interest, queue, events, ctlFailures>>

\* Mutant: Recver returns after recv(), without a reply.
RecverReceivesOnly ==
    /\ AtClient
    /\ Recv(fds[Fd])
    /\ Advance
    /\ UNCHANGED <<interest, queue, ctlFailures>>

\* Recver: recv() blocks unless the connection now behind the descriptor is
\* readable.  It returned data ...
RecverReceives ==
    /\ AtClient
    /\ Recv(fds[Fd]) /\ buff' = Buffer(fds[Fd])
    /\ pc' = "send"
    /\ UNCHANGED <<interest, queue, events, ctlFailures>>

\* Mutant: the loop does not go on to the next event after closing.
RecverClosesRepeats ==
    /\ AtClient
    /\ RecvEndAndClose(Fd)
    /\ interest' = interest \ {Fd}
    /\ queue' \in Queues(Range(queue) \ {Fd})
    /\ UNCHANGED <<events, pc, buff, ctlFailures>>

\* Mutant: EPOLL_CTL_DEL without close(), as if the destructor would close.
RecverForgets ==
    /\ AtClient
    /\ taken[fds[Fd]] = sent[fds[Fd]]
    /\ closing[fds[Fd]] # "open"
    /\ interest' = interest \ {Fd}
    /\ queue' \in Queues(Range(queue) \ {Fd})
    /\ Advance
    /\ UNCHANGED <<netVars, ctlFailures>>

\* ... or 0 or -1: EPOLL_CTL_DEL, then close().
RecverCloses ==
    /\ AtClient
    /\ RecvEndAndClose(Fd)
    /\ interest' = interest \ {Fd}
    /\ queue' \in Queues(Range(queue) \ {Fd})
    /\ Advance
    /\ UNCHANGED ctlFailures

\* send() on a connection that was reset raises SIGPIPE, which nobody handles.
Reset == closing[fds[Fd]] = "rst"
Killed == pc' = "killed" /\ UNCHANGED <<netVars, events, buff>>

RecverSends ==
    /\ pc = "send"
    /\ IF Reset THEN Killed ELSE Send(fds[Fd], buff) /\ Advance
    /\ UNCHANGED <<interest, queue, ctlFailures>>

Accepter == AccepterAdds \/ AccepterCtlFails \/ AccepterFails
Recver == RecverReceives \/ RecverCloses \/ RecverSends

ServerStep == EpollWait \/ DispatchEnd \/ Accepter \/ Recver

Next ==
    \/ ServerStep
    \/ EpollTimeout
    \/ \E c \in Conns : ClientStep(c) /\ UNCHANGED serverVars

\* The thread runs, accept() does not fail for ever while there are free
\* descriptors, and a client's recv() returns once it can.
Fairness ==
    /\ WF_vars(ServerStep)
    /\ SF_vars(AccepterAdds \/ AccepterCtlFails)
    /\ \A c \in Conns : WF_vars(ClientAnswered(c) /\ UNCHANGED serverVars)

Spec == Init /\ [][Next]_vars /\ Fairness

----------------------------------------------------------------------------
(* Correctness                                                             *)

\* The variables have their types.
TypeOK ==
    /\ NetTypeOK
    /\ interest \subseteq FdNums
    /\ queue \in Seq(interest)
    /\ events \in Seq([fd : FdNums, owner : Conns \cup {Listener}])
    /\ pc \in {"wait", "dispatch", "send", "killed"}
    /\ buff \in Seq(1 .. MaxMsgs)
    /\ ctlFailures \in 0 .. MaxCtlFailures

\* _events is a copy.  While the first events are handled, descriptors are
\* closed and their numbers given to new connections; an event that is still
\* to be handled nevertheless speaks of the connection it was reported for,
\* and its recv() or accept() will not block the server.
Fresh(e) == e.owner = fds[e.fd] /\ Readable(e.fd)
NoStaleEvents ==
    /\ TypeOK
    /\ pc = "dispatch" => \A i \in 1 .. Len(events) : Fresh(events[i])

\* The interest list never names a descriptor that has been closed, and each
\* failure of epoll_ctl costs one descriptor for good, no more.
Lost == FdNums \ (FreeFds \cup interest)
LeakBounded ==
    /\ interest \cap FreeFds = {}
    /\ Cardinality(Lost) <= ctlFailures

\* Socket.hpp: "fd is managed explicitly by Close()".  Every descriptor that is
\* open is one that Recver will see and Close() when its client has gone.
EveryFdManaged == FdNums \ FreeFds = interest

\* Nobody starves: with more ready descriptors than one epoll_wait() returns,
\* with accept() failing for want of descriptors while the listening socket
\* stays readable, and with a descriptor lost to epoll_ctl, every client that
\* is in the interest list and waits for a reply gets one.
WatchedAnswered ==
    \A c \in Conns :
        client[c] = "waiting" /\ (\E fd \in interest : fds[fd] = c)
            ~> client[c] # "waiting"

----------------------------------------------------------------------------
(* The inductive invariant                                                  *)

\* The listening socket and every event's descriptor are watched, each has one
\* event; the events ahead are fresh, and a received message belongs to the
\* first event's connection and is unanswered.
DispatchInv ==
    /\ ListenFd \in interest
    /\ \A i \in 1 .. Len(events) : events[i].fd \in interest
    /\ \A i, j \in 1 .. Len(events) : events[i].fd = events[j].fd => i = j
    /\ pc = "dispatch" => \A i \in 1 .. Len(events) : Fresh(events[i])
    /\ pc = "send" =>
          /\ events # <<>> /\ Fd # ListenFd /\ fds[Fd] \in Conns
          /\ \A i \in 2 .. Len(events) : Fresh(events[i])
          /\ Len(replies[fds[Fd]]) < taken[fds[Fd]]

\* Types, the clients' progress and where each connection is, the interest list,
\* and what is left of the events; no SIGPIPE ends the server.
IInv == TypeOK /\ NetInv /\ LeakBounded /\ DispatchInv /\ pc # "killed"

----------------------------------------------------------------------------
\* Admission, answers and endings are those of the abstract service with a
\* place for every descriptor the process may have; nobody is turned away.
Places == Cardinality(FdNums) - 1
ImplementsService == Echo(Places)!Init /\ [][Echo(Places)!Next]_(Echo(Places)!echoVars)
=============================================================================
