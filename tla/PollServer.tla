----------------------------- MODULE PollServer -----------------------------
(***************************************************************************)
(* PollServer of code_2026_05_24/code2: one thread, one table of pollfd    *)
(* entries.  poll() writes the readiness of each entry into the entry      *)
(* itself, where it stays while the handlers replace the descriptor next   *)
(* to it: Accepter sets fd and events, and nobody clears revents.          *)
(*                                                                         *)
(* revents[i] is the owner that the entry's descriptor had when poll()     *)
(* returned, or Unused if POLLIN was not reported.                         *)
(***************************************************************************)
EXTENDS TcpNet

CONSTANTS
    Slots,      \* max_size, 128 in the code
    NoFd        \* defaultfd, -1

ASSUME SlotsAssumption == Slots \in Nat \ {0} /\ NoFd \notin FdNums

VARIABLES
    fdOf,       \* _fds[i].fd
    revents,    \* _fds[i].revents
    pc,         \* "poll", "dispatch", "send" or "killed"
    pos,        \* the dispatcher's i
    buff        \* the message that Recver has received and will answer

serverVars == <<fdOf, revents, pc, pos, buff>>
vars == <<netVars, serverVars>>

SlotNums == 0 .. Slots - 1
Registered == {fdOf[i] : i \in SlotNums} \ {NoFd}

Init ==
    /\ NetInit
    /\ fdOf = [i \in SlotNums |-> IF i = 0 THEN ListenFd ELSE NoFd]
    /\ revents = [i \in SlotNums |-> Unused]
    /\ pc = "poll"
    /\ pos = 0
    /\ buff = <<>>

----------------------------------------------------------------------------
\* poll() returns a number above 0; it has written every revents, with 0 for
\* an entry whose descriptor is negative.
Poll ==
    /\ pc = "poll"
    /\ \E fd \in Registered : Readable(fd)
    /\ revents' = [i \in SlotNums |->
                      IF fdOf[i] # NoFd /\ Readable(fdOf[i]) THEN fds[fdOf[i]] ELSE Unused]
    /\ pc' = "dispatch"
    /\ pos' = 0
    /\ UNCHANGED <<netVars, fdOf, buff>>

\* poll() returns 0 after five seconds, with every revents 0.
PollTimeout ==
    /\ pc = "poll"
    /\ \A fd \in Registered : ~Readable(fd)
    /\ revents' = [i \in SlotNums |-> Unused]
    /\ UNCHANGED <<netVars, fdOf, pc, pos, buff>>

IsReady == fdOf[pos] # NoFd /\ revents[pos] # Unused
Dispatching == pc = "dispatch" /\ pos < Slots
Advance == pos' = pos + 1 /\ pc' = "dispatch" /\ buff' = <<>>

Skip ==
    /\ Dispatching /\ ~IsReady
    /\ Advance
    /\ UNCHANGED <<netVars, fdOf, revents>>

DispatchEnd ==
    /\ pc = "dispatch" /\ pos = Slots
    /\ pc' = "poll"
    /\ pos' = 0
    /\ UNCHANGED <<netVars, fdOf, revents, buff>>

FreeSlots == {i \in SlotNums : fdOf[i] = NoFd}
AtListener == Dispatching /\ IsReady /\ fdOf[pos] = ListenFd
AtClient == Dispatching /\ IsReady /\ fdOf[pos] # ListenFd

\* Accepter: the connection gets the first empty entry.
AccepterAdds ==
    /\ AtListener
    /\ FreeSlots # {}
    /\ \E fd \in FdNums :
          /\ Accept(fd)
          /\ fdOf' = [fdOf EXCEPT ![Min(FreeSlots)] = fd]
    /\ Advance
    /\ UNCHANGED revents

\* Mutant: "poll full" is logged and the connection is kept.
AccepterKeeps ==
    /\ AtListener
    /\ FreeSlots = {}
    /\ \E fd \in FdNums : Accept(fd)
    /\ Advance
    /\ UNCHANGED <<fdOf, revents>>

AccepterFull ==
    /\ AtListener
    /\ FreeSlots = {}
    /\ AcceptAndClose
    /\ Advance
    /\ UNCHANGED <<fdOf, revents>>

AccepterFails ==
    /\ AtListener
    /\ AcceptFails
    /\ Advance
    /\ UNCHANGED <<fdOf, revents>>

\* Recver: recv() blocks unless the connection now behind the entry is
\* readable.  It returned data ...
RecverReceives ==
    /\ AtClient
    /\ LET c == fds[fdOf[pos]]
       IN  Recv(c) /\ buff' = Buffer(c)
    /\ pc' = "send"
    /\ UNCHANGED <<pos, fdOf, revents>>

\* Mutant: the error branch closes the descriptor and leaves it in its entry.
RecverClosesOnly ==
    /\ AtClient
    /\ RecvEndAndClose(fdOf[pos])
    /\ Advance
    /\ UNCHANGED <<fdOf, revents>>

\* ... or 0 or -1: the entry and the descriptor are given up.
RecverCloses ==
    /\ AtClient
    /\ RecvEndAndClose(fdOf[pos])
    /\ fdOf' = [fdOf EXCEPT ![pos] = NoFd]
    /\ Advance
    /\ UNCHANGED revents

\* send() on a connection that was reset raises SIGPIPE, which nobody handles.
Reset == closing[fds[fdOf[pos]]] = "rst"
Killed == pc' = "killed" /\ UNCHANGED <<netVars, pos, buff>>

\* Mutant: a message may be answered again, with an empty greeting.
RecverSendsAgain ==
    /\ pc = "send"
    /\ IF Reset THEN Killed
       ELSE /\ Send(fds[fdOf[pos]], buff)
            /\ \/ Advance
               \/ buff' = <<>> /\ UNCHANGED <<pos, pc>>
    /\ UNCHANGED <<fdOf, revents>>

RecverSends ==
    /\ pc = "send"
    /\ IF Reset THEN Killed ELSE Send(fds[fdOf[pos]], buff) /\ Advance
    /\ UNCHANGED <<fdOf, revents>>

Accepter == AccepterAdds \/ AccepterFull \/ AccepterFails
Recver == RecverReceives \/ RecverCloses \/ RecverSends

ServerStep == Poll \/ Skip \/ DispatchEnd \/ Accepter \/ Recver

Next ==
    \/ ServerStep
    \/ PollTimeout
    \/ \E c \in Conns : ClientStep(c) /\ UNCHANGED serverVars

\* As for the select server: the thread runs, accept() does not fail for
\* ever, and a client's recv() returns once it can.
Fairness ==
    /\ WF_vars(ServerStep)
    /\ SF_vars(AccepterAdds \/ AccepterFull)
    /\ \A c \in Conns : WF_vars(ClientAnswered(c) /\ UNCHANGED serverVars)

Spec == Init /\ [][Next]_vars /\ Fairness

----------------------------------------------------------------------------
(* Correctness                                                             *)

\* The variables have their types.
TypeOK ==
    /\ NetTypeOK
    /\ fdOf \in [SlotNums -> FdNums \cup {NoFd}]
    /\ revents \in [SlotNums -> Conns \cup {Listener, Unused}]
    /\ pc \in {"poll", "dispatch", "send", "killed"}
    /\ pos \in 0 .. Slots
    /\ buff \in Seq(1 .. MaxMsgs)

\* Accepter reuses entries without clearing revents, and accept() reuses the
\* numbers of closed descriptors.  An entry the dispatcher still has to visit
\* and finds readable nevertheless belongs to the connection that poll()
\* reported, so its recv() or accept() will not block the server.
Fresh(i) ==
    fdOf[i] # NoFd /\ revents[i] # Unused =>
        revents[i] = fds[fdOf[i]] /\ Readable(fdOf[i])
NoStaleDispatch ==
    /\ TypeOK
    /\ pc = "dispatch" => \A i \in pos .. Slots - 1 : Fresh(i)

----------------------------------------------------------------------------
(* The inductive invariant                                                  *)

\* The entries ahead are fresh, and before the listening socket's turn an empty
\* entry reports nothing that its next descriptor could inherit; a received
\* message belongs to the entry's connection and is unanswered.
DispatchInv ==
    /\ pc = "dispatch" =>
          /\ \A i \in pos .. Slots - 1 : Fresh(i)
          /\ pos = 0 => \A i \in SlotNums : fdOf[i] = NoFd => revents[i] = Unused
    /\ pc = "send" =>
          /\ pos \in 1 .. Slots - 1
          /\ \A i \in pos + 1 .. Slots - 1 : Fresh(i)
          /\ fdOf[pos] # NoFd
          /\ Len(replies[fds[fdOf[pos]]]) < taken[fds[fdOf[pos]]]

\* Types, the clients' progress and where each connection is, the exact table,
\* and what is left of the events; no SIGPIPE ends the server.
IInv == TypeOK /\ NetInv /\ Tabled(fdOf, NoFd) /\ DispatchInv /\ pc # "killed"

----------------------------------------------------------------------------
\* Admission, answers and endings are those of the abstract service.
Places == Slots - 1
ImplementsService == Echo(Places)!Init /\ [][Echo(Places)!Next]_(Echo(Places)!echoVars)
=============================================================================
