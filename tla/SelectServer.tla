---------------------------- MODULE SelectServer ----------------------------
(***************************************************************************)
(* SelectServer of code_2026_05_24/code1: one thread, one table of eight   *)
(* descriptors.  select() reports the readable ones in one set, and the    *)
(* dispatcher then walks the table, which its own handlers change, while   *)
(* the clients go on.                                                      *)
(*                                                                         *)
(* The set is remembered with the owners the descriptors had when select() *)
(* returned: ready[fd] is that owner, or Unused if fd is not in the set.   *)
(* A timeout of select() and the errors it logs change nothing.            *)
(***************************************************************************)
EXTENDS TcpNet

CONSTANTS
    Slots,      \* the length of _fd_arr, 8 in the code
    NoFd        \* an empty slot, -1 in the code

\* The kernel hands out the numbers without gaps.
ASSUME SlotsAssumption ==
    /\ Slots \in Nat \ {0} /\ NoFd \notin FdNums
    /\ \A fd \in FdNums : ListenFd .. fd \subseteq FdNums

VARIABLES
    fdArr,      \* _fd_arr
    ready,      \* the fd_set that select() filled
    pc,         \* "select", "dispatch", "send" or "killed"
    pos,        \* the dispatcher's i
    buff        \* the message that Recver has received and will answer

serverVars == <<fdArr, ready, pc, pos, buff>>
vars == <<netVars, serverVars>>

SlotNums == 0 .. Slots - 1
Registered == {fdArr[i] : i \in SlotNums} \ {NoFd}

Init ==
    /\ NetInit
    /\ fdArr = [i \in SlotNums |-> IF i = 0 THEN ListenFd ELSE NoFd]
    /\ ready = [fd \in FdNums |-> Unused]
    /\ pc = "select"
    /\ pos = 0
    /\ buff = <<>>

----------------------------------------------------------------------------
\* select() returns a number above 0.
Select ==
    /\ pc = "select"
    /\ \E fd \in Registered : Readable(fd)
    /\ ready' = [fd \in FdNums |->
                    IF fd \in Registered /\ Readable(fd) THEN fds[fd] ELSE Unused]
    /\ pc' = "dispatch"
    /\ pos' = 0
    /\ UNCHANGED <<netVars, fdArr, buff>>

\* select() returns 0 after two seconds.
SelectTimeout ==
    /\ pc = "select"
    /\ \A fd \in Registered : ~Readable(fd)
    /\ UNCHANGED vars

\* The slot under the dispatcher holds a descriptor of the set.
IsReady == fdArr[pos] # NoFd /\ ready[fdArr[pos]] # Unused
Dispatching == pc = "dispatch" /\ pos < Slots

\* The loop of HeaderEvents goes on with the next slot.
Advance == pos' = pos + 1 /\ pc' = "dispatch" /\ buff' = <<>>

Skip ==
    /\ Dispatching /\ ~IsReady
    /\ Advance
    /\ UNCHANGED <<netVars, fdArr, ready>>

DispatchEnd ==
    /\ pc = "dispatch" /\ pos = Slots
    /\ pc' = "select"
    /\ pos' = 0
    /\ ready' = [fd \in FdNums |-> Unused]
    /\ UNCHANGED <<netVars, fdArr, buff>>

FreeSlots == {i \in SlotNums : fdArr[i] = NoFd}
AtListener == Dispatching /\ IsReady /\ fdArr[pos] = ListenFd
AtClient == Dispatching /\ IsReady /\ fdArr[pos] # ListenFd

\* Mutant: Accepter stores every connection in slot 1.
AccepterAddsOver ==
    /\ AtListener
    /\ FreeSlots # {}
    /\ \E fd \in FdNums :
          /\ Accept(fd)
          /\ fdArr' = [fdArr EXCEPT ![1] = fd]
    /\ Advance
    /\ UNCHANGED ready

\* Accepter: the connection gets the first empty slot.
AccepterAdds ==
    /\ AtListener
    /\ FreeSlots # {}
    /\ \E fd \in FdNums :
          /\ Accept(fd)
          /\ fdArr' = [fdArr EXCEPT ![Min(FreeSlots)] = fd]
    /\ Advance
    /\ UNCHANGED ready

\* Mutant: a connection that finds no slot is not closed.
AccepterForgets ==
    /\ AtListener
    /\ FreeSlots = {}
    /\ \E fd \in FdNums : Accept(fd)
    /\ Advance
    /\ UNCHANGED <<fdArr, ready>>

\* Accepter finds no empty slot: the connection is closed at once.
AccepterFull ==
    /\ AtListener
    /\ FreeSlots = {}
    /\ AcceptAndClose
    /\ Advance
    /\ UNCHANGED <<fdArr, ready>>

AccepterFails ==
    /\ AtListener
    /\ AcceptFails
    /\ Advance
    /\ UNCHANGED <<fdArr, ready>>

\* Recver: recv() blocks unless the connection now behind the descriptor is
\* readable.  It returned data ...
RecverReceives ==
    /\ AtClient
    /\ LET c == fds[fdArr[pos]]
       IN  Recv(c) /\ buff' = Buffer(c)
    /\ pc' = "send"
    /\ UNCHANGED <<pos, fdArr, ready>>

\* Mutant: the slot is not cleared when the descriptor is closed.
RecverClosesOnly ==
    /\ AtClient
    /\ RecvEndAndClose(fdArr[pos])
    /\ Advance
    /\ UNCHANGED <<fdArr, ready>>

\* ... or 0 or -1: the slot and the descriptor are given up.
RecverCloses ==
    /\ AtClient
    /\ RecvEndAndClose(fdArr[pos])
    /\ fdArr' = [fdArr EXCEPT ![pos] = NoFd]
    /\ Advance
    /\ UNCHANGED ready

\* send() on a connection that was reset raises SIGPIPE, which nobody handles.
Reset == closing[fds[fdArr[pos]]] = "rst"
Killed == pc' = "killed" /\ UNCHANGED <<netVars, pos, buff>>

\* Mutant: the reply is sent and the loop goes back to the same slot.
RecverSendsTwice ==
    /\ pc = "send"
    /\ IF Reset THEN Killed
       ELSE /\ Send(fds[fdArr[pos]], buff)
            /\ \/ Advance
               \/ UNCHANGED <<pos, pc, buff>>
    /\ UNCHANGED <<fdArr, ready>>

RecverSends ==
    /\ pc = "send"
    /\ IF Reset THEN Killed ELSE Send(fds[fdArr[pos]], buff) /\ Advance
    /\ UNCHANGED <<fdArr, ready>>

Accepter == AccepterAdds \/ AccepterFull \/ AccepterFails
Recver == RecverReceives \/ RecverCloses \/ RecverSends

ServerStep == Select \/ Skip \/ DispatchEnd \/ Accepter \/ Recver

Next ==
    \/ ServerStep
    \/ SelectTimeout
    \/ \E c \in Conns : ClientStep(c) /\ UNCHANGED serverVars

\* The server's thread runs, accept() does not fail for ever, and a client's
\* blocked recv() returns once there is something to return.  Nobody has to
\* connect, to send or to leave.
Fairness ==
    /\ WF_vars(ServerStep)
    /\ SF_vars(AccepterAdds \/ AccepterFull)
    /\ \A c \in Conns : WF_vars(ClientAnswered(c) /\ UNCHANGED serverVars)

Spec == Init /\ [][Next]_vars /\ Fairness

----------------------------------------------------------------------------
(* Correctness                                                             *)

\* The variables have their types.
TypeOK ==
    /\ NetTypeOK
    /\ fdArr \in [SlotNums -> FdNums \cup {NoFd}]
    /\ ready \in [FdNums -> Conns \cup {Listener, Unused}]
    /\ pc \in {"select", "dispatch", "send", "killed"}
    /\ pos \in 0 .. Slots
    /\ buff \in Seq(1 .. MaxMsgs)

\* The table is exact: the listening socket keeps slot 0, no descriptor is in
\* two slots, every slot holds an open descriptor, and every open descriptor
\* has a slot, so none leaks when a connection ends or finds the table full.
\* Therefore descriptors never grow beyond the table's size, however many
\* clients have come and gone; FD_SET is undefined above FD_SETSIZE.
TableExact ==
    /\ Tabled(fdArr, NoFd)
    /\ \A fd \in Registered : fd < ListenFd + Slots

\* The fd_set goes stale while the dispatcher works on it: handlers close
\* descriptors and accept() reuses their numbers.  A slot that the dispatcher
\* still has to visit and finds in the set is nevertheless owned by the
\* connection that select() reported, and its recv() or accept() will not
\* block the server.
NoStaleDispatch ==
    pc = "dispatch" =>
        \A i \in pos .. Slots - 1 :
            fdArr[i] # NoFd /\ ready[fdArr[i]] # Unused =>
                /\ ready[fdArr[i]] = fds[fdArr[i]]
                /\ Readable(fdArr[i])

\* The server outlives its clients: although it ignores SIGPIPE nowhere, no
\* client that leaves in the middle of an exchange makes it write to a
\* connection that was reset.
NeverKilled == pc # "killed"

----------------------------------------------------------------------------
(* The inductive invariant                                                  *)

\* If slot i holds a descriptor of the set, that descriptor is still readable
\* and still its connection's.
Fresh(i) ==
    fdArr[i] # NoFd /\ ready[fdArr[i]] # Unused =>
        ready[fdArr[i]] = fds[fdArr[i]] /\ Readable(fdArr[i])

\* The slots ahead are fresh; before the listening socket's turn the whole set
\* is; a received message belongs to the slot's connection and is unanswered.
DispatchInv ==
    /\ pc = "dispatch" =>
          /\ \A i \in pos .. Slots - 1 : Fresh(i)
          /\ pos = 0 => \A fd \in FdNums : ready[fd] # Unused => ready[fd] = fds[fd]
    /\ pc = "send" =>
          /\ pos \in 1 .. Slots - 1
          /\ \A i \in pos + 1 .. Slots - 1 : Fresh(i)
          /\ fdArr[pos] # NoFd
          /\ Len(replies[fds[fdArr[pos]]]) < taken[fds[fdArr[pos]]]

\* The state of the whole, kept by every step: types, the clients' progress and
\* where each connection is, the table, and what is left of the set.
IInv == TypeOK /\ NetInv /\ TableExact /\ DispatchInv /\ NeverKilled

----------------------------------------------------------------------------
\* Admission, answers and endings are those of the abstract service.
Places == Slots - 1
ImplementsService == Echo(Places)!Init /\ [][Echo(Places)!Next]_(Echo(Places)!echoVars)
=============================================================================
