------------------------- MODULE EpollServer_proofs -------------------------
(***************************************************************************)
(* The epoll server for any number of clients, messages, descriptors,      *)
(* events per wait and failures of epoll_ctl: its invariant is inductive,  *)
(* and its steps are steps of the abstract service.  What the network does *)
(* is in TcpNet_proofs.                                                    *)
(***************************************************************************)
EXTENDS EpollServer, TcpNet_proofs

\* An event: a descriptor and its owner when epoll_wait() returned.
Event == [fd : FdNums, owner : Conns \cup {Listener}]

\* The events that are left, and their descriptors.
LEMMA Ahead ==
    ASSUME IInv
    PROVE  /\ events \in Seq(Event) /\ Len(events) \in Nat
           /\ \A i \in 1 .. Len(events) : /\ events[i].fd \in FdNums /\ events[i].fd \in interest
                                          /\ events[i].fd \notin FreeFds
           /\ \A i, j \in 1 .. Len(events) : events[i].fd = events[j].fd => i = j
<1>1. events \in Seq(Event)
  BY DEF IInv, TypeOK, Event
<1>2. \A i \in 1 .. Len(events) : events[i] \in Event
  BY <1>1
<1>3. \A i \in 1 .. Len(events) : events[i].fd \in FdNums
  BY <1>2 DEF Event
<1>4. QED
  BY <1>1, <1>3 DEF IInv, DispatchInv, LeakBounded

\* The first event and those behind it.
LEMMA Behind ==
    ASSUME IInv, events # <<>>
    PROVE  /\ Fd = events[1].fd /\ Fd \in FdNums /\ Fd \in interest
           /\ Tail(events) \in Seq(Event) /\ Len(Tail(events)) \in Nat
           /\ \A i \in 1 .. Len(Tail(events)) :
                 /\ i + 1 \in 2 .. Len(events) /\ Tail(events)[i] = events[i + 1]
                 /\ Tail(events)[i].fd \in interest
                 /\ Tail(events)[i].fd \in (FdNums \ FreeFds) \ {Fd}
                 /\ \A j \in 1 .. Len(Tail(events)) :
                       Tail(events)[i].fd = Tail(events)[j].fd => i = j
<1>1. /\ events \in Seq(Event) /\ Len(events) \in Nat
      /\ \A i \in 1 .. Len(events) : /\ events[i].fd \in FdNums /\ events[i].fd \in interest
                                     /\ events[i].fd \notin FreeFds
      /\ \A i, j \in 1 .. Len(events) : events[i].fd = events[j].fd => i = j
  BY Ahead
<1>2. /\ Head(events) = events[1] /\ 1 \in 1 .. Len(events)
      /\ Tail(events) \in Seq(Event) /\ Len(Tail(events)) = Len(events) - 1
      /\ \A i \in 1 .. Len(Tail(events)) :
            i + 1 \in 2 .. Len(events) /\ i + 1 \in 1 .. Len(events)
            /\ Tail(events)[i] = events[i + 1]
  BY <1>1
<1>3. Fd = events[1].fd
  BY <1>2 DEF Fd
<1>4. ASSUME NEW i \in 1 .. Len(Tail(events))
      PROVE  /\ Tail(events)[i].fd \in interest
             /\ Tail(events)[i].fd \in (FdNums \ FreeFds) \ {Fd}
             /\ \A j \in 1 .. Len(Tail(events)) :
                   Tail(events)[i].fd = Tail(events)[j].fd => i = j
  <2>1. Tail(events)[i].fd \in interest /\ Tail(events)[i].fd \in FdNums \ FreeFds
    BY <1>1, <1>2
  <2>2. events[i + 1].fd # events[1].fd
    BY <1>1, <1>2
  <2>3. \A j \in 1 .. Len(Tail(events)) : Tail(events)[i].fd = Tail(events)[j].fd => i = j
    BY <1>1, <1>2
  <2>4. QED
    BY <1>2, <1>3, <2>1, <2>2, <2>3
<1>5. QED
  BY <1>1, <1>2, <1>3, <1>4

\* The kernel's queue is a sequence of the descriptors it is made from.
LEMMA QueueOf ==
    ASSUME NEW S, IsFiniteSet(S), NEW q \in Queues(S)
    PROVE  /\ q \in Seq(S) /\ Len(q) \in Nat
           /\ \A i, j \in 1 .. Len(q) : q[i] = q[j] => i = j
<1>1. q \in SetToSeqs(S)
  BY DEF Queues
<1>2. /\ q \in [1 .. Cardinality(S) -> S]
      /\ \A i, j \in 1 .. Cardinality(S) : i # j => q[i] # q[j]
  BY <1>1 DEF SetToSeqs
<1>3. Cardinality(S) \in Nat
  BY FS_CardinalityType
<1>4. q \in Seq(S) /\ Len(q) = Cardinality(S)
  BY <1>2, <1>3
<1>5. QED
  BY <1>2, <1>3, <1>4

\* The server starts with its listening socket in the interest list.
LEMMA Initially == Init => IInv
<1> SUFFICES ASSUME Init PROVE IInv
  OBVIOUS
<1> USE EpollAssumption, Listens DEF Init
<1>1. NetInv
  BY NetInitially
<1>2. fds = [fd \in FdNums |-> IF fd = ListenFd THEN Listener ELSE Unused]
  BY DEF NetInit
<1>3. FreeFds = FdNums \ {ListenFd}
  BY <1>2, NetAssumption DEF FreeFds
<1>4. LeakBounded
  <2>1. Lost = {}
    BY <1>3 DEF Lost
  <2>2. QED
    BY <1>3, <2>1, FS_EmptySet DEF LeakBounded
<1>5. TypeOK
  BY <1>1 DEF TypeOK, NetInv
<1>6. DispatchInv /\ pc # "killed"
  BY DEF DispatchInv
<1>7. QED
  BY <1>1, <1>4, <1>5, <1>6 DEF IInv

----------------------------------------------------------------------------
(* What is left of the events                                               *)

\* An event stays fresh while its descriptor stays its connection's and readable.
LEMMA FreshStays ==
    ASSUME NEW e, Fresh(e), NEW S, e.fd \in S,
           \A f \in S : fds'[f] = fds[f] /\ (Readable(f) => Readable(f)')
    PROVE  Fresh(e)'
<1>1. PICK f \in S : f = e.fd
  OBVIOUS
<1>2. QED
  BY <1>1 DEF Fresh

\* The dispatcher goes on to the next event.
LEMMA AdvanceKeeps ==
    ASSUME IInv, NetInv', LeakBounded', events # <<>>, Advance,
           interest' \subseteq FdNums, queue' \in Seq(interest'),
           ctlFailures' \in 0 .. MaxCtlFailures,
           ListenFd \in interest',
           \A i \in 2 .. Len(events) : Fresh(events[i]),
           NEW S, FdNums \ (FreeFds \cup {Fd}) \subseteq S,
           \A f \in S : /\ fds'[f] = fds[f] /\ (Readable(f) => Readable(f)')
                        /\ f \in interest => f \in interest'
    PROVE  IInv'
<1>1. pc' = "dispatch" /\ events' = Tail(events) /\ buff' = <<>>
  BY DEF Advance
<1>2. /\ events' \in Seq(Event) /\ Len(events') \in Nat
      /\ \A i \in 1 .. Len(events') :
            /\ i + 1 \in 2 .. Len(events) /\ events'[i] = events[i + 1]
            /\ events'[i].fd \in interest /\ events'[i].fd \in S
            /\ \A j \in 1 .. Len(events') : events'[i].fd = events'[j].fd => i = j
  BY <1>1, Behind
<1>3. \A i \in 1 .. Len(events') : events'[i].fd \in interest'
  BY <1>2
<1>4. ASSUME NEW i \in 1 .. Len(events') PROVE Fresh(events[i])'
  <2>1. PICK e : e = events[i + 1]
    OBVIOUS
  <2>2. Fresh(e) /\ e.fd \in S /\ e = events'[i]
    BY <1>2, <2>1
  <2>3. Fresh(e)'
    BY <2>2, FreshStays
  <2>4. QED
    BY <2>2, <2>3 DEF Fresh
<1>5. DispatchInv'
  BY <1>1, <1>2, <1>3, <1>4 DEF DispatchInv
<1>6. TypeOK'
  BY <1>1, <1>2 DEF TypeOK, NetInv, Event
<1>7. QED
  BY <1>1, <1>5, <1>6 DEF IInv

\* The interest list and the descriptors lost to it, when neither is touched.
LEMMA LeakSame ==
    ASSUME IInv, UNCHANGED <<interest, ctlFailures, fds>>
    PROVE  LeakBounded'
<1>1. Lost' = Lost /\ FreeFds' = FreeFds
  BY DEF Lost, FreeFds
<1>2. QED
  BY <1>1 DEF IInv, LeakBounded

\* The server's events do not depend on what clients do.
LEMMA ClientKeeps ==
    ASSUME IInv, NEW c \in Conns, ClientStep(c), UNCHANGED serverVars
    PROVE  IInv'
<1>1. TypeOK /\ NetInv /\ DispatchInv /\ pc # "killed"
  BY DEF IInv
<1>2. /\ NetInv' /\ \A fd \in FdNums : Readable(fd) => Readable(fd)'
      /\ UNCHANGED <<interest, queue, events, pc, buff, ctlFailures, taken, replies, ended, fds>>
  BY <1>1, ClientKeepsNet DEF serverVars, serverSide
<1>3. TypeOK'
  BY <1>1, <1>2 DEF TypeOK, NetInv
<1>4. ASSUME NEW i \in 1 .. Len(events), Fresh(events[i]) PROVE Fresh(events[i])'
  <2>1. PICK e : e = events[i] /\ e.fd \in FdNums
    BY Ahead
  <2>2. Fresh(e) /\ e = events'[i]
    BY <1>2, <1>4, <2>1
  <2>3. Fresh(e)'
    BY <1>2, <2>1, <2>2, FreshStays
  <2>4. QED
    BY <2>2, <2>3 DEF Fresh
<1>5. DispatchInv'
  <2>1. \A i \in 2 .. Len(events) : i \in 1 .. Len(events)
    BY Ahead
  <2>2. Fd' = Fd
    BY <1>2 DEF Fd
  <2>3. QED
    BY <1>1, <1>2, <1>4, <2>1, <2>2 DEF DispatchInv
<1>6. LeakBounded'
  BY <1>2, LeakSame
<1>7. QED
  BY <1>1, <1>2, <1>3, <1>5, <1>6 DEF IInv

----------------------------------------------------------------------------
(* The server                                                               *)

\* Each reported descriptor is readable at this moment, and reported once.
LEMMA WaitKeeps == IInv /\ EpollWait => IInv'
<1> SUFFICES ASSUME IInv, EpollWait PROVE IInv'
  OBVIOUS
<1>1. TypeOK /\ NetInv /\ DispatchInv
  BY DEF IInv
<1>2. UNCHANGED <<netVars, interest, buff, ctlFailures>> /\ pc' = "dispatch"
  BY DEF EpollWait
<1>3. /\ UNCHANGED <<client, sent, got, closing, taken, replies, ended, backlog, fds>>
      /\ fds \in [FdNums -> Conns \cup {Listener, Unused}]
  BY <1>1, <1>2 DEF netVars, NetInv, NetTypeOK
<1>4. NetInv' /\ LeakBounded'
  BY <1>1, <1>2, <1>3, NetStutters, LeakSame
<1> DEFINE ready == {fd \in interest : Readable(fd)}
<1>5. PICK q \in Queues(ready) :
          LET n == Min({MaxEvents, Len(q)})
          IN  /\ n > 0
              /\ events' = [i \in 1 .. n |-> [fd |-> q[i], owner |-> fds[q[i]]]]
              /\ queue' = SubSeq(q, n + 1, Len(q)) \o SubSeq(q, 1, n)
  BY DEF EpollWait
<1>6. ready \subseteq FdNums /\ ready \subseteq interest /\ IsFiniteSet(ready)
  <2>1. interest \subseteq FdNums
    BY <1>1 DEF TypeOK
  <2>2. QED
    BY <2>1, FS_Subset, NetAssumption
<1>7. \A f \in ready : Readable(f) /\ fds[f] \in Conns \cup {Listener}
  BY <1>3, <1>6, NetAssumption DEF Readable
<1> HIDE DEF ready
<1>8. q \in Seq(ready) /\ Len(q) \in Nat /\ \A i, j \in 1 .. Len(q) : q[i] = q[j] => i = j
  BY <1>6, QueueOf
<1>9. PICK n \in Nat : /\ n <= Len(q)
                       /\ events' = [i \in 1 .. n |-> [fd |-> q[i], owner |-> fds[q[i]]]]
                       /\ queue' = SubSeq(q, n + 1, Len(q)) \o SubSeq(q, 1, n)
  <2>1. {MaxEvents, Len(q)} \in SUBSET Nat /\ {MaxEvents, Len(q)} # {}
    BY <1>8, EpollAssumption
  <2>2. Min({MaxEvents, Len(q)}) \in Nat /\ Min({MaxEvents, Len(q)}) <= Len(q)
    BY <2>1, MinFacts
  <2>3. QED
    BY <1>5, <2>2
<1>10. \A i \in 1 .. n : i \in 1 .. Len(q) /\ q[i] \in ready
  BY <1>8, <1>9
<1>11. queue' \in Seq(interest)
  <2>1. n + 1 \in Nat /\ \A i \in n + 1 .. Len(q) : i \in 1 .. Len(q)
    BY <1>8, <1>9
  <2>2. q \in Seq(interest)
    BY <1>6, <1>8
  <2>3. SubSeq(q, n + 1, Len(q)) \in Seq(interest) /\ SubSeq(q, 1, n) \in Seq(interest)
    BY <2>1, <2>2, <1>8, <1>9
  <2>4. QED
    BY <2>3, <1>9
<1>12. /\ \A i \in 1 .. n : events'[i] = [fd |-> q[i], owner |-> fds[q[i]]]
       /\ events' \in Seq(Event) /\ Len(events') = n
  <2>1. \A i \in 1 .. n : [fd |-> q[i], owner |-> fds[q[i]]] \in Event
    BY <1>6, <1>7, <1>10 DEF Event
  <2>2. events' \in [1 .. n -> Event]
    BY <1>9, <2>1
  <2>3. QED
    BY <1>9, <2>2, IsSequence
<1>13. ASSUME NEW i \in 1 .. n PROVE events'[i].fd \in interest /\ Fresh(events[i])'
  <2>1. PICK f \in ready : f = q[i]
    BY <1>10
  <2>2. events'[i].fd = f /\ events'[i].owner = fds[f] /\ f \in FdNums /\ f \in interest
    BY <1>6, <1>12, <2>1
  <2>3. Readable(f)'
    BY <1>1, <1>2, <1>6, <1>7, NetStutters
  <2>4. QED
    BY <1>3, <2>2, <2>3 DEF Fresh
<1>14. DispatchInv'
  <2>1. \A i, j \in 1 .. n : events'[i].fd = events'[j].fd => i = j
    BY <1>8, <1>10, <1>12
  <2>2. QED
    BY <1>1, <1>2, <1>12, <1>13, <2>1 DEF DispatchInv
<1>15. TypeOK'
  BY <1>1, <1>2, <1>4, <1>11, <1>12 DEF TypeOK, NetInv, Event
<1>16. QED
  BY <1>2, <1>4, <1>14, <1>15 DEF IInv

\* After the last event, and when epoll_wait() reports nothing.
LEMMA RestKeeps == IInv /\ (DispatchEnd \/ EpollTimeout) => IInv'
<1> SUFFICES ASSUME IInv, DispatchEnd \/ EpollTimeout PROVE IInv'
  OBVIOUS
<1>1. pc' = "wait" /\ UNCHANGED <<netVars, interest, queue, events, buff, ctlFailures>>
  BY DEF DispatchEnd, EpollTimeout, vars, serverVars
<1>2. NetInv' /\ LeakBounded'
  BY <1>1, NetStutters, LeakSame DEF IInv, netVars
<1>3. TypeOK' /\ DispatchInv'
  BY <1>1, <1>2 DEF IInv, TypeOK, NetInv, DispatchInv
<1>4. QED
  BY <1>1, <1>2, <1>3 DEF IInv

\* The listening socket's turn: the other events are fresh and not its own.
LEMMA AtListening ==
    ASSUME IInv, AtListener
    PROVE  /\ events # <<>> /\ Fd = ListenFd /\ Len(events) \in Nat
           /\ \A i \in 2 .. Len(events) : Fresh(events[i])
<1>1. events # <<>> /\ Fd = ListenFd /\ pc = "dispatch"
  BY DEF AtListener, Dispatching
<1>2. Len(events) \in Nat /\ \A i \in 2 .. Len(events) : i \in 1 .. Len(events)
  BY Ahead
<1>3. QED
  BY <1>1, <1>2 DEF IInv, DispatchInv

\* accept() takes a number that nothing is left to be done for.
LEMMA AcceptKeeps ==
    ASSUME IInv, AtListener, NEW fd \in FdNums, Accept(fd), Advance, queue' = queue,
           \/ interest' = interest \cup {fd} /\ ctlFailures' = ctlFailures
           \/ /\ interest' = interest /\ ctlFailures' = ctlFailures + 1
              /\ ctlFailures < MaxCtlFailures
    PROVE  IInv'
<1>1. TypeOK /\ NetInv /\ DispatchInv /\ LeakBounded
  BY DEF IInv
<1>2. /\ NetInv' /\ fd \in FreeFds /\ fd # ListenFd
      /\ \A f \in FdNums \ {fd} : fds'[f] = fds[f]
      /\ FreeFds' = FreeFds \ {fd}
      /\ \A f \in FdNums \ {fd, ListenFd} : Readable(f) <=> Readable(f)'
  BY <1>1, Accepts
<1>3. /\ interest \subseteq FdNums /\ queue \in Seq(interest)
      /\ ctlFailures \in Nat /\ ctlFailures <= MaxCtlFailures /\ MaxCtlFailures \in Nat
  BY <1>1, EpollAssumption DEF TypeOK
<1>4. /\ interest' \subseteq FdNums /\ interest \subseteq interest' /\ queue' \in Seq(interest')
      /\ ctlFailures' \in 0 .. MaxCtlFailures
  BY <1>3
<1>5. interest' \cap FreeFds' = {}
  BY <1>1, <1>2 DEF LeakBounded
<1>6. Cardinality(Lost)' <= ctlFailures'
  <2>1. IsFiniteSet(Lost) /\ Cardinality(Lost) \in Nat /\ Cardinality(Lost) <= ctlFailures
    <3>1. IsFiniteSet(Lost)
      BY NetAssumption, FS_Subset DEF Lost
    <3>2. QED
      BY <1>1, <3>1, FS_CardinalityType DEF LeakBounded
  <2>2. CASE interest' = interest \cup {fd} /\ ctlFailures' = ctlFailures
    <3>1. Lost' = Lost
      BY <1>2, <2>2 DEF Lost
    <3>2. QED
      BY <2>1, <2>2, <3>1
  <2>3. CASE interest' = interest /\ ctlFailures' = ctlFailures + 1
    <3>1. fd \notin Lost /\ fd \notin interest
      BY <1>1, <1>2 DEF Lost, LeakBounded
    <3>2. Lost' = Lost \cup {fd}
      BY <1>2, <2>3, <3>1 DEF Lost
    <3>3. Cardinality(Lost \cup {fd}) = Cardinality(Lost) + 1
      BY <2>1, <3>1, FS_AddElement
    <3>4. QED
      BY <1>3, <2>1, <2>3, <3>2, <3>3
  <2>4. QED
    BY <2>2, <2>3
<1>7. LeakBounded'
  BY <1>5, <1>6 DEF LeakBounded
<1>8. PICK S : S = FdNums \ (FreeFds \cup {Fd})
  OBVIOUS
<1>9. \A f \in S : f \in FdNums \ {fd, ListenFd}
  BY <1>2, <1>8, AtListening
<1>10. QED
  BY <1>1, <1>2, <1>4, <1>7, <1>8, <1>9, AtListening, AdvanceKeeps DEF DispatchInv

\* The connection is watched.
LEMMA AddsKeeps == IInv /\ AccepterAdds => IInv'
BY AcceptKeeps DEF AccepterAdds

\* The connection is lost, and counted.
LEMMA CtlFailsKeeps == IInv /\ AccepterCtlFails => IInv'
BY AcceptKeeps DEF AccepterCtlFails

\* The connection stays in the backlog.
LEMMA FailsKeeps == IInv /\ AccepterFails => IInv'
<1> SUFFICES ASSUME IInv, AccepterFails PROVE IInv'
  OBVIOUS
<1>1. TypeOK /\ NetInv /\ DispatchInv
  BY DEF IInv
<1>2. AtListener /\ Advance /\ UNCHANGED <<netVars, interest, queue, ctlFailures>>
  BY DEF AccepterFails, AcceptFails
<1>3. /\ NetInv' /\ fds' = fds /\ LeakBounded'
      /\ \A f \in FdNums : Readable(f) <=> Readable(f)'
  BY <1>1, <1>2, NetStutters, LeakSame DEF netVars
<1>4. QED
  BY <1>1, <1>2, <1>3, AtListening, AdvanceKeeps DEF TypeOK, DispatchInv

\* The connection that Recver works on.
LEMMA AtRecver ==
    ASSUME IInv, AtClient \/ pc = "send"
    PROVE  /\ events # <<>> /\ Fd \in FdNums /\ Fd \in interest /\ Fd # ListenFd
           /\ fds[Fd] \in Conns
           /\ \A i \in 2 .. Len(events) : Fresh(events[i])
<1>1. TypeOK /\ NetInv /\ DispatchInv /\ LeakBounded
  BY DEF IInv
<1>2. events # <<>> /\ Fd # ListenFd
  BY <1>1 DEF AtClient, Dispatching, DispatchInv
<1>3. Fd \in FdNums /\ Fd \in interest
  BY <1>2, Behind
<1>4. \A i \in 2 .. Len(events) : Fresh(events[i])
  BY <1>1, Ahead DEF AtClient, Dispatching, DispatchInv
<1>5. fds[Fd] # Unused
  BY <1>1, <1>3 DEF LeakBounded, FreeFds
<1>6. fds[Fd] # Listener
  BY <1>1, <1>2, <1>3, Listens, NetAssumption DEF NetInv, OnePlace
<1>7. fds[Fd] \in Conns
  BY <1>1, <1>3, <1>5, <1>6 DEF NetInv, NetTypeOK
<1>8. QED
  BY <1>2, <1>3, <1>4, <1>7

\* What has been received is unanswered.
LEMMA ReceivesKeeps == IInv /\ RecverReceives => IInv'
<1> SUFFICES ASSUME IInv, RecverReceives PROVE IInv'
  OBVIOUS
<1>1. TypeOK /\ NetInv /\ DispatchInv
  BY DEF IInv
<1>2. PICK g \in FdNums : /\ g = Fd /\ fds[g] \in Conns /\ g # ListenFd /\ Recv(fds[g])
                          /\ buff' = Buffer(fds[g]) /\ AtClient
  BY AtRecver DEF RecverReceives
<1>3. pc' = "send" /\ UNCHANGED <<interest, queue, events, ctlFailures>> /\ Fd' = g
  BY <1>2 DEF RecverReceives, Fd
<1>4. /\ NetInv' /\ buff' \in Seq(1 .. MaxMsgs)
      /\ taken'[fds[g]] = sent[fds[g]] /\ Len(replies[fds[g]]) < sent[fds[g]]
      /\ \A f \in FdNums \ {g} : Readable(f) <=> Readable(f)'
      /\ replies' = replies /\ fds' = fds
  BY <1>1, <1>2, Receives
<1>5. LeakBounded'
  BY <1>3, <1>4, LeakSame
<1>6. TypeOK'
  BY <1>1, <1>3, <1>4 DEF TypeOK, NetInv
<1>7. ASSUME NEW i \in 2 .. Len(events) PROVE Fresh(events[i])'
  <2>1. i \in 1 .. Len(events) /\ i # 1 /\ 1 \in 1 .. Len(events)
    BY <1>2, AtRecver, Ahead
  <2>2. PICK e : e = events[i] /\ e.fd \in FdNums \ {g}
    <3>1. events[i].fd \in FdNums /\ events[i].fd # events[1].fd
      BY <2>1, Ahead
    <3>2. events[1].fd = g
      BY <1>2, AtRecver, Behind
    <3>3. QED
      BY <3>1, <3>2
  <2>3. Fresh(e) /\ e = events'[i]
    BY <1>2, <1>3, <2>2, AtRecver
  <2>4. Fresh(e)'
    BY <1>4, <2>2, <2>3, FreshStays
  <2>5. QED
    BY <2>3, <2>4 DEF Fresh
<1>8. DispatchInv'
  <2>1. events' # <<>> /\ Fd' # ListenFd /\ fds'[Fd'] \in Conns
    BY <1>2, <1>3, <1>4, AtRecver
  <2>2. Len(replies'[fds'[Fd']]) < taken'[fds'[Fd']]
    BY <1>3, <1>4
  <2>3. QED
    BY <1>1, <1>3, <1>7, <2>1, <2>2 DEF DispatchInv
<1>9. QED
  BY <1>3, <1>4, <1>5, <1>6, <1>8 DEF IInv

\* The descriptor leaves the interest list and the kernel's queue, and is free.
LEMMA ClosesKeeps == IInv /\ RecverCloses => IInv'
<1> SUFFICES ASSUME IInv, RecverCloses PROVE IInv'
  OBVIOUS
<1>1. TypeOK /\ NetInv /\ DispatchInv /\ LeakBounded
  BY DEF IInv
<1>2. PICK g \in FdNums : /\ g = Fd /\ fds[g] \in Conns /\ g # ListenFd /\ g \in interest
                          /\ RecvEndAndClose(g) /\ AtClient
                          /\ interest' = interest \ {g} /\ queue' \in Queues(Range(queue) \ {g})
                          /\ Advance /\ ctlFailures' = ctlFailures
  BY AtRecver DEF RecverCloses
<1>3. /\ NetInv' /\ \A f \in FdNums \ {g} : fds'[f] = fds[f]
      /\ FreeFds' = FreeFds \cup {g}
      /\ \A f \in FdNums \ {g} : Readable(f) <=> Readable(f)'
  BY <1>1, <1>2, Finishes
<1>4. queue' \in Seq(interest')
  <2>1. Range(queue) \subseteq interest
    BY <1>1 DEF TypeOK, Range
  <2>2. Range(queue) \ {g} \subseteq interest' /\ interest' \subseteq FdNums
    BY <1>1, <1>2, <2>1 DEF TypeOK
  <2>3. IsFiniteSet(Range(queue) \ {g})
    BY <2>2, FS_Subset, NetAssumption
  <2>4. PICK S : S = Range(queue) \ {g}
    OBVIOUS
  <2>5. queue' \in Seq(S)
    BY <1>2, <2>3, <2>4, QueueOf
  <2>6. QED
    BY <2>2, <2>4, <2>5
<1>5. LeakBounded'
  <2>1. Lost' = Lost
    BY <1>2, <1>3 DEF Lost
  <2>2. QED
    BY <1>1, <1>2, <1>3, <2>1 DEF LeakBounded
<1>6. /\ interest' \subseteq FdNums /\ ListenFd \in interest'
      /\ ctlFailures' \in 0 .. MaxCtlFailures
  BY <1>1, <1>2 DEF TypeOK, DispatchInv
<1>7. PICK S : S = FdNums \ (FreeFds \cup {Fd})
  OBVIOUS
<1>8. \A f \in S : f \in FdNums \ {g}
  BY <1>2, <1>7
<1>9. QED
  BY <1>2, <1>3, <1>4, <1>5, <1>6, <1>7, <1>8, AtRecver, AdvanceKeeps

\* A connection whose message is unanswered has not been reset.
LEMMA SendsFinds ==
    ASSUME IInv, RecverSends
    PROVE  /\ Send(fds[Fd], buff) /\ Advance /\ UNCHANGED <<interest, queue, ctlFailures>>
           /\ pc = "send" /\ Fd \in FdNums /\ fds[Fd] \in Conns
           /\ buff \in Seq(1 .. MaxMsgs)
           /\ Len(replies[fds[Fd]]) < taken[fds[Fd]]
<1>1. pc = "send" /\ TypeOK /\ NetInv /\ DispatchInv
  BY DEF IInv, RecverSends
<1>2. PICK c \in Conns : c = fds[Fd] /\ Fd \in FdNums
  BY <1>1, AtRecver
<1>3. Len(replies[c]) < taken[c]
  BY <1>1, <1>2 DEF DispatchInv
<1>4. ~Reset
  BY <1>1, <1>2, <1>3, Unanswered DEF Reset
<1>5. QED
  BY <1>1, <1>2, <1>3, <1>4 DEF RecverSends, TypeOK

\* The reply is sent and the dispatcher goes on.
LEMMA SendsKeeps == IInv /\ RecverSends => IInv'
<1> SUFFICES ASSUME IInv, RecverSends PROVE IInv'
  OBVIOUS
<1>1. TypeOK /\ NetInv /\ DispatchInv
  BY DEF IInv
<1>2. PICK c \in Conns : c = fds[Fd]
  BY SendsFinds
<1>3. /\ Send(c, buff) /\ Advance /\ UNCHANGED <<interest, queue, ctlFailures>> /\ pc = "send"
      /\ buff \in Seq(1 .. MaxMsgs) /\ Len(replies[c]) < taken[c]
  BY <1>2, SendsFinds
<1>4. /\ NetInv' /\ fds' = fds /\ LeakBounded'
      /\ \A f \in FdNums : Readable(f) <=> Readable(f)'
  BY <1>1, <1>3, Replies, LeakSame
<1>5. QED
  BY <1>1, <1>3, <1>4, AtRecver, AdvanceKeeps DEF TypeOK, DispatchInv

----------------------------------------------------------------------------
\* Every step of the server and of its clients keeps the invariant.
LEMMA Keeps == IInv /\ [Next]_vars => IInv'
<1> SUFFICES ASSUME IInv, [Next]_vars PROVE IInv'
  OBVIOUS
<1>1. CASE ServerStep
  BY <1>1, WaitKeeps, RestKeeps, AddsKeeps, CtlFailsKeeps, FailsKeeps, ReceivesKeeps,
     ClosesKeeps, SendsKeeps DEF ServerStep, Accepter, Recver
<1>2. CASE UNCHANGED vars
  <2>1. /\ UNCHANGED netVars
        /\ UNCHANGED <<interest, queue, events, pc, buff, ctlFailures, taken, replies, fds>>
    BY <1>2 DEF vars, netVars, serverVars
  <2>2. NetInv' /\ LeakBounded' /\ \A fd \in FdNums : Readable(fd) <=> Readable(fd)'
    BY <2>1, NetStutters, LeakSame DEF IInv
  <2>3. TypeOK'
    BY <2>1, <2>2 DEF IInv, TypeOK, NetInv
  <2>4. ASSUME NEW i \in 1 .. Len(events), Fresh(events[i]) PROVE Fresh(events[i])'
    <3>1. PICK e : e = events[i] /\ e.fd \in FdNums
      BY Ahead
    <3>2. Fresh(e) /\ e = events'[i]
      BY <2>1, <2>4, <3>1
    <3>3. Fresh(e)'
      BY <2>1, <2>2, <3>1, <3>2, FreshStays
    <3>4. QED
      BY <3>2, <3>3 DEF Fresh
  <2>5. DispatchInv'
    <3>1. \A i \in 2 .. Len(events) : i \in 1 .. Len(events)
      BY Ahead
    <3>2. Fd' = Fd
      BY <2>1 DEF Fd
    <3>3. QED
      BY <2>1, <2>4, <3>1, <3>2 DEF IInv, DispatchInv
  <2>6. QED
    BY <2>1, <2>2, <2>3, <2>5 DEF IInv
<1>3. CASE EpollTimeout
  BY <1>3, RestKeeps
<1>4. CASE \E c \in Conns : ClientStep(c) /\ UNCHANGED serverVars
  BY <1>4, ClientKeeps
<1>5. QED
  BY <1>1, <1>2, <1>3, <1>4 DEF Next

\* The invariant holds for any number of clients, messages, descriptors and
\* events, in every order in which the kernel may report them.
THEOREM Inductive == Spec => []IInv
BY Initially, Keeps, PTL DEF Spec

\* Every event that is still to be handled speaks of the connection it was
\* reported for, and that one is still readable.
THEOREM NothingStale == Spec => []NoStaleEvents
<1>1. IInv => NoStaleEvents
  BY DEF IInv, DispatchInv, NoStaleEvents
<1>2. QED
  BY <1>1, Inductive, PTL

\* No closed descriptor stays in the interest list, and a failure of epoll_ctl
\* costs one descriptor at most.
THEOREM LeakIsBounded == Spec => []LeakBounded
<1>1. IInv => LeakBounded
  BY DEF IInv
<1>2. QED
  BY <1>1, Inductive, PTL

\* No client that leaves can make the server write to a reset connection.
THEOREM ServerSurvives == Spec => [](pc # "killed")
<1>1. IInv => pc # "killed"
  BY DEF IInv
<1>2. QED
  BY <1>1, Inductive, PTL

----------------------------------------------------------------------------
(* The abstract service                                                     *)

\* Every step is a step of the abstract service or invisible to it.
LEMMA StepEchoes == IInv /\ [Next]_vars => [Echo(Places)!Next]_(Echo(Places)!echoVars)
<1> SUFFICES ASSUME IInv, [Next]_vars PROVE [Echo(Places)!Next]_(Echo(Places)!echoVars)
  OBVIOUS
<1>1. NetInv
  BY DEF IInv
<1>2. CASE EpollWait \/ EpollTimeout \/ DispatchEnd \/ AccepterFails \/ RecverReceives
           \/ UNCHANGED vars
  <2>1. UNCHANGED <<client, sent, replies, ended, fds>>
    BY <1>2 DEF EpollWait, EpollTimeout, DispatchEnd, AccepterFails, AcceptFails,
                RecverReceives, Recv, clientSide, vars, netVars
  <2>2. QED
    BY <2>1, Unseen
<1>3. CASE AccepterAdds \/ AccepterCtlFails
  <2>1. PICK fd \in FdNums : Accept(fd)
    BY <1>3 DEF AccepterAdds, AccepterCtlFails
  <2>2. fd \in FreeFds
    BY <1>1, <2>1, Accepts
  <2>3. Cardinality(Admitted) < Places
    BY <1>1, <2>2, GuestsFit DEF Places
  <2>4. QED
    BY <1>1, <2>1, <2>3, AcceptEchoes
<1>4. CASE RecverSends
  BY <1>1, <1>4, SendsFinds, AnswerEchoes
<1>5. CASE RecverCloses
  <2>1. Fd \in FdNums /\ fds[Fd] \in Conns /\ RecvEndAndClose(Fd)
    BY <1>5, AtRecver DEF RecverCloses
  <2>2. QED
    BY <1>1, <2>1, FinishEchoes
<1>6. CASE \E c \in Conns : ClientStep(c) /\ UNCHANGED serverVars
  BY <1>1, <1>6, ClientEchoes
<1>7. QED
  BY <1>2, <1>3, <1>4, <1>5, <1>6 DEF Next, ServerStep, Accepter, Recver

\* The epoll server keeps the promises of the abstract service with a place for
\* every descriptor, also after epoll_ctl has failed, and turns nobody away.
THEOREM Implements == Spec => ImplementsService
<1>1. Init => Echo(Places)!Init
  BY EchoInitially DEF Init
<1>2. QED
  BY <1>1, StepEchoes, Inductive, PTL DEF Spec, ImplementsService
=============================================================================
