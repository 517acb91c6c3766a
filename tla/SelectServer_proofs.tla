------------------------ MODULE SelectServer_proofs ------------------------
(***************************************************************************)
(* The select server for any number of clients, messages, descriptors and  *)
(* slots: its invariant is inductive, and its steps are steps of the       *)
(* abstract service.  What the network does is in TcpNet_proofs.           *)
(***************************************************************************)
EXTENDS SelectServer, TcpNet_proofs

\* The table and the dispatcher's place in it.
LEMMA Shape ==
    ASSUME TypeOK
    PROVE  /\ Slots \in Nat \ {0} /\ NoFd \notin FdNums
           /\ fdArr \in [0 .. Slots - 1 -> FdNums \cup {NoFd}] /\ DOMAIN fdArr = SlotNums
           /\ SlotNums = 0 .. Slots - 1 /\ 0 \in SlotNums
           /\ pos \in Nat /\ pos <= Slots
           /\ \A i \in pos .. Slots - 1 : i \in SlotNums
           /\ \A i \in pos + 1 .. Slots - 1 : i \in SlotNums /\ i # pos /\ i \in pos .. Slots - 1
BY SlotsAssumption DEF TypeOK, SlotNums

\* The parts of the invariant.
LEMMA Parts == ASSUME IInv PROVE TypeOK /\ NetInv /\ Tabled(fdArr, NoFd) /\ DispatchInv
BY DEF IInv, TableExact

\* The server starts with its listening socket only.
LEMMA Initially == Init => IInv
<1> SUFFICES ASSUME Init PROVE IInv
  OBVIOUS
<1> USE SlotsAssumption, Listens DEF Init
<1>1. NetInv
  BY NetInitially
<1>2. fds \in [FdNums -> Conns \cup {Listener, Unused}] /\ NetTypeOK
  BY <1>1 DEF NetInv, NetTypeOK
<1>3. TypeOK
  BY <1>2 DEF TypeOK, SlotNums
<1>4. Tabled(fdArr, NoFd)
  BY TableStarts DEF SlotNums
<1>5. TableExact
  <2>1. Registered = {ListenFd}
    BY DEF Registered, SlotNums
  <2>2. QED
    BY <1>4, <2>1 DEF TableExact
<1>6. DispatchInv /\ NeverKilled
  BY DEF DispatchInv, NeverKilled
<1>7. QED
  BY <1>1, <1>3, <1>5, <1>6 DEF IInv

----------------------------------------------------------------------------
(* What is left of the set                                                  *)

\* A slot stays fresh while its descriptor stays its connection's and readable.
LEMMA FreshStays ==
    ASSUME NEW i \in SlotNums, Fresh(i), ready' = ready, fdArr'[i] = fdArr[i],
           NEW S, fdArr[i] # NoFd => fdArr[i] \in S,
           \A f \in S : fds'[f] = fds[f] /\ (Readable(f) => Readable(f)')
    PROVE  Fresh(i)'
<1> SUFFICES ASSUME fdArr[i] # NoFd, ready[fdArr[i]] # Unused
             PROVE  ready[fdArr[i]] = fds'[fdArr[i]] /\ Readable(fdArr[i])'
  BY DEF Fresh
<1>1. PICK f \in S : f = fdArr[i]
  OBVIOUS
<1>2. ready[f] = fds[f] /\ Readable(f)
  BY <1>1 DEF Fresh
<1>3. QED
  BY <1>1, <1>2

\* A step that neither opens nor closes a descriptor.
LEMMA TableSame ==
    ASSUME IInv, fdArr' = fdArr, fds' = fds
    PROVE  TableExact'
<1>1. Tabled(fdArr, NoFd) /\ \A fd \in Registered : fd < ListenFd + Slots
  BY DEF IInv, TableExact
<1>2. FreeFds' = FreeFds /\ Registered' = Registered
  BY DEF FreeFds, Registered
<1>3. Tabled(fdArr, NoFd)'
  BY <1>1, <1>2 DEF Tabled
<1>4. QED
  BY <1>1, <1>2, <1>3 DEF TableExact

\* The dispatcher goes on to the next slot.
LEMMA AdvanceKeeps ==
    ASSUME IInv, NetInv', TableExact', fdArr' \in [SlotNums -> FdNums \cup {NoFd}],
           ready' = ready, pos \in 0 .. Slots - 1, Advance,
           \A i \in pos + 1 .. Slots - 1 : Fresh(i)'
    PROVE  IInv'
<1>1. pc' = "dispatch" /\ pos' = pos + 1 /\ buff' = <<>>
  BY DEF Advance
<1>2. pos' # 0 /\ pos' \in 0 .. Slots
  BY <1>1, SlotsAssumption
<1>3. DispatchInv' /\ NeverKilled'
  BY <1>1, <1>2 DEF DispatchInv, NeverKilled
<1>4. TypeOK'
  BY <1>1, <1>2 DEF IInv, TypeOK, NetInv
<1>5. QED
  BY <1>3, <1>4 DEF IInv

\* The server's table and its set do not depend on what clients do.
LEMMA ClientKeeps ==
    ASSUME IInv, NEW c \in Conns, ClientStep(c), UNCHANGED serverVars
    PROVE  IInv'
<1>1. TypeOK /\ NetInv /\ DispatchInv /\ NeverKilled
  BY DEF IInv
<1>2. /\ NetInv' /\ \A fd \in FdNums : Readable(fd) => Readable(fd)'
      /\ UNCHANGED <<fdArr, ready, pc, pos, buff, taken, replies, ended, fds>>
  BY <1>1, ClientKeepsNet DEF serverVars, serverSide
<1>3. TypeOK'
  BY <1>1, <1>2 DEF TypeOK, NetInv
<1>4. \A i \in SlotNums : Fresh(i) => Fresh(i)'
  <2>1. \A i \in SlotNums : fdArr[i] # NoFd => fdArr[i] \in FdNums
    BY <1>1 DEF TypeOK
  <2>2. QED
    BY <1>2, <2>1, FreshStays
<1>5. DispatchInv'
  BY <1>1, <1>2, <1>4, Shape DEF DispatchInv
<1>6. TableExact' /\ NeverKilled'
  BY <1>1, <1>2, TableSame DEF NeverKilled
<1>7. QED
  BY <1>2, <1>3, <1>5, <1>6 DEF IInv

----------------------------------------------------------------------------
(* The server                                                               *)

\* select() reports what is readable at this moment.
LEMMA SelectKeeps == IInv /\ Select => IInv'
<1> SUFFICES ASSUME IInv, Select PROVE IInv'
  OBVIOUS
<1>1. TypeOK /\ NetInv
  BY DEF IInv
<1>2. UNCHANGED <<netVars, fdArr, buff>> /\ pc' = "dispatch" /\ pos' = 0
  BY DEF Select
<1>3. UNCHANGED <<client, sent, got, closing, taken, replies, ended, backlog, fds>>
  BY <1>2 DEF netVars
<1>4. \A fd \in FdNums : ready'[fd] = IF fd \in Registered /\ Readable(fd) THEN fds[fd] ELSE Unused
  BY DEF Select
<1>5. NetInv' /\ (\A fd \in FdNums : Readable(fd) <=> Readable(fd)') /\ TableExact' /\ NeverKilled'
  BY <1>1, <1>2, <1>3, NetStutters, TableSame DEF NeverKilled
<1>6. TypeOK'
  <2>1. fds \in [FdNums -> Conns \cup {Listener, Unused}]
    BY <1>1 DEF NetInv, NetTypeOK
  <2>2. ready' \in [FdNums -> Conns \cup {Listener, Unused}]
    BY <2>1 DEF Select
  <2>3. QED
    BY <1>1, <1>2, <1>5, <2>2, Shape DEF TypeOK, NetInv
<1>7. DispatchInv'
  <2>1. ASSUME NEW i \in SlotNums PROVE Fresh(i)'
    <3> SUFFICES ASSUME fdArr[i] # NoFd, ready'[fdArr[i]] # Unused
                 PROVE  ready'[fdArr[i]] = fds[fdArr[i]] /\ Readable(fdArr[i])'
      BY <1>2, <1>3 DEF Fresh
    <3>1. PICK f \in FdNums : f = fdArr[i]
      BY <1>1 DEF TypeOK
    <3>2. ready'[f] = fds[f] /\ Readable(f)
      BY <1>4, <3>1
    <3>3. QED
      BY <1>2, <1>5, <3>1, <3>2
  <2>2. \A fd \in FdNums : ready'[fd] # Unused => ready'[fd] = fds'[fd]
    BY <1>3, <1>4
  <2>3. QED
    BY <1>1, <1>2, <2>1, <2>2, Shape DEF DispatchInv
<1>8. QED
  BY <1>5, <1>6, <1>7 DEF IInv

\* A slot that is passed over takes nothing from those ahead.
LEMMA PassKeeps == IInv /\ (Skip \/ AccepterFails) => IInv'
<1> SUFFICES ASSUME IInv, Skip \/ AccepterFails PROVE IInv'
  OBVIOUS
<1>1. TypeOK /\ NetInv /\ DispatchInv
  BY DEF IInv
<1>2. UNCHANGED <<netVars, fdArr, ready>> /\ Dispatching /\ Advance
  BY DEF Skip, AccepterFails, AcceptFails, AtListener
<1>3. /\ NetInv' /\ fds' = fds
      /\ \A f \in FdNums \cup {NoFd} : Readable(f) => Readable(f)'
  BY <1>1, <1>2, NetStutters DEF netVars, Readable
<1>4. pos \in 0 .. Slots - 1 /\ pc = "dispatch"
  BY <1>1, <1>2, Shape DEF Dispatching
<1>5. \A i \in SlotNums : fdArr[i] \in FdNums \cup {NoFd}
  BY <1>1 DEF TypeOK
<1>6. \A i \in pos + 1 .. Slots - 1 : Fresh(i)'
  BY <1>1, <1>2, <1>3, <1>4, <1>5, Shape, FreshStays DEF DispatchInv
<1>7. TableExact' /\ fdArr' \in [SlotNums -> FdNums \cup {NoFd}]
  BY <1>1, <1>2, <1>3, TableSame DEF TypeOK
<1>8. QED
  BY <1>2, <1>3, <1>4, <1>6, <1>7, AdvanceKeeps

\* After the last slot the set is forgotten.
LEMMA EndKeeps == IInv /\ DispatchEnd => IInv'
<1> SUFFICES ASSUME IInv, DispatchEnd PROVE IInv'
  OBVIOUS
<1>1. /\ pc' = "select" /\ pos' = 0 /\ buff' = buff /\ ready' = [fd \in FdNums |-> Unused]
      /\ UNCHANGED <<netVars, fdArr>>
  BY DEF DispatchEnd
<1>2. NetInv' /\ TableExact'
  BY <1>1, NetStutters, TableSame DEF IInv, netVars
<1>3. DispatchInv' /\ NeverKilled'
  BY <1>1 DEF DispatchInv, NeverKilled
<1>4. TypeOK'
  BY <1>1, <1>2, SlotsAssumption DEF IInv, TypeOK, NetInv
<1>5. QED
  BY <1>2, <1>3, <1>4 DEF IInv

\* While a slot is empty, the lowest free number is below what the table's size
\* allows: otherwise there were as many open descriptors as slots.
LEMMA RoomBelow ==
    ASSUME TypeOK, TableExact, FreeSlots # {}, FreeFds # {}
    PROVE  Min(FreeFds) < ListenFd + Slots
<1> DEFINE fd == Min(FreeFds)
           last == ListenFd + Slots - 1
           first == ListenFd .. last
           slot == [f \in first |-> CHOOSE i \in SlotNums : fdArr[i] = f]
<1>1. Slots \in Nat /\ Slots > 0 /\ ListenFd \in Nat
  BY SlotsAssumption, Listens
<1>2. FreeFds \in SUBSET Nat /\ FreeFds \subseteq FdNums
  BY NetAssumption DEF FreeFds
<1>3. fd \in FdNums /\ fd \in Nat /\ \A f \in FreeFds : fd <= f
  BY <1>2, MinFacts
<1> SUFFICES ASSUME ~(fd < ListenFd + Slots) PROVE FALSE
  OBVIOUS
<1>4. PICK k \in SlotNums : fdArr[k] = NoFd
  BY DEF FreeSlots
<1>5. \A f \in first : f \in Registered
  <2> SUFFICES ASSUME NEW f \in first PROVE f \in Registered
    OBVIOUS
  <2>1. f \in ListenFd .. fd /\ f < fd
    BY <1>1, <1>3
  <2>2. f \in FdNums
    BY <1>3, <2>1, SlotsAssumption
  <2>3. f \notin FreeFds
    BY <1>1, <1>3, <2>1
  <2>4. f \in FdNums \ FreeFds
    BY <2>2, <2>3
  <2>5. QED
    BY <2>4, Shape DEF TableExact, Tabled, Registered
<1>6. \A f \in first : \E i \in SlotNums \ {k} : fdArr[i] = f
  BY <1>4, <1>5 DEF Registered
<1>7. slot \in [first -> SlotNums \ {k}] /\ \A f \in first : fdArr[slot[f]] = f
  <2>1. \A f \in first : slot[f] \in SlotNums /\ fdArr[slot[f]] = f
    BY <1>6
  <2>2. \A f \in first : f # NoFd
    BY <1>5 DEF Registered
  <2>3. \A f \in first : slot[f] # k
    BY <1>4, <2>1, <2>2
  <2>4. QED
    BY <2>1, <2>3
<1>8. IsFiniteSet(first) /\ Cardinality(first) = Slots
  <2>1. ListenFd \in Int /\ last \in Int /\ ListenFd <= last /\ last - ListenFd + 1 = Slots
    BY <1>1
  <2> HIDE DEF last
  <2>2. IsFiniteSet(first) /\ Cardinality(first) = last - ListenFd + 1
    BY <2>1, FS_Interval
  <2>3. QED
    BY <2>1, <2>2
<1>9. IsFiniteSet(SlotNums \ {k}) /\ Cardinality(SlotNums \ {k}) = Slots - 1
  <2>1. IsFiniteSet(SlotNums) /\ Cardinality(SlotNums) = Slots
    <3>1. 0 \in Int /\ Slots - 1 \in Int
      BY <1>1
    <3>2. IsFiniteSet(0 .. Slots - 1)
          /\ Cardinality(0 .. Slots - 1) = IF 0 > Slots - 1 THEN 0 ELSE Slots - 1 - 0 + 1
      BY <3>1, FS_Interval
    <3>3. QED
      BY <1>1, <3>2 DEF SlotNums
  <2>2. QED
    BY <2>1, <1>4, FS_RemoveElement
<1>10. Cardinality(SlotNums \ {k}) < Cardinality(first)
  BY <1>1, <1>8, <1>9
<1> HIDE DEF slot, first
<1>11. \E f, g \in first : f # g /\ slot[f] = slot[g]
  BY <1>7, <1>8, <1>9, <1>10, FS_PigeonHole
<1>12. QED
  BY <1>7, <1>11

\* The listening socket's turn is the first.
LEMMA AtListening ==
    ASSUME IInv, AtListener
    PROVE  /\ pos = 0 /\ pos \in 0 .. Slots - 1 /\ pc = "dispatch"
           /\ \A i \in pos + 1 .. Slots - 1 :
                 Fresh(i) /\ (fdArr[i] # NoFd => fdArr[i] \in FdNums \ {ListenFd})
           /\ \A fd \in FdNums : ready[fd] # Unused => ready[fd] = fds[fd]
<1>1. TypeOK /\ NetInv /\ Tabled(fdArr, NoFd) /\ DispatchInv
  BY Parts
<1>2. pos \in 0 .. Slots - 1 /\ fdArr[pos] = ListenFd /\ fdArr[pos] # NoFd /\ pc = "dispatch"
  BY <1>1, Shape DEF AtListener, Dispatching, IsReady
<1>3. pos = 0
  BY <1>1, <1>2, Shape, AtPlace
<1>4. \A i \in pos + 1 .. Slots - 1 : fdArr[i] # NoFd => fdArr[i] \in FdNums \ {ListenFd}
  BY <1>1, <1>3, Shape, AtPlace
<1>5. QED
  BY <1>1, <1>2, <1>3, <1>4, Shape DEF DispatchInv

\* The new connection gets an empty slot that the dispatcher has yet to pass,
\* and a number that is not in the set.
LEMMA AddsKeeps == IInv /\ AccepterAdds => IInv'
<1> SUFFICES ASSUME IInv, AccepterAdds PROVE IInv'
  OBVIOUS
<1>1. TypeOK /\ NetInv /\ Tabled(fdArr, NoFd) /\ TableExact
  BY Parts DEF IInv
<1>2. PICK k \in SlotNums : k = Min(FreeSlots) /\ fdArr[k] = NoFd
  <2>1. FreeSlots \in SUBSET Nat /\ FreeSlots # {}
    BY SlotsAssumption DEF FreeSlots, SlotNums, AccepterAdds
  <2>2. QED
    BY <2>1, MinFacts DEF FreeSlots
<1>3. PICK fd \in FdNums : Accept(fd) /\ fdArr' = [fdArr EXCEPT ![k] = fd]
  BY <1>2 DEF AccepterAdds
<1>4. AtListener /\ FreeSlots # {} /\ Advance /\ ready' = ready
  BY DEF AccepterAdds
<1>5. /\ NetInv' /\ FreeFds # {} /\ fd = Min(FreeFds) /\ fd \in FreeFds
      /\ \A f \in FdNums \ {fd} : fds'[f] = fds[f]
      /\ \A f \in FdNums \ {fd, ListenFd} : Readable(f) <=> Readable(f)'
  BY <1>1, <1>3, Accepts
<1>6. Tabled(fdArr, NoFd)' /\ k # 0 /\ \A i \in SlotNums : fdArr[i] # fd
  <2>1. /\ Slots \in Nat \ {0} /\ NoFd \notin FdNums /\ k \in 0 .. Slots - 1
        /\ fdArr \in [0 .. Slots - 1 -> FdNums \cup {NoFd}] /\ SlotNums = 0 .. Slots - 1
    BY <1>1, Shape
  <2>2. PICK next : next = [fdArr EXCEPT ![k] = fd]
    OBVIOUS
  <2>3. Tabled(next, NoFd)' /\ k # 0 /\ \A i \in 0 .. Slots - 1 : fdArr[i] # fd
    BY <1>1, <1>2, <1>3, <2>1, <2>2, TableAdds
  <2>4. QED
    BY <1>3, <2>1, <2>2, <2>3
<1>7. /\ fdArr' \in [SlotNums -> FdNums \cup {NoFd}]
      /\ fdArr'[k] = fd /\ \A i \in SlotNums \ {k} : fdArr'[i] = fdArr[i]
  BY <1>1, <1>3 DEF TypeOK
<1>8. /\ pos = 0 /\ pos \in 0 .. Slots - 1
      /\ \A i \in pos + 1 .. Slots - 1 :
            Fresh(i) /\ (fdArr[i] # NoFd => fdArr[i] \in FdNums \ {ListenFd})
      /\ ready[fd] = Unused
  BY <1>4, <1>5, AtListening DEF FreeFds
<1>9. TableExact'
  <2>1. fd < ListenFd + Slots
    BY <1>1, <1>4, <1>5, RoomBelow
  <2>2. \A f \in Registered' : f = fd \/ f \in Registered
    BY <1>7 DEF Registered
  <2>3. QED
    BY <1>1, <1>6, <2>1, <2>2 DEF TableExact
<1>10. ASSUME NEW i \in pos + 1 .. Slots - 1 PROVE Fresh(i)'
  <2>1. i \in SlotNums
    BY <1>1, Shape
  <2>2. CASE i = k
    BY <2>2, <1>4, <1>7, <1>8 DEF Fresh
  <2>3. CASE i # k
    BY <2>1, <2>3, <1>4, <1>5, <1>6, <1>7, <1>8, FreshStays
  <2>4. QED
    BY <2>2, <2>3
<1>11. QED
  BY <1>4, <1>5, <1>7, <1>8, <1>9, <1>10, AdvanceKeeps

\* The connection that finds no slot is nowhere any more.
LEMMA FullKeeps == IInv /\ AccepterFull => IInv'
<1> SUFFICES ASSUME IInv, AccepterFull PROVE IInv'
  OBVIOUS
<1>1. TypeOK /\ NetInv
  BY DEF IInv
<1>2. /\ AtListener /\ AcceptAndClose /\ Advance /\ fdArr' = fdArr /\ ready' = ready
      /\ fds' = fds
  BY DEF AccepterFull, AcceptAndClose
<1>3. NetInv' /\ \A f \in FdNums \ {ListenFd} : Readable(f) <=> Readable(f)'
  BY <1>1, <1>2, Refuses
<1>4. \A i \in pos + 1 .. Slots - 1 : Fresh(i)'
  BY <1>1, <1>2, <1>3, Shape, AtListening, FreshStays
<1>5. TableExact' /\ fdArr' \in [SlotNums -> FdNums \cup {NoFd}]
  BY <1>1, <1>2, TableSame DEF TypeOK
<1>6. QED
  BY <1>2, <1>3, <1>4, <1>5, AtListening, AdvanceKeeps

\* The slot that Recver works on, and the connection behind it.
LEMMA AtRecver ==
    ASSUME IInv, AtClient \/ pc = "send"
    PROVE  /\ pos \in 1 .. Slots - 1 /\ pos \in SlotNums
           /\ fdArr[pos] \in FdNums /\ fdArr[pos] # NoFd /\ fds[fdArr[pos]] \in Conns
           /\ \A i \in SlotNums : i # pos /\ fdArr[i] # NoFd => fdArr[i] \in FdNums \ {fdArr[pos]}
           /\ \A i \in pos + 1 .. Slots - 1 : Fresh(i)
<1>1. TypeOK /\ NetInv /\ Tabled(fdArr, NoFd) /\ DispatchInv
  BY Parts
<1>2. pos \in SlotNums /\ fdArr[pos] # NoFd /\ \A i \in pos + 1 .. Slots - 1 : Fresh(i)
  BY <1>1, Shape DEF AtClient, Dispatching, IsReady, DispatchInv
<1>3. fdArr[pos] \in FdNums /\ (fdArr[pos] = ListenFd <=> pos = 0)
  BY <1>1, <1>2, Shape, AtPlace
<1>4. pos # 0
  BY <1>1, <1>3 DEF AtClient, DispatchInv
<1>5. pos \in 1 .. Slots - 1
  BY <1>1, <1>2, <1>4, Shape
<1>6. fds[fdArr[pos]] \in Conns
  BY <1>1, <1>2, <1>4, Shape, AtPlace
<1>7. \A i \in SlotNums : i # pos /\ fdArr[i] # NoFd => fdArr[i] \in FdNums \ {fdArr[pos]}
  BY <1>1, <1>2, Shape DEF Tabled, TypeOK
<1>8. QED
  BY <1>2, <1>3, <1>5, <1>6, <1>7

\* What has been received is unanswered.
LEMMA ReceivesKeeps == IInv /\ RecverReceives => IInv'
<1> SUFFICES ASSUME IInv, RecverReceives PROVE IInv'
  OBVIOUS
<1>1. TypeOK /\ NetInv
  BY DEF IInv
<1>2. PICK g \in FdNums : /\ g = fdArr[pos] /\ g # NoFd /\ fds[g] \in Conns /\ Recv(fds[g])
                          /\ buff' = Buffer(fds[g]) /\ AtClient
  BY AtRecver DEF RecverReceives
<1>3. pc' = "send" /\ UNCHANGED <<pos, fdArr, ready>>
  BY DEF RecverReceives
<1>4. /\ NetInv' /\ buff' \in Seq(1 .. MaxMsgs)
      /\ taken'[fds[g]] = sent[fds[g]] /\ Len(replies[fds[g]]) < sent[fds[g]]
      /\ \A f \in FdNums \ {g} : Readable(f) <=> Readable(f)'
      /\ replies' = replies /\ fds' = fds
  BY <1>1, <1>2, Receives
<1>5. TableExact' /\ NeverKilled'
  BY <1>3, <1>4, TableSame DEF NeverKilled
<1>6. TypeOK'
  BY <1>1, <1>3, <1>4 DEF TypeOK, NetInv
<1>7. \A i \in pos + 1 .. Slots - 1 : Fresh(i)'
  BY <1>1, <1>2, <1>3, <1>4, Shape, AtRecver, FreshStays
<1>8. DispatchInv'
  <2>1. pos \in 1 .. Slots - 1
    BY <1>2, AtRecver
  <2>2. Len(replies'[fds'[fdArr'[pos']]]) < taken'[fds'[fdArr'[pos']]]
    BY <1>2, <1>3, <1>4
  <2>3. QED
    BY <1>2, <1>3, <1>7, <2>1, <2>2 DEF DispatchInv
<1>9. QED
  BY <1>4, <1>5, <1>6, <1>8 DEF IInv

\* Slot and descriptor are given up together.
LEMMA ClosesKeeps == IInv /\ RecverCloses => IInv'
<1> SUFFICES ASSUME IInv, RecverCloses PROVE IInv'
  OBVIOUS
<1>1. TypeOK /\ NetInv /\ Tabled(fdArr, NoFd) /\ TableExact
  BY Parts DEF IInv
<1>2. /\ AtClient /\ RecvEndAndClose(fdArr[pos]) /\ fdArr' = [fdArr EXCEPT ![pos] = NoFd]
      /\ Advance /\ ready' = ready
  BY DEF RecverCloses
<1>3. PICK g \in FdNums : /\ g = fdArr[pos] /\ g # NoFd /\ fds[g] \in Conns
                          /\ pos \in 1 .. Slots - 1 /\ pos \in SlotNums
  BY <1>2, AtRecver
<1>4. /\ NetInv' /\ \A f \in FdNums \ {g} : fds'[f] = fds[f]
      /\ \A f \in FdNums \ {g} : Readable(f) <=> Readable(f)'
  BY <1>1, <1>2, <1>3, Finishes
<1>5. Tabled(fdArr, NoFd)'
  <2>1. /\ Slots \in Nat \ {0} /\ NoFd \notin FdNums /\ pos \in 0 .. Slots - 1 /\ pos # 0
        /\ fdArr \in [0 .. Slots - 1 -> FdNums \cup {NoFd}]
    BY <1>1, <1>3, Shape
  <2>2. PICK next : next = [fdArr EXCEPT ![pos] = NoFd]
    OBVIOUS
  <2>3. Tabled(next, NoFd)'
    BY <1>1, <1>2, <1>3, <2>1, <2>2, TableDrops
  <2>4. QED
    BY <1>2, <2>2, <2>3
<1>6. /\ fdArr' \in [SlotNums -> FdNums \cup {NoFd}]
      /\ fdArr'[pos] = NoFd /\ \A i \in SlotNums \ {pos} : fdArr'[i] = fdArr[i]
  BY <1>1, <1>2, <1>3 DEF TypeOK
<1>7. TableExact'
  <2>1. Registered' \subseteq Registered
    BY <1>6 DEF Registered
  <2>2. QED
    BY <1>1, <1>5, <2>1 DEF TableExact
<1>8. \A i \in pos + 1 .. Slots - 1 : Fresh(i)'
  BY <1>1, <1>2, <1>3, <1>4, <1>6, Shape, AtRecver, FreshStays
<1>9. QED
  BY <1>1, <1>2, <1>3, <1>4, <1>6, <1>7, <1>8, AdvanceKeeps, Shape

\* A connection whose message is unanswered has not been reset.
LEMMA SendsFinds ==
    ASSUME IInv, RecverSends
    PROVE  /\ Send(fds[fdArr[pos]], buff) /\ Advance /\ UNCHANGED <<fdArr, ready>>
           /\ pc = "send" /\ fdArr[pos] \in FdNums /\ fds[fdArr[pos]] \in Conns
           /\ buff \in Seq(1 .. MaxMsgs)
           /\ Len(replies[fds[fdArr[pos]]]) < taken[fds[fdArr[pos]]]
<1>1. pc = "send" /\ TypeOK /\ NetInv /\ DispatchInv
  BY DEF IInv, RecverSends
<1>2. PICK c \in Conns : c = fds[fdArr[pos]] /\ fdArr[pos] \in FdNums
  BY <1>1, AtRecver
<1>3. Len(replies[c]) < taken[c]
  BY <1>1, <1>2 DEF DispatchInv
<1>4. ~Reset
  BY <1>1, <1>2, <1>3, Unanswered DEF Reset
<1>5. QED
  BY <1>1, <1>2, <1>3, <1>4 DEF RecverSends, TypeOK

\* The reply is sent and the dispatcher goes on.
LEMMA SendsKeeps == IInv /\ RecverSends => IInv'
<1> SUFFICES ASSUME IInv, RecverSends PROVE IInv'
  OBVIOUS
<1>1. TypeOK /\ NetInv
  BY DEF IInv
<1>2. PICK c \in Conns : c = fds[fdArr[pos]]
  BY SendsFinds
<1>3. /\ Send(c, buff) /\ Advance /\ UNCHANGED <<fdArr, ready>> /\ pc = "send"
      /\ buff \in Seq(1 .. MaxMsgs) /\ Len(replies[c]) < taken[c]
  BY <1>2, SendsFinds
<1>4. NetInv' /\ fds' = fds /\ \A f \in FdNums : Readable(f) <=> Readable(f)'
  BY <1>1, <1>3, Replies
<1>5. pos \in 0 .. Slots - 1 /\ \A i \in pos + 1 .. Slots - 1 : Fresh(i)
  BY <1>3, AtRecver
<1>6. \A i \in SlotNums : fdArr[i] # NoFd => fdArr[i] \in FdNums
  BY <1>1 DEF TypeOK
<1>7. \A i \in pos + 1 .. Slots - 1 : Fresh(i)'
  BY <1>1, <1>3, <1>4, <1>5, <1>6, Shape, FreshStays
<1>8. TableExact' /\ fdArr' \in [SlotNums -> FdNums \cup {NoFd}]
  BY <1>1, <1>3, <1>4, TableSame DEF TypeOK
<1>9. QED
  BY <1>3, <1>4, <1>5, <1>7, <1>8, AdvanceKeeps

----------------------------------------------------------------------------
\* Every step of the server and of its clients keeps the invariant.
LEMMA Keeps == IInv /\ [Next]_vars => IInv'
<1> SUFFICES ASSUME IInv, [Next]_vars PROVE IInv'
  OBVIOUS
<1>1. CASE ServerStep
  BY <1>1, SelectKeeps, PassKeeps, EndKeeps, AddsKeeps, FullKeeps, ReceivesKeeps, ClosesKeeps,
     SendsKeeps DEF ServerStep, Accepter, Recver
<1>2. CASE UNCHANGED vars
  <2>1. /\ UNCHANGED netVars /\ UNCHANGED <<fdArr, ready, pc, pos, buff, taken, replies, fds>>
    BY <1>2 DEF vars, netVars, serverVars
  <2>2. NetInv' /\ TableExact' /\ NeverKilled' /\ \A fd \in FdNums : Readable(fd) <=> Readable(fd)'
    BY <2>1, NetStutters, TableSame DEF IInv, NeverKilled
  <2>3. TypeOK'
    BY <2>1, <2>2 DEF IInv, TypeOK, NetInv
  <2>4. \A i \in SlotNums : Fresh(i) => Fresh(i)'
    <3>1. \A i \in SlotNums : fdArr[i] # NoFd => fdArr[i] \in FdNums
      BY DEF IInv, TypeOK
    <3>2. QED
      BY <2>1, <2>2, <3>1, FreshStays
  <2>5. DispatchInv'
    BY <2>1, <2>4, Shape DEF IInv, DispatchInv
  <2>6. QED
    BY <2>2, <2>3, <2>5 DEF IInv
<1>3. CASE SelectTimeout
  BY <1>2, <1>3 DEF SelectTimeout
<1>4. CASE \E c \in Conns : ClientStep(c) /\ UNCHANGED serverVars
  BY <1>4, ClientKeeps
<1>5. QED
  BY <1>1, <1>2, <1>3, <1>4 DEF Next

\* The invariant holds for any number of clients, messages, descriptors, slots.
THEOREM Inductive == Spec => []IInv
BY Initially, Keeps, PTL DEF Spec

\* The table and the open descriptors stay the same set, each in one slot, and
\* no descriptor is above what the table's size allows.
THEOREM TableIsExact == Spec => []TableExact
<1>1. IInv => TableExact
  BY DEF IInv
<1>2. QED
  BY <1>1, Inductive, PTL

\* Every slot the dispatcher still has to visit speaks of the connection that
\* select() reported, and that one is still readable.
THEOREM NothingStale == Spec => []NoStaleDispatch
<1>1. IInv => NoStaleDispatch
  BY DEF IInv, DispatchInv, Fresh, NoStaleDispatch
<1>2. QED
  BY <1>1, Inductive, PTL

\* No client that leaves can make the server write to a reset connection.
THEOREM ServerSurvives == Spec => []NeverKilled
<1>1. IInv => NeverKilled
  BY DEF IInv
<1>2. QED
  BY <1>1, Inductive, PTL

----------------------------------------------------------------------------
(* The abstract service                                                     *)

\* Every step is a step of the abstract service or invisible to it.
LEMMA StepEchoes == IInv /\ [Next]_vars => [Echo(Places)!Next]_(Echo(Places)!echoVars)
<1> SUFFICES ASSUME IInv, [Next]_vars PROVE [Echo(Places)!Next]_(Echo(Places)!echoVars)
  OBVIOUS
<1>1. TypeOK /\ NetInv /\ Tabled(fdArr, NoFd)
  BY Parts
<1>2. CASE Select \/ SelectTimeout \/ Skip \/ DispatchEnd \/ AccepterFails \/ RecverReceives
           \/ UNCHANGED vars
  <2>1. UNCHANGED <<client, sent, replies, ended, fds>>
    BY <1>2 DEF Select, SelectTimeout, Skip, DispatchEnd, AccepterFails, AcceptFails,
                RecverReceives, Recv, clientSide, vars, netVars
  <2>2. QED
    BY <2>1, Unseen
<1>3. CASE AccepterAdds
  <2>1. PICK fd \in FdNums : Accept(fd)
    BY <1>3 DEF AccepterAdds
  <2>2. \E i \in 0 .. Slots - 1 : fdArr[i] = NoFd
    BY <1>1, <1>3, Shape DEF AccepterAdds, FreeSlots
  <2>3. Cardinality(Admitted) < Slots - 1
    BY <1>1, <2>2, Shape, PlacesUsed
  <2>4. QED
    BY <1>1, <2>1, <2>3, AcceptEchoes DEF Places
<1>4. CASE AccepterFull
  <2>1. \A i \in 0 .. Slots - 1 : fdArr[i] # NoFd
    BY <1>1, <1>4, Shape DEF AccepterFull, FreeSlots
  <2>2. Cardinality(Admitted) = Slots - 1
    BY <1>1, <2>1, Shape, PlacesUsed
  <2>3. QED
    BY <1>1, <1>4, <2>2, RefuseEchoes DEF Places, AccepterFull
<1>5. CASE RecverSends
  BY <1>1, <1>5, SendsFinds, AnswerEchoes
<1>6. CASE RecverCloses
  <2>1. fdArr[pos] \in FdNums /\ fds[fdArr[pos]] \in Conns /\ RecvEndAndClose(fdArr[pos])
    BY <1>6, AtRecver DEF RecverCloses
  <2>2. QED
    BY <1>1, <2>1, FinishEchoes
<1>7. CASE \E c \in Conns : ClientStep(c) /\ UNCHANGED serverVars
  BY <1>1, <1>7, ClientEchoes
<1>8. QED
  BY <1>2, <1>3, <1>4, <1>5, <1>6, <1>7 DEF Next, ServerStep, Accepter, Recver

\* The select server keeps the promises of the abstract service: it admits a
\* client while there is a place, turns it away when there is none, and answers
\* each message of an admitted client once.
THEOREM Implements == Spec => ImplementsService
<1>1. Init => Echo(Places)!Init
  BY EchoInitially DEF Init
<1>2. QED
  BY <1>1, StepEchoes, Inductive, PTL DEF Spec, ImplementsService
=============================================================================
