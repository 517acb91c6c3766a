--------------------------- MODULE TcpNet_proofs ---------------------------
(***************************************************************************)
(* What the servers' proofs need of TcpNet: each operation on the network  *)
(* keeps NetInv and leaves the other connections readable, each server's   *)
(* table stays exact, and each operation is a step of the abstract service *)
(* or invisible to it.                                                     *)
(***************************************************************************)
EXTENDS TcpNet, FiniteSetTheorems, WellFoundedInduction, TLAPS

\* The least element of a set of natural numbers.
LEMMA MinFacts ==
    ASSUME NEW S \in SUBSET Nat, S # {}
    PROVE  Min(S) \in S /\ \A y \in S : Min(S) <= y
<1> DEFINE R == OpToRel(<, Nat)
<1>1. IsWellFoundedOn(R, Nat)
  BY NatLessThanWellFounded
<1>2. \A x, y \in Nat : y < x => <<y, x>> \in R
  BY DEF OpToRel
<1> HIDE DEF R
<1>3. \E x \in S : \A y \in S : ~(<<y, x>> \in R)
  BY <1>1, WFMin
<1>4. \E x \in S : \A y \in S : x <= y
  <2>1. PICK x \in S : \A y \in S : ~(<<y, x>> \in R)
    BY <1>3
  <2>2. \A y \in S : x \in Nat /\ y \in Nat /\ ~(y < x)
    BY <2>1, <1>2
  <2>3. \A y \in S : x <= y
    BY <2>2
  <2>4. QED
    BY <2>3
<1>5. QED
  BY <1>4 DEF Min

\* The listening socket's descriptor.
LEMMA Listens == ListenFd \in FdNums /\ ListenFd \in Nat /\ \A fd \in FdNums : ListenFd <= fd
<1>1. FdNums \in SUBSET Nat /\ FdNums # {}
  BY NetAssumption
<1>2. QED
  BY <1>1, MinFacts DEF ListenFd

\* The counters of a connection are numbers.
LEMMA Numbers ==
    ASSUME NetTypeOK, NEW c \in Conns
    PROVE  /\ MaxMsgs \in Nat
           /\ sent[c] \in 0 .. MaxMsgs /\ got[c] \in 0 .. MaxMsgs /\ taken[c] \in 0 .. MaxMsgs
           /\ replies[c] \in Seq(Seq(1 .. MaxMsgs)) /\ Len(replies[c]) \in Nat
           /\ Len(replies[c]) <= taken[c]
BY NetAssumption DEF NetTypeOK

\* A function on 1 .. n is a sequence.
LEMMA IsSequence == ASSUME NEW S, NEW n \in Nat, NEW f \in [1 .. n -> S] PROVE f \in Seq(S)
OBVIOUS

\* Nobody has connected yet.
LEMMA NetInitially == NetInit => NetInv
<1> USE NetAssumption, Listens DEF NetInit
<1>1. NetInit => NetTypeOK
  BY DEF NetTypeOK
<1>2. NetInit => OneAtATime
  BY DEF OneAtATime, OneAhead
<1>3. NetInit => OnePlace
  BY DEF OnePlace, Alive
<1>4. QED
  BY <1>1, <1>2, <1>3 DEF NetInv

\* A step that leaves the network alone.
LEMMA NetStutters ==
    ASSUME NetInv, UNCHANGED netVars
    PROVE  NetInv' /\ (\A fd \in FdNums : Readable(fd) <=> Readable(fd)')
<1>1. UNCHANGED <<client, sent, got, closing, taken, replies, ended, backlog, fds>>
  BY DEF netVars
<1>2. QED
  BY <1>1 DEF NetInv, NetTypeOK, OneAtATime, OneAhead, OnePlace, Alive, Readable

----------------------------------------------------------------------------
(* The clients                                                              *)

\* No step of a client takes a message from the server or touches its table,
\* and what is readable stays so.
LEMMA ClientSides ==
    ASSUME NetTypeOK, NEW c \in Conns, ClientStep(c)
    PROVE  /\ UNCHANGED serverSide
           /\ \A fd \in FdNums : Readable(fd) => Readable(fd)'
<1>1. UNCHANGED serverSide
  BY DEF ClientStep, ClientAnswered, ClientConnect, ClientSend, ClientSendLost, ClientRecv,
         ClientRecvError, ClientLeave
<1>2. taken' = taken /\ fds' = fds
  BY <1>1 DEF serverSide
<1>3. \A d \in Conns : /\ sent[d] \in Nat /\ taken[d] \in Nat /\ sent'[d] \in Nat
                       /\ sent[d] <= sent'[d]
                       /\ closing[d] # "open" => closing'[d] # "open"
  <2> SUFFICES ASSUME NEW d \in Conns
               PROVE  /\ sent[d] \in Nat /\ taken[d] \in Nat /\ sent'[d] \in Nat
                      /\ sent[d] <= sent'[d]
                      /\ closing[d] # "open" => closing'[d] # "open"
    OBVIOUS
  <2>1. /\ sent[d] \in Nat /\ taken[d] \in Nat
        /\ sent \in [Conns -> 0 .. MaxMsgs] /\ closing \in [Conns -> {"open", "fin", "rst"}]
    BY Numbers DEF NetTypeOK
  <2>2. CASE ClientSend(c)
    BY <2>1, <2>2 DEF ClientSend
  <2>3. CASE ClientLeave(c)
    BY <2>1, <2>3 DEF ClientLeave
  <2>4. CASE UNCHANGED <<sent, closing>>
    BY <2>1, <2>4
  <2>5. QED
    BY <2>2, <2>3, <2>4 DEF ClientStep, ClientAnswered, ClientConnect, ClientSendLost,
                            ClientRecv, ClientRecvError
<1>4. backlog # <<>> => backlog' # <<>>
  <2>1. CASE ClientConnect(c)
    <3>1. backlog \in Seq(Conns) /\ backlog' = Append(backlog, c)
      BY <2>1 DEF ClientConnect, NetTypeOK
    <3>2. QED
      BY <3>1
  <2>2. CASE backlog' = backlog
    BY <2>2
  <2>3. QED
    BY <2>1, <2>2 DEF ClientStep, ClientAnswered, ClientSend, ClientSendLost, ClientRecv,
                      ClientRecvError, ClientLeave
<1>5. QED
  BY <1>1, <1>2, <1>3, <1>4 DEF Readable

\* Types and the progress of each connection.
LEMMA ClientTypes ==
    ASSUME NetTypeOK, OneAtATime, NEW c \in Conns, ClientStep(c)
    PROVE  NetTypeOK' /\ OneAtATime'
<1>1. UNCHANGED serverSide
  BY ClientSides
<1>2. UNCHANGED <<taken, replies, ended, fds>>
  BY <1>1 DEF serverSide
<1>3. /\ client \in [Conns -> {"off", "ready", "waiting", "gone"}]
      /\ sent \in [Conns -> 0 .. MaxMsgs] /\ got \in [Conns -> 0 .. MaxMsgs]
      /\ closing \in [Conns -> {"open", "fin", "rst"}]
      /\ backlog \in Seq(Conns)
  BY DEF NetTypeOK
<1>4. /\ MaxMsgs \in Nat
      /\ \A d \in Conns : /\ sent[d] \in 0 .. MaxMsgs /\ got[d] \in 0 .. MaxMsgs
                          /\ taken[d] \in 0 .. MaxMsgs /\ Len(replies[d]) \in Nat
                          /\ Len(replies[d]) <= taken[d] /\ OneAhead(d)
  BY Numbers, NetAssumption DEF OneAtATime
<1>5. SUFFICES /\ client' \in [Conns -> {"off", "ready", "waiting", "gone"}]
               /\ sent' \in [Conns -> 0 .. MaxMsgs] /\ got' \in [Conns -> 0 .. MaxMsgs]
               /\ closing' \in [Conns -> {"open", "fin", "rst"}]
               /\ backlog' \in Seq(Conns)
               /\ \A d \in Conns : OneAhead(d)'
  BY <1>2 DEF NetTypeOK, OneAtATime
<1>6. \A d \in Conns : d # c => OneAhead(d)'
  <2>1. \A d \in Conns : d # c => /\ client'[d] = client[d] /\ sent'[d] = sent[d]
                                  /\ got'[d] = got[d] /\ closing'[d] = closing[d]
    BY <1>3 DEF ClientStep, ClientAnswered, ClientConnect, ClientSend, ClientSendLost,
                ClientRecv, ClientRecvError, ClientLeave
  <2>2. QED
    BY <1>2, <1>4, <2>1 DEF OneAhead
<1>7. CASE ClientConnect(c)
  BY <1>2, <1>3, <1>4, <1>6, <1>7 DEF ClientConnect, OneAhead
<1>8. CASE ClientSend(c)
  <2>1. /\ client[c] = "ready" /\ sent[c] < MaxMsgs /\ ended[c] = "no"
        /\ client' = [client EXCEPT ![c] = "waiting"] /\ sent' = [sent EXCEPT ![c] = @ + 1]
        /\ got' = got /\ closing' = closing /\ backlog' = backlog
    BY <1>8 DEF ClientSend
  <2>2. sent[c] + 1 \in 0 .. MaxMsgs
    BY <2>1, <1>4
  <2>3. OneAhead(c)'
    BY <2>1, <1>2, <1>3, <1>4 DEF OneAhead
  <2>4. QED
    BY <2>1, <2>2, <2>3, <1>3, <1>6
<1>9. CASE ClientSendLost(c)
  BY <1>2, <1>3, <1>4, <1>6, <1>9 DEF ClientSendLost, OneAhead
<1>10. CASE ClientRecv(c)
  <2>1. /\ client[c] = "waiting" /\ got[c] < Len(replies[c])
        /\ client' = [client EXCEPT ![c] = "ready"] /\ got' = [got EXCEPT ![c] = @ + 1]
        /\ sent' = sent /\ closing' = closing /\ backlog' = backlog
    BY <1>10 DEF ClientRecv, Unread
  <2>2. got[c] + 1 \in 0 .. MaxMsgs
    BY <2>1, <1>4
  <2>3. OneAhead(c)'
    BY <2>1, <1>2, <1>3, <1>4 DEF OneAhead
  <2>4. QED
    BY <2>1, <2>2, <2>3, <1>3, <1>6
<1>11. CASE ClientRecvError(c)
  BY <1>2, <1>3, <1>4, <1>6, <1>11 DEF ClientRecvError, OneAhead
<1>12. CASE ClientLeave(c)
  <2>1. /\ client[c] \in {"ready", "waiting"}
        /\ client' = [client EXCEPT ![c] = "gone"]
        /\ closing' = [closing EXCEPT ![c] = IF Unread(c) THEN "rst" ELSE "fin"]
        /\ sent' = sent /\ got' = got /\ backlog' = backlog
    BY <1>12 DEF ClientLeave
  <2>2. Unread(c) => Len(replies[c]) = sent[c]
    BY <1>4 DEF Unread, OneAhead
  <2>3. OneAhead(c)'
    BY <2>1, <2>2, <1>2, <1>3, <1>4 DEF OneAhead
  <2>4. QED
    BY <2>1, <2>3, <1>3, <1>6
<1>13. QED
  BY <1>7, <1>8, <1>9, <1>10, <1>11, <1>12 DEF ClientStep, ClientAnswered

\* A new connection is only in the backlog.
LEMMA ClientPlaces ==
    ASSUME NetTypeOK, OneAtATime, OnePlace, NEW c \in Conns, ClientStep(c)
    PROVE  OnePlace'
<1>1. fds' = fds /\ ended' = ended
  BY ClientSides DEF serverSide
<1> DEFINE StaysAlive(d) == client'[d] # "off" /\ ended'[d] = "no"
<1>2. \A d \in Conns : Alive(d) => StaysAlive(d)
  <2>1. client \in [Conns -> {"off", "ready", "waiting", "gone"}]
    BY DEF NetTypeOK
  <2>2. QED
    BY <1>1, <2>1 DEF Alive, ClientStep, ClientAnswered, ClientConnect, ClientSend,
                ClientSendLost, ClientRecv, ClientRecvError, ClientLeave
<1>3. backlog \in Seq(Conns) /\ fds \in [FdNums -> Conns \cup {Listener, Unused}]
  BY DEF NetTypeOK
<1>4. /\ fds[ListenFd] = Listener
      /\ \A f, g \in FdNums : fds[f] = fds[g] /\ fds[f] # Unused => f = g
      /\ \A f \in FdNums : fds[f] \in Conns => StaysAlive(fds[f])
  BY <1>2 DEF OnePlace
<1>5. \A m \in 1 .. Len(backlog) : backlog[m] \in Conns /\ StaysAlive(backlog[m])
  BY <1>2, <1>3 DEF OnePlace
<1>6. CASE backlog' = backlog
  BY <1>1, <1>4, <1>5, <1>6 DEF OnePlace, Alive
<1>7. CASE ClientConnect(c)
  <2>1. client[c] = "off" /\ ~Alive(c) /\ backlog' = Append(backlog, c)
    BY <1>7 DEF ClientConnect, Alive
  <2>2. StaysAlive(c)
    BY <1>1, <1>7 DEF ClientConnect, OneAtATime, OneAhead, NetTypeOK
  <2>3. \A f \in FdNums : fds[f] # c
    BY <2>1 DEF OnePlace
  <2>4. \A m \in 1 .. Len(backlog) : backlog[m] # c
    BY <2>1 DEF OnePlace
  <2>5. /\ Len(backlog) \in Nat /\ Len(backlog') = Len(backlog) + 1
        /\ backlog'[Len(backlog) + 1] = c
        /\ \A m \in 1 .. Len(backlog) : backlog'[m] = backlog[m]
    BY <1>3, <2>1
  <2>6. \A m \in 1 .. Len(backlog') : m = Len(backlog) + 1 \/ m \in 1 .. Len(backlog)
    BY <2>5
  <2>7. ASSUME NEW m \in 1 .. Len(backlog')
        PROVE  /\ StaysAlive(backlog'[m])
               /\ \A n \in 1 .. Len(backlog') : backlog'[m] = backlog'[n] => m = n
               /\ \A f \in FdNums : fds[f] # backlog'[m]
    <3>1. StaysAlive(backlog'[m])
      BY <2>2, <2>5, <2>6, <1>5
    <3>2. ASSUME NEW n \in 1 .. Len(backlog'), backlog'[m] = backlog'[n] PROVE m = n
      BY <2>4, <2>5, <2>6, <3>2 DEF OnePlace
    <3>3. \A f \in FdNums : fds[f] # backlog'[m]
      BY <2>3, <2>5, <2>6 DEF OnePlace
    <3>4. QED
      BY <3>1, <3>2, <3>3
  <2>8. QED
    BY <1>1, <1>4, <2>7 DEF OnePlace, Alive
<1>8. QED
  BY <1>6, <1>7 DEF ClientStep, ClientAnswered, ClientSend, ClientSendLost, ClientRecv,
                    ClientRecvError, ClientLeave

\* No step of a client breaks what the servers rely on.
LEMMA ClientKeepsNet ==
    ASSUME NetInv, NEW c \in Conns, ClientStep(c)
    PROVE  /\ NetInv' /\ UNCHANGED serverSide
           /\ \A fd \in FdNums : Readable(fd) => Readable(fd)'
BY ClientSides, ClientTypes, ClientPlaces DEF NetInv

----------------------------------------------------------------------------
(* The operations of the servers                                            *)

\* The first of the backlog.
LEMMA Oldest ==
    ASSUME NetInv, backlog # <<>>, backlog' = Tail(backlog)
    PROVE  /\ Head(backlog) \in Conns /\ Alive(Head(backlog))
           /\ \A f \in FdNums : fds[f] # Head(backlog)
           /\ backlog' \in Seq(Conns) /\ Len(backlog') \in Nat
           /\ \A m \in 1 .. Len(backlog') :
                 /\ m + 1 \in 1 .. Len(backlog) /\ backlog'[m] = backlog[m + 1]
                 /\ backlog'[m] \in Conns /\ Alive(backlog'[m]) /\ backlog'[m] # Head(backlog)
                 /\ \A n \in 1 .. Len(backlog') : backlog'[m] = backlog'[n] => m = n
                 /\ \A f \in FdNums : fds[f] # backlog'[m]
<1>1. backlog \in Seq(Conns) /\ OnePlace
  BY DEF NetInv, NetTypeOK
<1>2. /\ Len(backlog) \in Nat /\ Len(backlog) >= 1 /\ backlog[1] = Head(backlog)
      /\ Len(backlog') = Len(backlog) - 1 /\ backlog' \in Seq(Conns) /\ Head(backlog) \in Conns
      /\ \A m \in 1 .. Len(backlog') : backlog'[m] = backlog[m + 1] /\ m + 1 \in 1 .. Len(backlog)
  BY <1>1
<1>3. Alive(Head(backlog)) /\ \A f \in FdNums : fds[f] # Head(backlog)
  BY <1>1, <1>2 DEF OnePlace
<1>4. ASSUME NEW m \in 1 .. Len(backlog')
      PROVE  /\ backlog'[m] \in Conns /\ Alive(backlog'[m]) /\ backlog'[m] # Head(backlog)
             /\ \A n \in 1 .. Len(backlog') : backlog'[m] = backlog'[n] => m = n
             /\ \A f \in FdNums : fds[f] # backlog'[m]
  <2>1. /\ backlog[m + 1] \in Conns /\ Alive(backlog[m + 1])
        /\ \A f \in FdNums : fds[f] # backlog[m + 1]
        /\ \A n \in 1 .. Len(backlog) : backlog[m + 1] = backlog[n] => m + 1 = n
    BY <1>1, <1>2 DEF OnePlace
  <2>2. backlog[m + 1] # Head(backlog)
    BY <2>1, <1>2
  <2>3. \A n \in 1 .. Len(backlog') : backlog'[m] = backlog'[n] => m = n
    BY <2>1, <1>2
  <2>4. QED
    BY <2>1, <2>2, <2>3, <1>2
<1>5. QED
  BY <1>2, <1>3, <1>4

\* accept() gives the oldest connection the lowest number.
LEMMA Accepts ==
    ASSUME NetInv, NEW fd \in FdNums, Accept(fd)
    PROVE  /\ NetInv' /\ FreeFds # {} /\ fd = Min(FreeFds) /\ fd \in FreeFds /\ fd # ListenFd
           /\ Head(backlog) \in Conns /\ Alive(Head(backlog))
           /\ \A f \in FdNums : fds[f] # Head(backlog)
           /\ fds'[fd] = Head(backlog) /\ \A f \in FdNums \ {fd} : fds'[f] = fds[f]
           /\ FreeFds' = FreeFds \ {fd}
           /\ \A f \in FdNums \ {fd, ListenFd} : Readable(f) <=> Readable(f)'
           /\ UNCHANGED <<client, sent, got, closing, taken, replies, ended>>
<1>1. /\ backlog # <<>> /\ FreeFds # {} /\ fd = Min(FreeFds)
      /\ fds' = [fds EXCEPT ![fd] = Head(backlog)] /\ backlog' = Tail(backlog)
      /\ UNCHANGED <<client, sent, got, closing, taken, replies, ended>>
  BY DEF Accept, clientSide
<1>2. /\ backlog \in Seq(Conns) /\ fds \in [FdNums -> Conns \cup {Listener, Unused}]
      /\ NetTypeOK /\ OneAtATime /\ OnePlace
  BY DEF NetInv, NetTypeOK
<1>3. fd \in FreeFds /\ fds[fd] = Unused
  <2>1. FreeFds \in SUBSET Nat
    BY NetAssumption DEF FreeFds
  <2>2. fd \in FreeFds
    BY <1>1, <2>1, MinFacts
  <2>3. QED
    BY <2>2 DEF FreeFds
<1>4. fd # ListenFd
  BY <1>2, <1>3, NetAssumption DEF OnePlace
<1>5. Head(backlog) \in Conns /\ Alive(Head(backlog)) /\ \A f \in FdNums : fds[f] # Head(backlog)
  BY <1>1, Oldest
<1>6. /\ fds' \in [FdNums -> Conns \cup {Listener, Unused}]
      /\ fds'[fd] = Head(backlog) /\ \A f \in FdNums \ {fd} : fds'[f] = fds[f]
  BY <1>1, <1>2, <1>5
<1>7. OnePlace'
  <2>1. fds'[ListenFd] = Listener
    BY <1>2, <1>4, <1>6, Listens DEF OnePlace
  <2>2. \A f, g \in FdNums : fds'[f] = fds'[g] /\ fds'[f] # Unused => f = g
    BY <1>2, <1>5, <1>6 DEF OnePlace
  <2>3. \A f \in FdNums : fds'[f] \in Conns => Alive(fds'[f])
    BY <1>2, <1>5, <1>6 DEF OnePlace
  <2>4. \A m \in 1 .. Len(backlog') :
            /\ Alive(backlog'[m])
            /\ \A n \in 1 .. Len(backlog') : backlog'[m] = backlog'[n] => m = n
            /\ \A f \in FdNums : fds'[f] # backlog'[m]
    BY <1>1, <1>6, Oldest
  <2>5. \A c : Alive(c) => client'[c] # "off" /\ ended'[c] = "no"
    BY <1>1 DEF Alive
  <2>6. QED
    BY <2>1, <2>2, <2>3, <2>4, <2>5 DEF OnePlace, Alive
<1>8. NetTypeOK' /\ OneAtATime'
  <2>1. backlog' \in Seq(Conns)
    BY <1>1, Oldest
  <2>2. QED
    BY <1>1, <1>2, <1>6, <2>1 DEF NetTypeOK, OneAtATime, OneAhead
<1>9. FreeFds' = FreeFds \ {fd}
  BY <1>5, <1>6, NetAssumption DEF FreeFds
<1>10. \A f \in FdNums \ {fd, ListenFd} : Readable(f) <=> Readable(f)'
  <2>1. \A f \in FdNums \ {ListenFd} : fds[f] # Listener
    BY <1>2, Listens, NetAssumption DEF OnePlace
  <2>2. QED
    BY <1>1, <1>6, <2>1 DEF Readable
<1>11. QED
  BY <1>1, <1>3, <1>4, <1>5, <1>6, <1>7, <1>8, <1>9, <1>10 DEF NetInv

\* A connection that is closed at once is nowhere any more.
LEMMA Refuses ==
    ASSUME NetInv, AcceptAndClose
    PROVE  /\ NetInv' /\ Head(backlog) \in Conns /\ Alive(Head(backlog))
           /\ \A f \in FdNums : fds[f] # Head(backlog)
           /\ ended'[Head(backlog)] = "refused"
           /\ \A d \in Conns \ {Head(backlog)} : ended'[d] = ended[d]
           /\ \A f \in FdNums \ {ListenFd} : Readable(f) <=> Readable(f)'
           /\ UNCHANGED <<client, sent, got, closing, taken, replies, fds>>
<1>1. /\ backlog # <<>> /\ backlog' = Tail(backlog)
      /\ ended' = [ended EXCEPT ![Head(backlog)] = "refused"]
      /\ UNCHANGED <<client, sent, got, closing, taken, replies, fds>>
  BY DEF AcceptAndClose, clientSide
<1>2. /\ NetTypeOK /\ OneAtATime /\ OnePlace
      /\ ended \in [Conns -> {"no", "refused", "finished"}]
  BY DEF NetInv, NetTypeOK
<1>3. Head(backlog) \in Conns /\ Alive(Head(backlog)) /\ \A f \in FdNums : fds[f] # Head(backlog)
  BY <1>1, Oldest
<1>4. /\ \A d \in Conns : d # Head(backlog) => ended'[d] = ended[d]
      /\ ended'[Head(backlog)] = "refused"
      /\ ended' \in [Conns -> {"no", "refused", "finished"}]
  BY <1>1, <1>2, <1>3
<1>5. OnePlace'
  <2>1. /\ fds[ListenFd] = Listener
        /\ \A f, g \in FdNums : fds[f] = fds[g] /\ fds[f] # Unused => f = g
    BY <1>2 DEF OnePlace
  <2>2. \A f \in FdNums : fds[f] \in Conns => client[fds[f]] # "off" /\ ended'[fds[f]] = "no"
    BY <1>2, <1>3, <1>4 DEF OnePlace, Alive
  <2>3. \A m \in 1 .. Len(backlog') :
            /\ client[backlog'[m]] # "off" /\ ended'[backlog'[m]] = "no"
            /\ \A n \in 1 .. Len(backlog') : backlog'[m] = backlog'[n] => m = n
            /\ \A f \in FdNums : fds[f] # backlog'[m]
    BY <1>1, <1>4, Oldest DEF Alive
  <2>4. QED
    BY <1>1, <2>1, <2>2, <2>3 DEF OnePlace, Alive
<1>6. NetTypeOK'
  <2>1. backlog' \in Seq(Conns)
    BY <1>1, Oldest
  <2>2. QED
    BY <1>1, <1>2, <1>4, <2>1 DEF NetTypeOK
<1>7. OneAtATime'
  <2> SUFFICES ASSUME NEW d \in Conns PROVE OneAhead(d)'
    BY DEF OneAtATime
  <2>1. OneAhead(d)
    BY <1>2 DEF OneAtATime
  <2>2. CASE d = Head(backlog)
    BY <1>1, <1>3, <1>4, <2>1, <2>2 DEF OneAhead, Alive
  <2>3. CASE d # Head(backlog)
    BY <1>1, <1>4, <2>1, <2>3 DEF OneAhead
  <2>4. QED
    BY <2>2, <2>3
<1>8. \A f \in FdNums \ {ListenFd} : Readable(f) <=> Readable(f)'
  <2>1. \A f \in FdNums \ {ListenFd} : fds[f] # Listener
    BY <1>2, Listens, NetAssumption DEF OnePlace
  <2>2. QED
    BY <1>1, <2>1 DEF Readable
<1>9. QED
  BY <1>1, <1>3, <1>4, <1>5, <1>6, <1>7, <1>8 DEF NetInv

\* What has arrived is received, and what is received is received once.
LEMMA Receives ==
    ASSUME NetInv, NEW g \in FdNums, fds[g] \in Conns, Recv(fds[g])
    PROVE  /\ NetInv' /\ Buffer(fds[g]) \in Seq(1 .. MaxMsgs)
           /\ taken'[fds[g]] = sent[fds[g]] /\ Len(replies[fds[g]]) < sent[fds[g]]
           /\ taken[fds[g]] = Len(replies[fds[g]]) => Buffer(fds[g]) = <<Len(replies[fds[g]]) + 1>>
           /\ \A d \in Conns \ {fds[g]} : taken'[d] = taken[d]
           /\ \A f \in FdNums \ {g} : Readable(f) <=> Readable(f)'
           /\ UNCHANGED <<client, sent, got, closing, replies, ended, backlog, fds>>
<1> DEFINE c == fds[g]
<1>1. /\ c \in Conns /\ taken[c] < sent[c] /\ taken' = [taken EXCEPT ![c] = sent[c]]
      /\ UNCHANGED <<client, sent, got, closing, replies, ended, backlog, fds>>
  BY DEF Recv, clientSide
<1>2. \A f \in FdNums \ {g} : fds[f] # c
  BY NetAssumption DEF NetInv, OnePlace
<1> HIDE DEF c
<1>3. /\ NetTypeOK /\ OneAtATime /\ OnePlace /\ taken \in [Conns -> 0 .. MaxMsgs]
  BY DEF NetInv, NetTypeOK
<1>4. /\ MaxMsgs \in Nat /\ \A d \in Conns :
            sent[d] \in 0 .. MaxMsgs /\ got[d] \in Nat /\ taken[d] \in 0 .. MaxMsgs
            /\ Len(replies[d]) \in Nat /\ Len(replies[d]) <= taken[d]
  BY <1>3, Numbers, NetAssumption
<1>5. /\ taken' \in [Conns -> 0 .. MaxMsgs] /\ taken'[c] = sent[c]
      /\ \A d \in Conns \ {c} : taken'[d] = taken[d]
  BY <1>1, <1>3, <1>4
<1>6. sent[c] - taken[c] \in Nat /\ Buffer(c) \in [1 .. sent[c] - taken[c] -> 1 .. MaxMsgs]
  <2>1. \A i \in 1 .. sent[c] - taken[c] : taken[c] + i \in 1 .. MaxMsgs
    BY <1>1, <1>4
  <2>2. QED
    BY <1>1, <1>4, <2>1 DEF Buffer
<1>7. Buffer(c) \in Seq(1 .. MaxMsgs)
  BY ONLY <1>6, IsSequence
<1>8. taken[c] = Len(replies[c]) => Buffer(c) = <<Len(replies[c]) + 1>>
  <2> SUFFICES ASSUME taken[c] = Len(replies[c]) PROVE Buffer(c) = <<Len(replies[c]) + 1>>
    OBVIOUS
  <2>1. sent[c] <= got[c] + 1 /\ got[c] <= Len(replies[c])
    BY <1>1, <1>3 DEF OneAtATime, OneAhead
  <2>2. sent[c] - taken[c] = 1
    BY <1>1, <1>4, <2>1
  <2>3. Buffer(c) = [i \in 1 .. 1 |-> taken[c] + i]
    BY <2>2 DEF Buffer
  <2>4. QED
    BY <2>3, <1>1, <1>4
<1>9. Len(replies[c]) < sent[c]
  BY <1>1, <1>4
<1>10. NetTypeOK'
  <2>1. \A d \in Conns : Len(replies[d]) <= taken'[d]
    BY <1>1, <1>4, <1>5
  <2>2. QED
    BY <1>1, <1>3, <1>5, <2>1 DEF NetTypeOK
<1>11. OneAtATime'
  <2> SUFFICES ASSUME NEW d \in Conns PROVE OneAhead(d)'
    BY DEF OneAtATime
  <2>1. OneAhead(d)
    BY <1>3 DEF OneAtATime
  <2>2. taken'[d] <= sent[d]
    BY <1>4, <1>5, <2>1 DEF OneAhead
  <2>3. QED
    BY <1>1, <2>1, <2>2 DEF OneAhead
<1>12. OnePlace'
  BY <1>1, <1>3 DEF OnePlace, Alive
<1>13. \A f \in FdNums \ {g} : Readable(f) <=> Readable(f)'
  BY <1>1, <1>2, <1>5 DEF Readable
<1>14. QED
  BY <1>1, <1>5, <1>7, <1>8, <1>9, <1>10, <1>11, <1>12, <1>13 DEF NetInv, c

\* The descriptor of a connection whose client has gone is given up.
LEMMA Finishes ==
    ASSUME NetInv, NEW g \in FdNums, fds[g] \in Conns, RecvEndAndClose(g)
    PROVE  /\ NetInv' /\ client[fds[g]] = "gone" /\ Alive(fds[g])
           /\ ended'[fds[g]] = "finished" /\ \A d \in Conns \ {fds[g]} : ended'[d] = ended[d]
           /\ fds'[g] = Unused /\ \A f \in FdNums \ {g} : fds'[f] = fds[f] /\ fds[f] # fds[g]
           /\ g # ListenFd /\ FreeFds' = FreeFds \cup {g}
           /\ \A f \in FdNums \ {g} : Readable(f) <=> Readable(f)'
           /\ UNCHANGED <<client, sent, got, closing, taken, replies, backlog>>
<1> DEFINE c == fds[g]
<1>1. /\ c \in Conns /\ closing[c] # "open"
      /\ ended' = [ended EXCEPT ![c] = "finished"] /\ fds' = [fds EXCEPT ![g] = Unused]
      /\ UNCHANGED <<client, sent, got, closing, taken, replies, backlog>>
  BY DEF RecvEndAndClose, clientSide
<1>2. /\ NetTypeOK /\ OneAtATime /\ OnePlace /\ backlog \in Seq(Conns)
      /\ ended \in [Conns -> {"no", "refused", "finished"}]
      /\ fds \in [FdNums -> Conns \cup {Listener, Unused}]
  BY DEF NetInv, NetTypeOK
<1>3. /\ OneAhead(c) /\ Alive(c) /\ g # ListenFd /\ \A f \in FdNums \ {g} : fds[f] # c
  BY <1>1, <1>2, NetAssumption DEF OneAtATime, OnePlace
<1>4. client[c] = "gone"
  BY <1>1, <1>3 DEF OneAhead
<1>5. \A m \in 1 .. Len(backlog) : backlog[m] # c /\ backlog[m] \in Conns /\ backlog[m] # Unused
  BY <1>1, <1>2, NetAssumption DEF OnePlace
<1> HIDE DEF c
<1>6. /\ ended' \in [Conns -> {"no", "refused", "finished"}]
      /\ ended'[c] = "finished" /\ \A d \in Conns \ {c} : ended'[d] = ended[d]
      /\ fds' \in [FdNums -> Conns \cup {Listener, Unused}]
      /\ fds'[g] = Unused /\ \A f \in FdNums \ {g} : fds'[f] = fds[f]
  BY <1>1, <1>2
<1>7. OnePlace'
  <2>1. fds'[ListenFd] = Listener
    BY <1>2, <1>3, <1>6, Listens DEF OnePlace
  <2>2. \A f, h \in FdNums : fds'[f] = fds'[h] /\ fds'[f] # Unused => f = h
    BY <1>2, <1>6 DEF OnePlace
  <2>3. \A f \in FdNums : fds'[f] \in Conns => client[fds'[f]] # "off" /\ ended'[fds'[f]] = "no"
    BY <1>2, <1>3, <1>6, NetAssumption DEF OnePlace, Alive
  <2>4. \A m \in 1 .. Len(backlog) :
            /\ client[backlog[m]] # "off" /\ ended'[backlog[m]] = "no"
            /\ \A n \in 1 .. Len(backlog) : backlog[m] = backlog[n] => m = n
            /\ \A f \in FdNums : fds'[f] # backlog[m]
    BY <1>2, <1>5, <1>6 DEF OnePlace, Alive
  <2>5. QED
    BY <1>1, <2>1, <2>2, <2>3, <2>4 DEF OnePlace, Alive
<1>8. NetTypeOK'
  BY <1>1, <1>2, <1>6 DEF NetTypeOK
<1>9. OneAtATime'
  <2> SUFFICES ASSUME NEW d \in Conns PROVE OneAhead(d)'
    BY DEF OneAtATime
  <2>1. OneAhead(d)
    BY <1>2 DEF OneAtATime
  <2>2. CASE d = c
    BY <1>1, <1>3, <1>6, <2>1, <2>2 DEF OneAhead, Alive
  <2>3. CASE d # c
    BY <1>1, <1>6, <2>1, <2>3 DEF OneAhead
  <2>4. QED
    BY <2>2, <2>3
<1>10. FreeFds' = FreeFds \cup {g}
  BY <1>6 DEF FreeFds
<1>11. \A f \in FdNums \ {g} : Readable(f) <=> Readable(f)'
  BY <1>1, <1>6 DEF Readable
<1>12. QED
  BY <1>1, <1>3, <1>4, <1>6, <1>7, <1>8, <1>9, <1>10, <1>11 DEF NetInv, c

\* A connection whose message is unanswered has not been reset.
LEMMA Unanswered ==
    ASSUME NetInv, NEW c \in Conns, Len(replies[c]) < taken[c]
    PROVE  closing[c] # "rst" /\ Len(replies[c]) + 1 = sent[c] /\ Len(replies[c]) + 1 = taken[c]
<1>1. sent[c] \in Nat /\ got[c] \in Nat /\ taken[c] \in Nat /\ Len(replies[c]) \in Nat
  BY Numbers DEF NetInv
<1>2. /\ got[c] <= Len(replies[c]) /\ taken[c] <= sent[c] /\ sent[c] <= got[c] + 1
      /\ closing[c] = "rst" => Len(replies[c]) = sent[c]
  BY DEF NetInv, OneAtATime, OneAhead
<1>3. QED
  BY <1>1, <1>2

\* A reply makes up for the one message its client is ahead.
LEMMA Replies ==
    ASSUME NetInv, NEW c \in Conns, NEW b \in Seq(1 .. MaxMsgs), Send(c, b),
           Len(replies[c]) < taken[c]
    PROVE  /\ NetInv' /\ replies'[c] = Append(replies[c], b)
           /\ Len(replies'[c]) = Len(replies[c]) + 1 /\ Len(replies'[c]) = taken[c]
           /\ \A d \in Conns \ {c} : replies'[d] = replies[d]
           /\ \A f \in FdNums : Readable(f) <=> Readable(f)'
           /\ UNCHANGED <<client, sent, got, taken, ended, backlog, fds>>
<1>1. /\ replies' = [replies EXCEPT ![c] = Append(@, b)]
      /\ closing' = [closing EXCEPT ![c] = IF @ = "fin" THEN "rst" ELSE @]
      /\ UNCHANGED <<client, sent, got, taken, ended, backlog, fds>>
  BY DEF Send, clientSide
<1>2. Len(replies[c]) + 1 = sent[c] /\ Len(replies[c]) + 1 = taken[c]
  BY Unanswered
<1>3. /\ NetTypeOK /\ OneAtATime /\ OnePlace
      /\ replies \in [Conns -> Seq(Seq(1 .. MaxMsgs))]
      /\ closing \in [Conns -> {"open", "fin", "rst"}]
  BY DEF NetInv, NetTypeOK
<1>4. Append(replies[c], b) \in Seq(Seq(1 .. MaxMsgs))
      /\ Len(Append(replies[c], b)) = Len(replies[c]) + 1
  BY <1>3
<1>5. /\ replies' \in [Conns -> Seq(Seq(1 .. MaxMsgs))]
      /\ closing' \in [Conns -> {"open", "fin", "rst"}]
      /\ replies'[c] = Append(replies[c], b) /\ Len(replies'[c]) = Len(replies[c]) + 1
      /\ closing'[c] = IF closing[c] = "fin" THEN "rst" ELSE closing[c]
      /\ \A d \in Conns \ {c} : replies'[d] = replies[d] /\ closing'[d] = closing[d]
  BY <1>1, <1>3, <1>4
<1>6. OneAtATime'
  <2> SUFFICES ASSUME NEW d \in Conns PROVE OneAhead(d)'
    BY DEF OneAtATime
  <2>1. OneAhead(d) /\ Len(replies[d]) \in Nat /\ got[d] \in Nat
    BY <1>3, Numbers DEF OneAtATime
  <2>2. CASE d = c
    BY <1>1, <1>2, <1>5, <2>1, <2>2 DEF OneAhead
  <2>3. CASE d # c
    BY <1>1, <1>5, <2>1, <2>3 DEF OneAhead
  <2>4. QED
    BY <2>2, <2>3
<1>7. OnePlace'
  BY <1>1, <1>3 DEF OnePlace, Alive
<1>8. \A f \in FdNums : Readable(f) <=> Readable(f)'
  <2>1. \A d \in Conns : closing[d] # "open" <=> closing'[d] # "open"
    BY <1>5
  <2>2. QED
    BY <1>1, <2>1 DEF Readable
<1>9. NetTypeOK'
  <2>1. \A d \in Conns : Len(replies[d]) <= taken[d] /\ taken[d] \in Nat
    BY <1>3, Numbers
  <2>2. ASSUME NEW d \in Conns PROVE Len(replies'[d]) <= taken[d]
    <3>1. CASE d = c
      <4>1. Len(replies'[c]) = taken[c] /\ taken[c] \in Nat
        BY <1>2, <1>5, <2>1
      <4>2. QED
        BY <3>1, <4>1
    <3>2. CASE d # c
      BY <1>5, <2>1, <3>2
    <3>3. QED
      BY <3>1, <3>2
  <2>3. QED
    BY <1>1, <1>3, <1>5, <2>2 DEF NetTypeOK
<1>10. QED
  BY <1>1, <1>2, <1>5, <1>6, <1>7, <1>8, <1>9 DEF NetInv

----------------------------------------------------------------------------
(* The servers' tables                                                      *)

\* Who is behind the descriptor at a place of the table.
LEMMA AtPlace ==
    ASSUME NetInv, NEW n \in Nat \ {0}, NEW none, none \notin FdNums,
           NEW table \in [0 .. n - 1 -> FdNums \cup {none}], Tabled(table, none),
           NEW i \in 0 .. n - 1, table[i] # none
    PROVE  /\ table[i] \in FdNums
           /\ table[i] = ListenFd <=> i = 0
           /\ i # 0 => fds[table[i]] \in Conns /\ fds[table[i]] # Listener
<1>1. table[i] \in FdNums /\ table[i] \notin FreeFds
  <2>1. table[i] \in {table[j] : j \in DOMAIN table} \ {none}
    OBVIOUS
  <2>2. QED
    BY <2>1 DEF Tabled
<1>2. table[i] = ListenFd <=> i = 0
  BY Listens DEF Tabled
<1>3. fds[table[i]] # Unused /\ fds[table[i]] \in Conns \cup {Listener, Unused}
  BY <1>1 DEF FreeFds, NetInv, NetTypeOK
<1>4. fds[ListenFd] = Listener /\ Listener # Unused
  BY NetAssumption DEF NetInv, OnePlace
<1>5. QED
  BY <1>1, <1>2, <1>3, <1>4, Listens DEF NetInv, OnePlace

\* At first the table holds the listening socket.
LEMMA TableStarts ==
    ASSUME NetInit, NEW n \in Nat \ {0}, NEW none, none \notin FdNums,
           NEW table, table = [i \in 0 .. n - 1 |-> IF i = 0 THEN ListenFd ELSE none]
    PROVE  Tabled(table, none)
<1>1. {table[i] : i \in DOMAIN table} \ {none} = {ListenFd}
  BY Listens
<1>2. FdNums \ FreeFds = {ListenFd}
  BY Listens, NetAssumption DEF FreeFds, NetInit
<1>3. QED
  BY <1>1, <1>2, Listens DEF Tabled

\* A table that does not change, while no descriptor is opened or closed.
LEMMA TableStays ==
    ASSUME NEW table, NEW none, Tabled(table, none), fds' = fds
    PROVE  Tabled(table, none)'
BY DEF Tabled, FreeFds

\* A new descriptor gets an empty place.
LEMMA TableAdds ==
    ASSUME NetInv, NEW n \in Nat \ {0}, NEW none, none \notin FdNums,
           NEW table \in [0 .. n - 1 -> FdNums \cup {none}], Tabled(table, none),
           NEW k \in 0 .. n - 1, table[k] = none, NEW fd \in FdNums, Accept(fd),
           NEW next, next = [table EXCEPT ![k] = fd]
    PROVE  Tabled(next, none)' /\ k # 0 /\ \A i \in 0 .. n - 1 : table[i] # fd
<1>1. fd \in FreeFds /\ FreeFds' = FreeFds \ {fd} /\ fd # none
  BY Accepts
<1>2. k # 0
  BY Listens DEF Tabled
<1>3. \A i \in 0 .. n - 1 : table[i] # fd
  <2>1. fd \notin {table[i] : i \in DOMAIN table} \ {none}
    BY <1>1 DEF Tabled
  <2>2. QED
    BY <1>1, <2>1
<1>4. next[k] = fd /\ \A i \in 0 .. n - 1 : i # k => next[i] = table[i]
  OBVIOUS
<1>5. DOMAIN next = 0 .. n - 1 /\ DOMAIN table = 0 .. n - 1
  OBVIOUS
<1>6. {next[i] : i \in 0 .. n - 1} \ {none} = ({table[i] : i \in 0 .. n - 1} \ {none}) \cup {fd}
  <2>1. ASSUME NEW f
        PROVE  f \in {next[i] : i \in 0 .. n - 1} \ {none}
                  <=> f \in ({table[i] : i \in 0 .. n - 1} \ {none}) \cup {fd}
    BY <1>1, <1>4
  <2>2. QED
    BY <2>1
<1>7. {next[i] : i \in 0 .. n - 1} \ {none} = FdNums \ FreeFds'
  <2>1. {table[i] : i \in 0 .. n - 1} \ {none} = FdNums \ FreeFds
    BY <1>5 DEF Tabled
  <2>2. QED
    BY <1>1, <1>6, <2>1
<1>8. next[0] = ListenFd
  BY <1>2, <1>4 DEF Tabled
<1>9. \A i, j \in 0 .. n - 1 : next[i] = next[j] /\ next[i] # none => i = j
  BY <1>3, <1>4, <1>5 DEF Tabled
<1>10. QED
  BY <1>2, <1>3, <1>5, <1>7, <1>8, <1>9 DEF Tabled

\* A descriptor that is closed gives up its place.
LEMMA TableDrops ==
    ASSUME NetInv, NEW n \in Nat \ {0}, NEW none, none \notin FdNums,
           NEW table \in [0 .. n - 1 -> FdNums \cup {none}], Tabled(table, none),
           NEW k \in 0 .. n - 1, k # 0, table[k] # none, RecvEndAndClose(table[k]),
           NEW next, next = [table EXCEPT ![k] = none]
    PROVE  Tabled(next, none)' /\ \A i \in 0 .. n - 1 : i # k => table[i] # table[k]
<1>1. table[k] \in FdNums /\ fds[table[k]] \in Conns
  BY AtPlace
<1>2. FreeFds' = FreeFds \cup {table[k]}
  BY <1>1, Finishes
<1>3. next[k] = none /\ \A i \in 0 .. n - 1 : i # k => next[i] = table[i]
  OBVIOUS
<1>4. DOMAIN next = 0 .. n - 1 /\ DOMAIN table = 0 .. n - 1
  OBVIOUS
<1>5. \A i \in 0 .. n - 1 : i # k => table[i] # table[k]
  BY <1>4 DEF Tabled
<1>6. {next[i] : i \in 0 .. n - 1} \ {none} = ({table[i] : i \in 0 .. n - 1} \ {none}) \ {table[k]}
  <2>1. ASSUME NEW f
        PROVE  f \in {next[i] : i \in 0 .. n - 1} \ {none}
                  <=> f \in ({table[i] : i \in 0 .. n - 1} \ {none}) \ {table[k]}
    BY <1>3, <1>5
  <2>2. QED
    BY <2>1
<1>7. {next[i] : i \in 0 .. n - 1} \ {none} = FdNums \ FreeFds'
  <2>1. {table[i] : i \in 0 .. n - 1} \ {none} = FdNums \ FreeFds
    BY <1>4 DEF Tabled
  <2>2. QED
    BY <1>2, <1>6, <2>1
<1>8. next[0] = ListenFd
  BY <1>3 DEF Tabled
<1>9. \A i, j \in 0 .. n - 1 : next[i] = next[j] /\ next[i] # none => i = j
  BY <1>3, <1>4 DEF Tabled
<1>10. QED
  BY <1>4, <1>5, <1>7, <1>8, <1>9 DEF Tabled

\* There is an empty place if and only if the admitted are fewer than the places.
LEMMA PlacesUsed ==
    ASSUME NetInv, NEW n \in Nat \ {0}, NEW none, none \notin FdNums,
           NEW table \in [0 .. n - 1 -> FdNums \cup {none}], Tabled(table, none)
    PROVE  /\ (\E i \in 0 .. n - 1 : table[i] = none) => Cardinality(Admitted) < n - 1
           /\ (\A i \in 0 .. n - 1 : table[i] # none) => Cardinality(Admitted) = n - 1
<1> DEFINE places == (0 .. n - 1) \ {0}
           guests == Admitted
           slot == [c \in guests |-> CHOOSE i \in places : table[i] # none /\ fds[table[i]] = c]
<1>1. guests = {c \in Conns : \E fd \in FdNums : fds[fd] = c}
  BY DEF Admitted
<1> HIDE DEF guests
<1>2. IsFiniteSet(places) /\ Cardinality(places) = n - 1
  <2>1. n \in Nat /\ n > 0 /\ 0 \in Int /\ n - 1 \in Int
    OBVIOUS
  <2>2. IsFiniteSet(0 .. n - 1)
        /\ Cardinality(0 .. n - 1) = IF 0 > n - 1 THEN 0 ELSE n - 1 - 0 + 1
    BY <2>1, FS_Interval
  <2>3. IsFiniteSet(0 .. n - 1) /\ Cardinality(0 .. n - 1) = n /\ 0 \in 0 .. n - 1
    BY <2>1, <2>2
  <2>4. IsFiniteSet(places) /\ Cardinality(places) = Cardinality(0 .. n - 1) - 1
    BY <2>3, FS_RemoveElement, ZenonT(30)
  <2>5. QED
    BY <2>3, <2>4
<1>3. \A c \in guests : \E i \in places : table[i] # none /\ fds[table[i]] = c
  <2> SUFFICES ASSUME NEW c \in guests PROVE \E i \in places : table[i] # none /\ fds[table[i]] = c
    OBVIOUS
  <2>1. PICK fd \in FdNums : c \in Conns /\ fds[fd] = c
    BY <1>1
  <2>2. fd \in FdNums \ FreeFds /\ fd # ListenFd
    BY <2>1, NetAssumption DEF FreeFds, NetInv, OnePlace
  <2>3. fd \in {table[i] : i \in DOMAIN table}
    BY <2>2 DEF Tabled
  <2>4. PICK i \in 0 .. n - 1 : table[i] = fd
    BY <2>3
  <2>5. i # 0 /\ table[i] # none
    BY <2>2, <2>4 DEF Tabled
  <2>6. QED
    BY <2>1, <2>4, <2>5
<1>4. \A c \in guests : slot[c] \in places /\ table[slot[c]] # none /\ fds[table[slot[c]]] = c
  BY <1>3
<1> HIDE DEF slot, places
<1>5. slot \in Injection(guests, places)
  <2>1. slot \in [guests -> places]
    BY <1>4 DEF slot
  <2>2. \A c, d \in guests : slot[c] = slot[d] => c = d
    BY <1>4
  <2>3. QED
    BY <2>1, <2>2 DEF Injection, IsInjective
<1>6. /\ IsFiniteSet(guests) /\ Cardinality(guests) <= Cardinality(places)
      /\ Cardinality(guests) = Cardinality(places) <=> slot \in Surjection(guests, places)
  BY <1>2, <1>5, FS_Injection
<1>7. Cardinality(guests) \in Nat
  BY <1>6, FS_CardinalityType
<1>8. ASSUME NEW k \in 0 .. n - 1, table[k] = none PROVE Cardinality(guests) < n - 1
  <2>1. k \in places
    BY <1>8, Listens DEF places, Tabled
  <2>2. slot \notin Surjection(guests, places)
    BY <1>4, <1>8, <2>1 DEF Surjection
  <2>3. QED
    BY <1>2, <1>6, <1>7, <2>2
<1>9. ASSUME \A i \in 0 .. n - 1 : table[i] # none PROVE Cardinality(guests) = n - 1
  <2>1. ASSUME NEW i \in places PROVE \E c \in guests : slot[c] = i
    <3>1. i \in 0 .. n - 1 /\ i # 0 /\ table[i] # none
      BY <1>9 DEF places
    <3>2. table[i] \in FdNums /\ fds[table[i]] \in Conns
      BY <3>1, AtPlace
    <3>3. PICK c \in guests : c = fds[table[i]]
      BY <1>1, <3>2
    <3>4. slot[c] \in 0 .. n - 1 /\ table[slot[c]] # none /\ fds[table[slot[c]]] = c
      BY <1>4 DEF places
    <3>5. table[slot[c]] \in FdNums
      BY <3>4
    <3>6. fds[table[i]] # Unused
      BY <3>2, NetAssumption
    <3>7. table[slot[c]] = table[i]
      BY <3>2, <3>3, <3>4, <3>5, <3>6 DEF NetInv, OnePlace
    <3>8. slot[c] = i
      BY <3>1, <3>4, <3>7 DEF Tabled
    <3>9. QED
      BY <3>8
  <2>2. slot \in Surjection(guests, places)
    BY <1>5, <2>1 DEF Injection, Surjection
  <2>3. QED
    BY <1>2, <1>6, <2>2
<1>10. QED
  BY <1>8, <1>9 DEF guests

\* The admitted are fewer than the descriptors without the listening socket's,
\* while one is free.
LEMMA GuestsFit ==
    ASSUME NetInv, NEW fd \in FreeFds
    PROVE  Cardinality(Admitted) < Cardinality(FdNums) - 1
<1> DEFINE others == FdNums \ {ListenFd}
           left == others \ {fd}
           guests == Admitted
           behind == [c \in guests |-> CHOOSE f \in left : fds[f] = c]
<1>1. guests = {c \in Conns : \E f \in FdNums : fds[f] = c}
  BY DEF Admitted
<1>2. fd \in others /\ fds[fd] = Unused /\ fds[ListenFd] = Listener
  BY Listens, NetAssumption DEF FreeFds, NetInv, OnePlace
<1>3. IsFiniteSet(others) /\ Cardinality(others) = Cardinality(FdNums) - 1
  BY Listens, NetAssumption, FS_RemoveElement, ZenonT(30)
<1>4. IsFiniteSet(left) /\ Cardinality(left) = Cardinality(others) - 1
  <2> HIDE DEF others
  <2>1. QED
    BY <1>2, <1>3, FS_RemoveElement, ZenonT(30)
<1> HIDE DEF guests
<1>5. \A c \in guests : \E f \in left : fds[f] = c
  BY <1>1, <1>2, NetAssumption
<1>6. \A c \in guests : behind[c] \in left /\ fds[behind[c]] = c
  BY <1>5
<1> HIDE DEF left, behind
<1>7. behind \in Injection(guests, left)
  <2>1. behind \in [guests -> left]
    BY <1>6 DEF behind
  <2>2. \A c, d \in guests : behind[c] = behind[d] => c = d
    BY <1>6
  <2>3. QED
    BY <2>1, <2>2 DEF Injection, IsInjective
<1>8. IsFiniteSet(guests) /\ Cardinality(guests) <= Cardinality(left)
  BY <1>4, <1>7, FS_Injection
<1>9. /\ Cardinality(guests) \in Nat /\ Cardinality(left) \in Nat
      /\ Cardinality(others) \in Nat /\ Cardinality(FdNums) \in Nat
  BY <1>3, <1>4, <1>8, FS_CardinalityType, NetAssumption
<1> HIDE DEF others
<1>10. Cardinality(guests) < Cardinality(FdNums) - 1
  BY ONLY <1>3, <1>4, <1>8, <1>9
<1>11. QED
  BY <1>10 DEF guests

----------------------------------------------------------------------------
(* The abstract service                                                     *)

\* One connection of the abstract service moves on, the others stay.
LEMMA Moves ==
    ASSUME NEW n, NEW c \in Conns, NEW old, NEW new, StateOf(c) = old, StateOf(c)' = new,
           \A d \in Conns \ {c} : StateOf(d)' = StateOf(d)
    PROVE  Echo(n)!Move(c, old, new)
<1>1. ServiceState[c] = old
  BY DEF ServiceState
<1>2. ServiceState' = [ServiceState EXCEPT ![c] = new]
  <2>1. ServiceState' = [d \in Conns |-> IF d = c THEN new ELSE StateOf(d)]
    BY DEF ServiceState
  <2>2. [ServiceState EXCEPT ![c] = new] = [d \in Conns |-> IF d = c THEN new ELSE StateOf(d)]
    BY DEF ServiceState
  <2>3. QED
    BY <2>1, <2>2
<1>3. QED
  BY <1>1, <1>2 DEF Echo!Move

\* No connection moves.
LEMMA Stays ==
    ASSUME \A d \in Conns : StateOf(d)' = StateOf(d)
    PROVE  ServiceState' = ServiceState
<1>1. ServiceState' = [d \in Conns |-> StateOf(d)]
  BY DEF ServiceState
<1>2. QED
  BY <1>1 DEF ServiceState

\* The abstract service admits whoever has a descriptor.
LEMMA SameGuests ==
    ASSUME NetInv, NEW n
    PROVE  Echo(n)!Cardinality(Echo(n)!Admitted) = Cardinality(Admitted)
<1>1. \A c \in Conns : StateOf(c) = "admitted" <=> c \in Admitted
  <2>1. \A c \in Conns : ended[c] \in {"no", "refused", "finished"}
    BY DEF NetInv, NetTypeOK
  <2>2. \A c \in Conns : c \in Admitted => Alive(c)
    BY DEF NetInv, OnePlace, Admitted
  <2>3. QED
    BY <2>1, <2>2 DEF StateOf, Alive
<1>2. \A c \in Conns : ServiceState[c] = StateOf(c)
  BY DEF ServiceState
<1>3. Admitted \subseteq Conns
  BY DEF Admitted
<1>4. Echo(n)!Admitted = {c \in Conns : ServiceState[c] = "admitted"}
  BY DEF Echo!Admitted
<1>5. Echo(n)!Admitted = Admitted
  BY <1>1, <1>2, <1>3, <1>4
<1>6. Echo(n)!Cardinality(Admitted) = Cardinality(Admitted)
  BY DEF Cardinality, Echo!Cardinality
<1>7. QED
  BY <1>5, <1>6

\* Nobody has asked anything yet.
LEMMA EchoInitially == ASSUME NetInit, NEW n PROVE Echo(n)!Init
<1>1. client = [c \in Conns |-> "off"] /\ sent = [c \in Conns |-> 0]
      /\ replies = [c \in Conns |-> <<>>]
  BY DEF NetInit
<1>2. ServiceState = [c \in Conns |-> "away"]
  BY <1>1 DEF ServiceState, StateOf
<1>3. ServiceHere = [c \in Conns |-> FALSE]
  <2>1. \A c \in Conns : (client[c] \in {"ready", "waiting"}) = FALSE
    BY <1>1
  <2>2. QED
    BY <2>1 DEF ServiceHere
<1>4. ServiceAnswered = [c \in Conns |-> 0]
  BY <1>1 DEF ServiceAnswered
<1>5. QED
  BY <1>1, <1>2, <1>3, <1>4 DEF Echo!Init

\* The abstract state is a function of these variables.
LEMMA Unseen ==
    ASSUME NEW n, UNCHANGED <<client, sent, replies, ended, fds>>
    PROVE  UNCHANGED Echo(n)!echoVars
<1>1. ServiceState' = ServiceState
  BY Stays DEF StateOf, Admitted
<1>2. ServiceHere' = ServiceHere /\ ServiceAnswered' = ServiceAnswered
  BY DEF ServiceHere, ServiceAnswered
<1>3. QED
  BY <1>1, <1>2 DEF Echo!echoVars

\* Connecting, asking and leaving; the rest is between client and kernel.
LEMMA ClientEchoes ==
    ASSUME NetInv, NEW n, NEW c \in Conns, ClientStep(c)
    PROVE  [Echo(n)!Next]_(Echo(n)!echoVars)
<1>1. NetTypeOK /\ OneAtATime /\ OnePlace
  BY DEF NetInv
<1>2. taken' = taken /\ replies' = replies /\ ended' = ended /\ fds' = fds
  BY <1>1, ClientSides DEF serverSide
<1>3. /\ client \in [Conns -> {"off", "ready", "waiting", "gone"}]
      /\ sent \in [Conns -> 0 .. MaxMsgs] /\ OneAhead(c)
  BY <1>1 DEF NetTypeOK, OneAtATime
<1>4. ServiceAnswered' = ServiceAnswered
  BY <1>2 DEF ServiceAnswered
<1>5. ASSUME client[c] # "off", client'[c] # "off", \A d \in Conns \ {c} : client'[d] = client[d]
      PROVE  ServiceState' = ServiceState
  BY <1>2, <1>5, Stays DEF StateOf, Admitted
<1>6. ASSUME NEW next \in {"ready", "waiting"}, client[c] \in {"ready", "waiting"},
             client' = [client EXCEPT ![c] = next]
      PROVE  ServiceHere' = ServiceHere
  BY <1>3, <1>6 DEF ServiceHere
<1>7. ASSUME client[c] \in {"ready", "waiting"}, client' = [client EXCEPT ![c] = "gone"],
             sent' = sent
      PROVE  Echo(n)!Next
  <2>1. ServiceState' = ServiceState
    BY <1>3, <1>5, <1>7
  <2>2. ServiceHere[c] /\ ServiceHere' = [ServiceHere EXCEPT ![c] = FALSE]
    <3>1. ServiceHere[c]
      BY <1>7 DEF ServiceHere
    <3>2. client'[c] = "gone" /\ \A d \in Conns \ {c} : client'[d] = client[d]
      BY <1>3, <1>7
    <3>3. \A d \in Conns : (client'[d] \in {"ready", "waiting"})
                             = IF d = c THEN FALSE ELSE client[d] \in {"ready", "waiting"}
      <4> SUFFICES ASSUME NEW d \in Conns
                   PROVE  (client'[d] \in {"ready", "waiting"})
                            = IF d = c THEN FALSE ELSE client[d] \in {"ready", "waiting"}
        OBVIOUS
      <4>1. CASE d = c
        <5>1. (client'[c] \in {"ready", "waiting"}) = FALSE
          BY <3>2
        <5>2. QED
          BY <4>1, <5>1
      <4>2. CASE d # c
        <5>1. client'[d] = client[d]
          BY <3>2, <4>2
        <5>2. QED
          BY <4>2, <5>1
      <4>3. QED
        BY <4>1, <4>2
    <3>4. ServiceHere' = [ServiceHere EXCEPT ![c] = FALSE]
      <4>1. ServiceHere' = [d \in Conns |-> IF d = c THEN FALSE ELSE client[d] \in {"ready", "waiting"}]
        BY <3>3 DEF ServiceHere
      <4>2. [ServiceHere EXCEPT ![c] = FALSE]
              = [d \in Conns |-> IF d = c THEN FALSE ELSE client[d] \in {"ready", "waiting"}]
        BY DEF ServiceHere
      <4>3. QED
        BY <4>1, <4>2
    <3>5. QED
      BY <3>1, <3>4
  <2>3. Echo(n)!Leave(c)
    BY <1>4, <1>7, <2>1, <2>2 DEF Echo!Leave
  <2>4. QED
    BY <2>3 DEF Echo!Next
<1>8. CASE ClientConnect(c)
  <2>1. client[c] = "off" /\ client' = [client EXCEPT ![c] = "ready"] /\ sent' = sent
    BY <1>8 DEF ClientConnect
  <2>2. client'[c] = "ready" /\ \A d \in Conns \ {c} : client'[d] = client[d]
    BY <1>3, <2>1
  <2>3. ended[c] = "no" /\ \A fd \in FdNums : fds[fd] # c
    BY <1>1, <1>3, <2>1 DEF OneAhead, OnePlace, Alive
  <2>4. Echo(n)!Move(c, "away", "queued")
    <3>1. StateOf(c) = "away" /\ StateOf(c)' = "queued"
      BY <1>2, <2>1, <2>2, <2>3 DEF StateOf, Admitted
    <3>2. \A d \in Conns \ {c} : StateOf(d)' = StateOf(d)
      BY <1>2, <2>2 DEF StateOf, Admitted
    <3>3. QED
      BY <3>1, <3>2, Moves
  <2>5. ServiceHere' = [ServiceHere EXCEPT ![c] = TRUE]
    BY <1>3, <2>1 DEF ServiceHere
  <2>6. Echo(n)!Connect(c)
    BY <1>4, <2>1, <2>4, <2>5 DEF Echo!Connect
  <2>7. QED
    BY <2>6 DEF Echo!Next
<1>9. CASE ClientSend(c)
  <2>1. /\ client[c] = "ready" /\ client' = [client EXCEPT ![c] = "waiting"]
        /\ sent' = [sent EXCEPT ![c] = @ + 1] /\ ended[c] = "no"
    BY <1>9 DEF ClientSend
  <2>2. ServiceState' = ServiceState /\ ServiceHere' = ServiceHere
    <3>1. client'[c] = "waiting" /\ \A d \in Conns \ {c} : client'[d] = client[d]
      BY <1>3, <2>1
    <3>2. QED
      BY <1>5, <1>6, <2>1, <3>1
  <2>3. ServiceHere[c] /\ ServiceState[c] \in {"queued", "admitted"}
    BY <2>1 DEF ServiceHere, ServiceState, StateOf
  <2>4. sent[c] = ServiceAnswered[c]
    BY <1>1, <1>3, <2>1, Numbers DEF OneAhead, ServiceAnswered
  <2>5. Echo(n)!Ask(c)
    BY <1>4, <2>1, <2>2, <2>3, <2>4 DEF Echo!Ask
  <2>6. QED
    BY <2>5 DEF Echo!Next
<1>10. CASE ClientSendLost(c)
  <2>1. client[c] = "ready" /\ sent' = sent
    BY <1>10 DEF ClientSendLost
  <2>2. CASE client' = [client EXCEPT ![c] = "gone"]
    BY <1>7, <2>1, <2>2
  <2>3. CASE client' = [client EXCEPT ![c] = "waiting"]
    <3>1. client'[c] = "waiting" /\ \A d \in Conns \ {c} : client'[d] = client[d]
      BY <1>3, <2>3
    <3>2. QED
      BY <1>4, <1>5, <1>6, <2>1, <2>3, <3>1 DEF Echo!echoVars
  <2>4. QED
    BY <1>10, <2>2, <2>3 DEF ClientSendLost
<1>11. CASE ClientRecv(c) \/ ClientRecvError(c)
  <2>1. client[c] = "waiting" /\ client' = [client EXCEPT ![c] = "ready"] /\ sent' = sent
    BY <1>11 DEF ClientRecv, ClientRecvError
  <2>2. client'[c] = "ready" /\ \A d \in Conns \ {c} : client'[d] = client[d]
    BY <1>3, <2>1
  <2>3. QED
    BY <1>4, <1>5, <1>6, <2>1, <2>2 DEF Echo!echoVars
<1>12. CASE ClientLeave(c)
  BY <1>7, <1>12 DEF ClientLeave
<1>13. QED
  BY <1>8, <1>9, <1>10, <1>11, <1>12 DEF ClientStep, ClientAnswered

\* The oldest of the queue is admitted if there is a place.
LEMMA AcceptEchoes ==
    ASSUME NetInv, NEW n, NEW fd \in FdNums, Accept(fd), Cardinality(Admitted) < n
    PROVE  Echo(n)!Next
<1>1. /\ UNCHANGED <<client, sent, got, closing, taken, replies, ended>>
      /\ \A f \in FdNums \ {fd} : fds'[f] = fds[f]
  BY Accepts
<1>2. PICK c \in Conns : /\ Alive(c) /\ fds'[fd] = c /\ fds[fd] = Unused
                         /\ \A f \in FdNums : fds[f] # c
  BY Accepts DEF FreeFds
<1>3. StateOf(c) = "queued" /\ StateOf(c)' = "admitted"
  BY <1>1, <1>2 DEF StateOf, Admitted, Alive
<1>4. \A d \in Conns \ {c} : StateOf(d)' = StateOf(d)
  <2>1. \A d \in Conns \ {c} : (\E f \in FdNums : fds'[f] = d) <=> (\E f \in FdNums : fds[f] = d)
    BY <1>1, <1>2, NetAssumption
  <2>2. QED
    BY <1>1, <2>1 DEF StateOf, Admitted
<1>5. Echo(n)!Move(c, "queued", "admitted")
  BY <1>3, <1>4, Moves
<1>6. Echo(n)!Cardinality(Echo(n)!Admitted) < n
  BY SameGuests
<1>7. ServiceHere' = ServiceHere /\ ServiceAnswered' = ServiceAnswered
  BY <1>1 DEF ServiceHere, ServiceAnswered
<1>8. Echo(n)!Admit(c)
  BY <1>1, <1>5, <1>6, <1>7 DEF Echo!Admit
<1>9. QED
  BY <1>8 DEF Echo!Next

\* The oldest of the queue is turned away if there is none.
LEMMA RefuseEchoes ==
    ASSUME NetInv, NEW n, AcceptAndClose, Cardinality(Admitted) = n
    PROVE  Echo(n)!Next
<1>1. /\ backlog # <<>> /\ backlog' = Tail(backlog)
      /\ ended' = [ended EXCEPT ![Head(backlog)] = "refused"]
      /\ UNCHANGED <<client, sent, replies, fds>>
  BY DEF AcceptAndClose, clientSide
<1>2. PICK c \in Conns : c = Head(backlog) /\ Alive(c) /\ \A f \in FdNums : fds[f] # c
  BY <1>1, Oldest
<1>3. ended'[c] = "refused" /\ \A d \in Conns \ {c} : ended'[d] = ended[d]
  BY <1>1, <1>2 DEF NetInv, NetTypeOK
<1>4. /\ StateOf(c) = "queued" /\ StateOf(c)' = "refused"
      /\ \A d \in Conns \ {c} : StateOf(d)' = StateOf(d)
  BY <1>1, <1>2, <1>3 DEF StateOf, Admitted, Alive
<1>5. Echo(n)!Move(c, "queued", "refused")
  BY <1>4, Moves
<1>6. Echo(n)!Cardinality(Echo(n)!Admitted) = n
  BY SameGuests
<1>7. ServiceHere' = ServiceHere /\ ServiceAnswered' = ServiceAnswered
  BY <1>1 DEF ServiceHere, ServiceAnswered
<1>8. Echo(n)!TurnAway(c)
  BY <1>1, <1>5, <1>6, <1>7 DEF Echo!TurnAway
<1>9. QED
  BY <1>8 DEF Echo!Next

\* A reply answers the one question that is open.
LEMMA AnswerEchoes ==
    ASSUME NetInv, NEW n, NEW g \in FdNums, fds[g] \in Conns, NEW b \in Seq(1 .. MaxMsgs),
           Send(fds[g], b), Len(replies[fds[g]]) < taken[fds[g]]
    PROVE  Echo(n)!Next
<1>1. PICK c \in Conns : c = fds[g]
  OBVIOUS
<1>2. /\ Len(replies'[c]) = Len(replies[c]) + 1
      /\ \A d \in Conns \ {c} : replies'[d] = replies[d]
      /\ UNCHANGED <<client, sent, got, taken, ended, backlog, fds>>
  BY <1>1, Replies
<1>3. ServiceState' = ServiceState /\ ServiceHere' = ServiceHere
  BY <1>2, Stays DEF StateOf, Admitted, ServiceHere
<1>4. ServiceState[c] = "admitted"
  BY <1>1 DEF ServiceState, StateOf, Admitted, NetInv, OnePlace, Alive
<1>5. ServiceAnswered[c] < sent[c]
  <2>1. Len(replies[c]) + 1 = sent[c] /\ Len(replies[c]) \in Nat
    BY <1>1, Unanswered, Numbers DEF NetInv
  <2>2. QED
    BY <2>1 DEF ServiceAnswered
<1>6. ServiceAnswered' = [ServiceAnswered EXCEPT ![c] = @ + 1]
  BY <1>2 DEF ServiceAnswered
<1>7. Echo(n)!Answer(c)
  BY <1>2, <1>3, <1>4, <1>5, <1>6 DEF Echo!Answer
<1>8. QED
  BY <1>7 DEF Echo!Next

\* A connection is ended after its client has left.
LEMMA FinishEchoes ==
    ASSUME NetInv, NEW n, NEW g \in FdNums, fds[g] \in Conns, RecvEndAndClose(g)
    PROVE  Echo(n)!Next
<1>1. PICK c \in Conns : c = fds[g]
  OBVIOUS
<1>2. /\ client[c] = "gone" /\ Alive(c) /\ ended'[c] = "finished"
      /\ \A d \in Conns \ {c} : ended'[d] = ended[d]
      /\ fds'[g] = Unused /\ \A f \in FdNums \ {g} : fds'[f] = fds[f]
      /\ UNCHANGED <<client, sent, got, closing, taken, replies, backlog>>
  BY <1>1, Finishes
<1>3. StateOf(c) = "admitted" /\ StateOf(c)' = "finished"
  BY <1>1, <1>2 DEF StateOf, Admitted, Alive
<1>4. \A d \in Conns \ {c} : StateOf(d)' = StateOf(d)
  <2>1. ASSUME NEW d \in Conns \ {c}
        PROVE  (\E f \in FdNums : fds'[f] = d) <=> (\E f \in FdNums : fds[f] = d)
    <3>1. \A f \in FdNums : fds'[f] = d <=> fds[f] = d
      BY <1>1, <1>2, NetAssumption
    <3>2. QED
      BY <3>1
  <2>2. QED
    BY <1>2, <2>1 DEF StateOf, Admitted
<1>5. Echo(n)!Move(c, "admitted", "finished")
  BY <1>3, <1>4, Moves
<1>6. ~ServiceHere[c] /\ ServiceHere' = ServiceHere /\ ServiceAnswered' = ServiceAnswered
  BY <1>2 DEF ServiceHere, ServiceAnswered
<1>7. Echo(n)!Finish(c)
  BY <1>2, <1>5, <1>6 DEF Echo!Finish
<1>8. QED
  BY <1>7 DEF Echo!Next
=============================================================================
