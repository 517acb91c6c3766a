--------------------------- MODULE Services_proofs ---------------------------
(***************************************************************************)
(* The three small programs of Services and the server that forks twice,   *)
(* for any number of clients, pages, messages and datagrams.  Each of them *)
(* has an inductive invariant of its own; while one of the three programs  *)
(* runs the others' variables do not change.                               *)
(***************************************************************************)
EXTENDS Services, ForkServer, TcpNet_proofs

----------------------------------------------------------------------------
(* The server with a thread per connection                                  *)

\* The parts of the invariant while the server runs.
LEMMA Running ==
    ASSUME TcpIInv, server = "running"
    PROVE  NetInv /\ ThreadsInv
BY DEF TcpIInv, TcpTypeOK, NetInv

\* Nobody has connected and there is no thread.
LEMMA TcpInitially == TcpInit => TcpIInv
<1> SUFFICES ASSUME TcpInit PROVE TcpIInv
  OBVIOUS
<1>1. NetInv
  BY NetInitially DEF TcpInit
<1>2. taken = [c \in Conns |-> 0] /\ replies = [c \in Conns |-> <<>>]
  BY DEF TcpInit, NetInit
<1>3. RepliesMatch
  BY <1>2 DEF RepliesMatch
<1>4. TcpTypeOK
  BY <1>1 DEF TcpTypeOK, NetInv, TcpInit
<1>5. ThreadsInv
  BY <1>2 DEF ThreadsInv, TcpInit
<1>6. QED
  BY <1>1, <1>3, <1>4, <1>5 DEF TcpIInv, NetInv, TcpInit

\* What the threads rely on does not depend on what clients do.
LEMMA TcpClientKeeps == ASSUME TcpIInv, NEW c \in Conns, Client(c) PROVE TcpIInv'
<1>1. /\ ClientStep(c) /\ NetTypeOK /\ OneAtATime /\ RepliesMatch
      /\ UNCHANGED <<server, sockfd, thread, captured, buff, reported>>
  BY DEF Client, threadVars, TcpIInv, TcpTypeOK
<1>2. NetTypeOK' /\ OneAtATime' /\ UNCHANGED <<taken, replies, ended, fds>>
  BY <1>1, ClientTypes, ClientSides DEF serverSide
<1>3. server = "running" => OnePlace'
  BY <1>1, ClientPlaces DEF TcpIInv
<1>4. TcpTypeOK'
  BY <1>1, <1>2 DEF TcpIInv, TcpTypeOK
<1>5. RepliesMatch'
  BY <1>1, <1>2 DEF RepliesMatch
<1>6. ThreadsInv => ThreadsInv'
  BY <1>1, <1>2 DEF ThreadsInv, Peer
<1>7. QED
  BY <1>1, <1>2, <1>3, <1>4, <1>5, <1>6 DEF TcpIInv

\* The new connection is behind a number that no thread has captured.
LEMMA StartAcceptsKeeps == TcpIInv /\ StartAccepts => TcpIInv'
<1> SUFFICES ASSUME TcpIInv, StartAccepts PROVE TcpIInv'
  OBVIOUS
<1>1. NetInv /\ ThreadsInv /\ RepliesMatch /\ TcpTypeOK /\ server = "running"
  BY Running DEF TcpIInv, StartAccepts, Accepting
<1>2. PICK fd \in FdNums : Accept(fd) /\ sockfd' = fd
  BY DEF StartAccepts
<1>3. UNCHANGED <<server, thread, captured, buff, reported>>
  BY DEF StartAccepts
<1>4. /\ NetInv' /\ fd \in FreeFds
      /\ fds'[fd] = Head(backlog) /\ \A f \in FdNums \ {fd} : fds'[f] = fds[f]
      /\ UNCHANGED <<taken, replies>>
  BY <1>1, <1>2, Accepts
<1>5. PICK c \in Conns : c = Head(backlog) /\ \A f \in FdNums : fds[f] # c
  BY <1>1, <1>2, Accepts
<1>6. fds[fd] = Unused
  BY <1>4 DEF FreeFds
<1>7. ThreadsInv'
  <2>1. thread[c] = "none"
    BY <1>1, <1>5 DEF ThreadsInv, Peer
  <2>2. ASSUME NEW d \in Conns, thread[d] # "none"
        PROVE  captured[d] \in FdNums /\ fds'[captured[d]] = d
    BY <1>1, <1>4, <1>6, <2>2, NetAssumption DEF ThreadsInv, Peer
  <2>3. QED
    BY <1>1, <1>2, <1>3, <1>4, <1>5, <2>1, <2>2 DEF ThreadsInv, Peer
<1>8. TcpTypeOK' /\ RepliesMatch'
  BY <1>1, <1>2, <1>3, <1>4 DEF TcpTypeOK, NetInv, RepliesMatch
<1>9. QED
  BY <1>1, <1>3, <1>4, <1>7, <1>8 DEF TcpIInv, NetInv

\* A thread is made for the connection that was accepted last.
LEMMA StartThreadKeeps == TcpIInv /\ StartThread => TcpIInv'
<1> SUFFICES ASSUME TcpIInv, StartThread PROVE TcpIInv'
  OBVIOUS
<1>1. /\ NetInv /\ ThreadsInv /\ RepliesMatch /\ TcpTypeOK
      /\ server = "running" /\ sockfd # NoFd
  BY Running DEF TcpIInv, StartThread
<1>2. PICK c \in Conns : c = fds[sockfd] /\ thread[c] = "none" /\ sockfd \in FdNums
  BY <1>1 DEF ThreadsInv, TcpTypeOK
<1>3. /\ thread' = [thread EXCEPT ![c] = "start"] /\ captured' = [captured EXCEPT ![c] = sockfd]
      /\ sockfd' = NoFd /\ UNCHANGED <<netVars, server, buff, reported>>
  BY <1>2 DEF StartThread
<1>4. /\ NetInv' /\ UNCHANGED <<taken, replies, fds>>
  BY <1>1, <1>3, NetStutters DEF netVars
<1>5. /\ thread'[c] = "start" /\ captured'[c] = sockfd
      /\ \A d \in Conns \ {c} : thread'[d] = thread[d] /\ captured'[d] = captured[d]
  BY <1>1, <1>3 DEF TcpTypeOK
<1>6. TcpTypeOK'
  BY <1>1, <1>2, <1>3, <1>4 DEF TcpTypeOK, NetInv
<1>7. ThreadsInv'
  BY <1>1, <1>2, <1>3, <1>4, <1>5 DEF ThreadsInv, Peer
<1>8. RepliesMatch'
  BY <1>1, <1>4 DEF RepliesMatch
<1>9. QED
  BY <1>1, <1>3, <1>4, <1>6, <1>7, <1>8 DEF TcpIInv, NetInv

\* When the process ends, what has been answered stays answered.
LEMMA DiesKeeps == ASSUME TcpIInv, Dies("aborted") PROVE TcpIInv'
<1>1. /\ UNCHANGED <<client, sent, got, closing, taken, replies>>
      /\ UNCHANGED <<sockfd, thread, captured, buff, reported>>
      /\ server' = "aborted" /\ backlog' = <<>>
      /\ ended' = [c \in Conns |-> IF client[c] = "off" THEN "no" ELSE "finished"]
      /\ fds' = [fd \in FdNums |-> Unused]
  BY DEF Dies, clientSide
<1>2. NetTypeOK /\ OneAtATime /\ TcpTypeOK /\ RepliesMatch
  BY DEF TcpIInv, TcpTypeOK
<1>3. NetTypeOK' /\ OneAtATime'
  BY <1>1, <1>2 DEF NetTypeOK, OneAtATime, OneAhead
<1>4. TcpTypeOK' /\ RepliesMatch'
  BY <1>1, <1>2, <1>3 DEF TcpTypeOK, RepliesMatch
<1>5. QED
  BY <1>1, <1>3, <1>4 DEF TcpIInv

\* The steps that change neither a connection nor what a thread holds: a thread
\* begins, ends or sees an error, and accept() fails.
LEMMA QuietKeeps ==
    ASSUME TcpIInv, server = "running", UNCHANGED netVars, UNCHANGED <<server, sockfd, captured, buff>>,
           TcpTypeOK',
           \A c \in Conns : \/ thread'[c] = thread[c]
                            \/ thread[c] \in {"start", "recv"} /\ thread'[c] \in {"recv", "ended"}
    PROVE  TcpIInv'
<1>1. NetInv /\ ThreadsInv /\ RepliesMatch
  BY Running DEF TcpIInv
<1>2. /\ NetInv' /\ UNCHANGED <<taken, replies, fds>>
  BY <1>1, NetStutters DEF netVars
<1>3. RepliesMatch'
  BY <1>1, <1>2 DEF RepliesMatch
<1>4. ThreadsInv'
  <2>1. /\ sockfd # NoFd => fds[sockfd] \in Conns /\ thread'[fds[sockfd]] = "none"
    BY <1>1 DEF ThreadsInv
  <2>2. QED
    BY <1>1, <1>2, <2>1 DEF ThreadsInv, Peer
<1>5. QED
  BY <1>2, <1>3, <1>4 DEF TcpIInv, NetInv

\* A thread that runs reaches its own connection.
LEMMA OwnPeer ==
    ASSUME TcpIInv, server = "running", NEW c \in Conns, thread[c] # "none"
    PROVE  captured[c] \in FdNums /\ Peer(c) = c /\ fds[captured[c]] = c
BY Running DEF ThreadsInv, Peer

\* The thread begins, ...
LEMMA ServiceStartsKeeps == ASSUME TcpIInv, NEW c \in Conns, ServiceStarts(c) PROVE TcpIInv'
<1>1. /\ server = "running" /\ thread[c] = "start" /\ thread' = [thread EXCEPT ![c] = "recv"]
      /\ UNCHANGED netVars /\ UNCHANGED <<server, sockfd, captured, buff, reported>>
  BY DEF ServiceStarts
<1>2. TcpTypeOK /\ NetTypeOK'
  BY <1>1, NetStutters, Running DEF TcpIInv, NetInv
<1>3. TcpTypeOK'
  BY <1>1, <1>2 DEF TcpTypeOK
<1>4. \A d \in Conns : thread'[d] = IF d = c THEN "recv" ELSE thread[d]
  BY <1>1, <1>2 DEF TcpTypeOK
<1>5. QED
  BY <1>1, <1>3, <1>4, QuietKeeps

\* ... ends, ...
LEMMA ServiceBreaksKeeps == ASSUME TcpIInv, NEW c \in Conns, ServiceBreaks(c) PROVE TcpIInv'
<1>1. /\ server = "running" /\ thread[c] = "recv" /\ thread' = [thread EXCEPT ![c] = "ended"]
      /\ UNCHANGED netVars /\ UNCHANGED <<server, sockfd, captured, buff, reported>>
  BY DEF ServiceBreaks, InRecv
<1>2. TcpTypeOK /\ NetTypeOK'
  BY <1>1, NetStutters, Running DEF TcpIInv, NetInv
<1>3. TcpTypeOK'
  BY <1>1, <1>2 DEF TcpTypeOK
<1>4. \A d \in Conns : thread'[d] = IF d = c THEN "ended" ELSE thread[d]
  BY <1>1, <1>2 DEF TcpTypeOK
<1>5. QED
  BY <1>1, <1>3, <1>4, QuietKeeps

\* ... or sees the error of a reset.
LEMMA ServiceReadErrorKeeps == ASSUME TcpIInv, NEW c \in Conns, ServiceReadError(c) PROVE TcpIInv'
<1>1. /\ server = "running" /\ thread[c] = "recv"
      /\ reported' = [reported EXCEPT ![Peer(c)] = TRUE]
      /\ UNCHANGED netVars /\ UNCHANGED <<server, sockfd, thread, captured, buff>>
  BY DEF ServiceReadError, InRecv
<1>2. TcpTypeOK /\ NetTypeOK'
  BY <1>1, NetStutters, Running DEF TcpIInv, NetInv
<1>3. TcpTypeOK'
  BY <1>1, <1>2 DEF TcpTypeOK
<1>4. QED
  BY <1>1, <1>3, QuietKeeps

\* accept() fails.
LEMMA StartAcceptFailsKeeps == ASSUME TcpIInv, StartAcceptFails PROVE TcpIInv'
<1>1. /\ server = "running" /\ UNCHANGED netVars
      /\ UNCHANGED <<server, sockfd, thread, captured, buff, reported>>
  BY DEF StartAcceptFails, Accepting, AcceptFails, threadVars
<1>2. TcpTypeOK /\ NetTypeOK'
  BY <1>1, NetStutters, Running DEF TcpIInv, NetInv
<1>3. TcpTypeOK'
  BY <1>1, <1>2 DEF TcpTypeOK
<1>4. QED
  BY <1>1, <1>3, QuietKeeps

\* The thread receives the one message that it has not answered.
LEMMA ServiceReceivesKeeps == ASSUME TcpIInv, NEW c \in Conns, ServiceReceives(c) PROVE TcpIInv'
<1>1. /\ NetInv /\ ThreadsInv /\ RepliesMatch /\ TcpTypeOK
      /\ server = "running" /\ thread[c] = "recv"
  BY Running DEF TcpIInv, ServiceReceives, InRecv
<1>2. Peer(c) = c /\ captured[c] \in FdNums /\ fds[captured[c]] = c
  BY <1>1, OwnPeer
<1>3. /\ Recv(c) /\ buff' = [buff EXCEPT ![c] = Buffer(c)]
      /\ thread' = [thread EXCEPT ![c] = "send"]
      /\ UNCHANGED <<server, sockfd, captured, reported>>
  BY <1>2 DEF ServiceReceives
<1>4. /\ NetInv' /\ Buffer(c) \in Seq(1 .. MaxMsgs)
      /\ taken'[c] = sent[c] /\ Len(replies[c]) < sent[c]
      /\ taken[c] = Len(replies[c]) => Buffer(c) = <<Len(replies[c]) + 1>>
      /\ \A d \in Conns \ {c} : taken'[d] = taken[d]
      /\ UNCHANGED <<replies, fds>>
  <2>1. PICK g \in FdNums : fds[g] = c
    BY <1>2
  <2>2. QED
    BY <1>1, <1>3, <2>1, Receives
<1>5. taken[c] = Len(replies[c])
  BY <1>1 DEF ThreadsInv
<1>6. /\ thread'[c] = "send" /\ buff'[c] = <<Len(replies[c]) + 1>>
      /\ \A d \in Conns \ {c} : thread'[d] = thread[d] /\ buff'[d] = buff[d]
  BY <1>1, <1>3, <1>4, <1>5 DEF TcpTypeOK
<1>7. ThreadsInv'
  <2>1. sockfd # NoFd => fds[sockfd] \in Conns /\ thread'[fds[sockfd]] = "none"
    BY <1>1, <1>6 DEF ThreadsInv
  <2>2. QED
    BY <1>1, <1>2, <1>3, <1>4, <1>6, <2>1 DEF ThreadsInv, Peer
<1>8. TcpTypeOK' /\ RepliesMatch'
  BY <1>1, <1>3, <1>4 DEF TcpTypeOK, NetInv, RepliesMatch
<1>9. QED
  BY <1>1, <1>3, <1>4, <1>7, <1>8 DEF TcpIInv, NetInv

\* The reply is the message's, and its connection has not been reset: the
\* client has not left with a reply unread, for it has had none.
LEMMA ServiceSendsKeeps == ASSUME TcpIInv, NEW c \in Conns, ServiceSends(c) PROVE TcpIInv'
<1>1. /\ NetInv /\ ThreadsInv /\ RepliesMatch /\ TcpTypeOK
      /\ server = "running" /\ thread[c] = "send"
  BY Running DEF TcpIInv, ServiceSends
<1>2. Peer(c) = c /\ captured[c] \in FdNums /\ fds[captured[c]] = c
  BY <1>1, OwnPeer
<1>3. Len(replies[c]) < taken[c] /\ buff[c] = <<Len(replies[c]) + 1>> /\ buff[c] \in Seq(1 .. MaxMsgs)
  BY <1>1 DEF ThreadsInv, TcpTypeOK
<1>4. closing[c] # "rst"
  BY <1>1, <1>3, Unanswered
<1>5. /\ Send(c, buff[c]) /\ thread' = [thread EXCEPT ![c] = "recv"]
      /\ buff' = [buff EXCEPT ![c] = <<>>]
      /\ UNCHANGED <<server, sockfd, captured, reported>>
  BY <1>2, <1>4 DEF ServiceSends
<1>6. /\ NetInv' /\ replies'[c] = Append(replies[c], buff[c])
      /\ Len(replies'[c]) = Len(replies[c]) + 1 /\ Len(replies'[c]) = taken[c]
      /\ \A d \in Conns \ {c} : replies'[d] = replies[d]
      /\ UNCHANGED <<taken, fds>>
  BY <1>1, <1>3, <1>5, Replies
<1>7. /\ thread'[c] = "recv" /\ \A d \in Conns \ {c} : thread'[d] = thread[d] /\ buff'[d] = buff[d]
  BY <1>1, <1>5 DEF TcpTypeOK
<1>8. ThreadsInv'
  <2>1. sockfd # NoFd => fds[sockfd] \in Conns /\ thread'[fds[sockfd]] = "none"
    BY <1>1, <1>7 DEF ThreadsInv
  <2>2. \A d \in Conns : thread'[d] # "none" => captured[d] \in FdNums /\ fds[captured[d]] = d
    BY <1>1, <1>2, <1>7 DEF ThreadsInv, Peer
  <2>3. ASSUME NEW d \in Conns \ {c}
        PROVE  /\ thread'[d] # "send" => taken[d] = Len(replies'[d])
               /\ thread'[d] = "send" =>
                     Len(replies'[d]) < taken[d] /\ buff'[d] = <<Len(replies'[d]) + 1>>
    BY <1>1, <1>6, <1>7 DEF ThreadsInv
  <2>4. QED
    BY <1>5, <1>6, <1>7, <2>1, <2>2, <2>3 DEF ThreadsInv, Peer
<1>9. RepliesMatch'
  <2>1. PICK n \in Nat : n = Len(replies[c]) /\ replies[c] = [k \in 1 .. n |-> <<k>>]
    BY <1>1, Numbers DEF NetInv, RepliesMatch
  <2>2. Append(replies[c], <<n + 1>>) = [k \in 1 .. n + 1 |-> <<k>>]
    BY <2>1
  <2>3. replies'[c] = [k \in 1 .. Len(replies'[c]) |-> <<k>>]
    BY <1>3, <1>6, <2>1, <2>2
  <2>4. QED
    BY <1>1, <1>6, <2>3 DEF RepliesMatch
<1>10. TcpTypeOK'
  BY <1>1, <1>5, <1>6 DEF TcpTypeOK, NetInv
<1>11. QED
  BY <1>1, <1>5, <1>6, <1>8, <1>9, <1>10 DEF TcpIInv, NetInv

\* Every step of the server's threads and of its clients keeps the invariant.
LEMMA TcpKeeps == TcpIInv /\ TcpNext => TcpIInv'
<1> SUFFICES ASSUME TcpIInv, TcpNext PROVE TcpIInv'
  OBVIOUS
<1>1. CASE StartAccepts \/ StartAcceptFails \/ StartThread \/ StartThreadFails
  BY <1>1, StartAcceptsKeeps, StartAcceptFailsKeeps, StartThreadKeeps, DiesKeeps
     DEF StartThreadFails
<1>2. CASE \E c \in Conns : Service(c)
  BY <1>2, ServiceStartsKeeps, ServiceReceivesKeeps, ServiceSendsKeeps, ServiceBreaksKeeps,
     ServiceReadErrorKeeps DEF Service
<1>3. CASE \E c \in Conns : Client(c)
  BY <1>3, TcpClientKeeps
<1>4. QED
  BY <1>1, <1>2, <1>3 DEF TcpNext

\* A step of another program.
LEMMA TcpStutters == TcpIInv /\ UNCHANGED tcpVars => TcpIInv'
<1> SUFFICES ASSUME TcpIInv, UNCHANGED tcpVars PROVE TcpIInv'
  OBVIOUS
<1>1. /\ UNCHANGED <<client, sent, got, closing, taken, replies, ended, backlog, fds>>
      /\ UNCHANGED <<server, sockfd, thread, captured, buff, reported>>
  BY DEF tcpVars, netVars, threadVars
<1>2. NetTypeOK' = NetTypeOK /\ TcpTypeOK' = TcpTypeOK
  BY <1>1 DEF TcpTypeOK, NetTypeOK
<1>3. OneAtATime' = OneAtATime /\ RepliesMatch' = RepliesMatch
  BY <1>1 DEF OneAtATime, OneAhead, RepliesMatch
<1>4. OnePlace' = OnePlace /\ ThreadsInv' = ThreadsInv
  BY <1>1 DEF OnePlace, Alive, ThreadsInv, Peer
<1>5. QED
  BY <1>1, <1>2, <1>3, <1>4 DEF TcpIInv

----------------------------------------------------------------------------
(* The request handler                                                      *)

\* The path that a request line leads to.
LEMMA UriFacts == \A l \in Lines : Uri(l) \in Paths
BY DEF Lines, Uri, FirstLine, Paths

\* No request has been received.
LEMMA HttpInitially == HttpInit => HttpIInv
<1> SUFFICES ASSUME HttpInit PROVE HttpIInv
  OBVIOUS
<1> USE HttpAssumption DEF HttpInit
<1>1. HttpTypeOK
  <2>1. outdated \in BOOLEAN
    OBVIOUS
  <2>2. QED
    BY <2>1 DEF HttpTypeOK, Paths
<1>2. PageInv
  BY DEF PageInv, Decided, Measured
<1>3. FreshInv
  BY DEF FreshInv, Decided, Measured
<1>4. QED
  BY <1>1, <1>2, <1>3 DEF HttpIInv

\* What the client asks for is known.
LEMMA AskKeeps == HttpIInv /\ Ask => HttpIInv'
<1> SUFFICES ASSUME HttpIInv, Ask PROVE HttpIInv'
  OBVIOUS
<1>1. HttpTypeOK /\ PageInv
  BY DEF HttpIInv
<1>2. UNCHANGED <<page, stage, target, text, code, headers, changes, outdated>>
  BY DEF Ask
<1>3. stage = "recv" /\ line' \in Lines \cup {"gone"} /\ line' # "none"
  BY <1>1 DEF PageInv, Ask, Lines
<1>4. HttpTypeOK' /\ PageInv'
  BY <1>1, <1>2, <1>3 DEF HttpTypeOK, PageInv, Decided, Measured
<1>5. FreshInv'
  BY <1>1, <1>2, <1>3 DEF PageInv, FreshInv, Decided, Measured
<1>6. QED
  BY <1>4, <1>5 DEF HttpIInv

\* The request is received, and the page it names is to be read.
LEMMA ReceiveKeeps == HttpIInv /\ Receive => HttpIInv'
<1> SUFFICES ASSUME HttpIInv, Receive PROVE HttpIInv'
  OBVIOUS
<1>1. HttpTypeOK /\ PageInv
  BY DEF HttpIInv
<1>2. /\ stage = "recv" /\ stage' = "read" /\ line \in Lines /\ target' = Uri(line)
      /\ UNCHANGED <<page, line, text, code, headers, changes, outdated>>
  BY DEF Receive
<1>3. Uri(line)' = Uri(line) /\ Uri(line) \in Paths /\ line # "none"
  BY <1>2, UriFacts DEF Uri, FirstLine, Lines
<1>4. HttpTypeOK'
  BY <1>1, <1>2, <1>3 DEF HttpTypeOK
<1>5. PageInv'
  BY <1>1, <1>2, <1>3 DEF PageInv, Decided, Measured
<1>6. FreshInv'
  BY <1>1, <1>2 DEF PageInv, FreshInv, Decided, Measured
<1>7. QED
  BY <1>4, <1>5, <1>6 DEF HttpIInv

\* Nothing was asked and nothing is sent.
LEMMA NoRequestKeeps == HttpIInv /\ NoRequest => HttpIInv'
<1> SUFFICES ASSUME HttpIInv, NoRequest PROVE HttpIInv'
  OBVIOUS
<1>1. HttpTypeOK /\ PageInv
  BY DEF HttpIInv
<1>2. /\ stage = "recv" /\ stage' = "done" /\ line = "gone" /\ line \notin Lines
      /\ UNCHANGED <<page, line, target, text, code, headers, changes, outdated>>
  BY DEF NoRequest, Lines
<1>3. HttpTypeOK' /\ PageInv'
  BY <1>1, <1>2 DEF HttpTypeOK, PageInv, Decided, Measured
<1>4. FreshInv'
  BY <1>1, <1>2 DEF PageInv, FreshInv, Decided, Measured
<1>5. QED
  BY <1>3, <1>4 DEF HttpIInv

\* The page is there: it is what is sent.
LEMMA FoundKeeps == HttpIInv /\ Found => HttpIInv'
<1> SUFFICES ASSUME HttpIInv, Found PROVE HttpIInv'
  OBVIOUS
<1>1. HttpTypeOK /\ PageInv
  BY DEF HttpIInv
<1>2. /\ stage = "read" /\ stage' = "stat" /\ Opens(target) /\ text' = Content(target)
      /\ code' = 200 /\ UNCHANGED <<page, line, target, headers, changes, outdated>>
  BY DEF Found, SetCode
<1>3. target = Uri(line) /\ Uri(line)' = Uri(line) /\ line \in Lines /\ line # "none"
  BY <1>1, <1>2 DEF PageInv, Uri, FirstLine, Lines
<1>4. text'.of = target
  BY <1>2 DEF Content
<1>5. HttpTypeOK'
  BY <1>1, <1>2 DEF HttpTypeOK, Content
<1>6. PageInv'
  BY <1>1, <1>2, <1>3, <1>4 DEF PageInv, Decided, Measured
<1>7. FreshInv'
  <2>1. Content(text.of)' = Content(target) /\ Opens(Uri(line))'
    BY <1>2, <1>3, <1>4 DEF Content, Opens
  <2>2. QED
    BY <1>2, <2>1 DEF FreshInv, Measured
<1>8. QED
  BY <1>5, <1>6, <1>7 DEF HttpIInv

\* The page is not there: the page for errors is to be read.
LEMMA NotFoundKeeps == HttpIInv /\ NotFound => HttpIInv'
<1> SUFFICES ASSUME HttpIInv, NotFound PROVE HttpIInv'
  OBVIOUS
<1>1. HttpTypeOK /\ PageInv
  BY DEF HttpIInv
<1>2. /\ stage = "read" /\ stage' = "read404" /\ ~Opens(target) /\ target' = "404"
      /\ code' = 404 /\ UNCHANGED <<page, line, text, headers, changes, outdated>>
  BY DEF NotFound, SetCode
<1>3. target = Uri(line) /\ Uri(line)' = Uri(line) /\ line \in Lines /\ line # "none"
  BY <1>1, <1>2 DEF PageInv, Uri, FirstLine, Lines
<1>4. HttpTypeOK'
  BY <1>1, <1>2 DEF HttpTypeOK, Paths
<1>5. PageInv'
  BY <1>1, <1>2, <1>3 DEF PageInv, Decided, Measured
<1>6. FreshInv'
  <2>1. text'.of = "nothing" /\ ~Opens(Uri(line))'
    BY <1>1, <1>2, <1>3 DEF PageInv, Opens
  <2>2. QED
    BY <1>2, <2>1 DEF FreshInv, Decided, Measured
<1>7. QED
  BY <1>4, <1>5, <1>6 DEF HttpIInv

\* The page for errors is sent if it is there.
LEMMA ReadErrorPageKeeps == HttpIInv /\ ReadErrorPage => HttpIInv'
<1> SUFFICES ASSUME HttpIInv, ReadErrorPage PROVE HttpIInv'
  OBVIOUS
<1>1. HttpTypeOK /\ PageInv /\ FreshInv
  BY DEF HttpIInv
<1>2. /\ stage = "read404" /\ stage' = "stat"
      /\ text' = IF Opens(target) THEN Content(target) ELSE text
      /\ UNCHANGED <<page, line, target, code, headers, changes, outdated>>
  BY DEF ReadErrorPage
<1>3. /\ target = "404" /\ code = 404 /\ line \in Lines /\ line # "none" /\ text.of = "nothing"
      /\ Uri(line)' = Uri(line)
  BY <1>1, <1>2 DEF PageInv, Uri, FirstLine, Lines
<1>4. text'.of \in {target, "nothing"} /\ (text'.of # "nothing" => text' = Content(text.of)')
  BY <1>2, <1>3 DEF Content
<1>5. HttpTypeOK'
  BY <1>1, <1>2 DEF HttpTypeOK, Content
<1>6. PageInv'
  BY <1>1, <1>2, <1>3, <1>4 DEF PageInv, Decided, Measured
<1>7. FreshInv'
  <2>1. Opens(Uri(line))' = Opens(Uri(line))
    BY <1>2, <1>3 DEF Opens
  <2>2. QED
    BY <1>1, <1>2, <1>4, <2>1 DEF FreshInv, Measured
<1>8. QED
  BY <1>5, <1>6, <1>7 DEF HttpIInv

\* The length and the type are those of the page that is sent.
LEMMA MeasureKeeps == HttpIInv /\ Measure => HttpIInv'
<1> SUFFICES ASSUME HttpIInv, Measure PROVE HttpIInv'
  OBVIOUS
<1>1. HttpTypeOK /\ PageInv /\ FreshInv
  BY DEF HttpIInv
<1>2. PICK size \in FileSize(target) :
          LET h == SetHeader(headers, "Content-Length", size)
              type == Uri2Suffix(target)
          IN  headers' = IF type # "" THEN SetHeader(h, "Content-Type", type) ELSE h
  BY DEF Measure
<1>3. /\ stage = "stat" /\ stage' = "send"
      /\ UNCHANGED <<page, line, target, text, code, changes, outdated>>
  BY DEF Measure
<1>4. /\ line \in Lines /\ line # "none" /\ headers = <<>> /\ Decided
      /\ Uri(line)' = Uri(line) /\ Uri2Suffix(target)' = Uri2Suffix(target)
  BY <1>1, <1>3 DEF PageInv, Decided, Uri, FirstLine, Uri2Suffix, Lines
<1>5. PICK h : /\ h = SetHeader(headers, "Content-Length", size)
               /\ DOMAIN h = {"Content-Length"} /\ h["Content-Length"] = size
  <2>1. PICK h : h = SetHeader(headers, "Content-Length", size)
    OBVIOUS
  <2>2. DOMAIN h = DOMAIN headers \cup {"Content-Length"}
        /\ ("Content-Length" \notin DOMAIN headers => h["Content-Length"] = size)
    BY <2>1 DEF SetHeader
  <2>3. DOMAIN headers = {}
    BY <1>4
  <2>4. QED
    BY <2>1, <2>2, <2>3
<1>6. /\ DOMAIN headers' \subseteq {"Content-Length", "Content-Type"}
      /\ headers'["Content-Length"] = size
      /\ "Content-Type" \in DOMAIN headers' <=> Uri2Suffix(target) # ""
      /\ Uri2Suffix(target) # "" => headers'["Content-Type"] = Uri2Suffix(target)
  <2>1. CASE Uri2Suffix(target) # ""
    <3>1. PICK g : g = headers' /\ g = SetHeader(h, "Content-Type", Uri2Suffix(target))
      BY <1>2, <1>5, <2>1
    <3>2. /\ DOMAIN g = DOMAIN h \cup {"Content-Type"}
          /\ \A k \in DOMAIN h : g[k] = h[k]
          /\ "Content-Type" \notin DOMAIN h => g["Content-Type"] = Uri2Suffix(target)
      BY <3>1 DEF SetHeader
    <3>3. QED
      BY <1>5, <2>1, <3>1, <3>2
  <2>2. CASE Uri2Suffix(target) = ""
    <3>1. headers' = h
      BY <1>2, <1>5, <2>2
    <3>2. QED
      BY <1>5, <2>2, <3>1
  <2>3. QED
    BY <2>1, <2>2
<1>7. HttpTypeOK'
  <2>1. DOMAIN headers' \subseteq {"Content-Length", "Content-Type"}
    BY <1>6
  <2>2. QED
    BY <1>1, <1>3, <2>1 DEF HttpTypeOK
<1>8. PageInv'
  <2>1. \/ code = 200 /\ target = Uri(line) /\ text.of = target
        \/ code = 404 /\ target = "404" /\ text.of \in {target, "nothing"}
    BY <1>1, <1>4 DEF PageInv
  <2>2. QED
    BY <1>3, <1>4, <1>6, <2>1 DEF PageInv
<1>9. FreshInv'
  <2>1. page[target] \in Lengths => size = page[target]
    BY HttpAssumption DEF FileSize
  <2>2. Opens(Uri(line))' = Opens(Uri(line)) /\ Content(text.of)' = Content(text.of)
    BY <1>3, <1>4 DEF Opens, Content
  <2>3. QED
    BY <1>1, <1>3, <1>4, <1>6, <2>1, <2>2 DEF FreshInv
<1>10. QED
  BY <1>7, <1>8, <1>9 DEF HttpIInv

\* The response is sent as it is.
LEMMA RespondKeeps == HttpIInv /\ Respond => HttpIInv'
<1> SUFFICES ASSUME HttpIInv, Respond PROVE HttpIInv'
  OBVIOUS
<1>1. HttpTypeOK /\ PageInv /\ FreshInv
  BY DEF HttpIInv
<1>2. /\ stage = "send" /\ stage' = "done"
      /\ UNCHANGED <<page, line, target, text, code, headers, changes, outdated>>
  BY DEF Respond
<1>3. /\ line \in Lines /\ line # "none" /\ Decided /\ Measured
      /\ Uri(line)' = Uri(line) /\ Uri2Suffix(target)' = Uri2Suffix(target)
      /\ Opens(Uri(line))' = Opens(Uri(line)) /\ Content(text.of)' = Content(text.of)
  BY <1>1, <1>2 DEF PageInv, Decided, Measured, Uri, FirstLine, Uri2Suffix, Opens, Content, Lines
<1>4. HttpTypeOK'
  BY <1>1, <1>2 DEF HttpTypeOK
<1>5. PageInv'
  <2>1. /\ Decided' = Decided /\ Measured' = Measured
        /\ stage' \notin {"recv", "read", "read404", "stat"} /\ line' # "none"
    BY <1>2, <1>3 DEF Decided, Measured
  <2>2. QED
    BY <1>1, <1>2, <1>3, <2>1 DEF PageInv
<1>6. FreshInv'
  BY <1>1, <1>2, <1>3 DEF FreshInv
<1>7. QED
  BY <1>4, <1>5, <1>6 DEF HttpIInv

\* A page changes while the response is made; a body that was read from it is outdated.
LEMMA ChangeKeeps == HttpIInv /\ Change => HttpIInv'
<1> SUFFICES ASSUME HttpIInv, Change PROVE HttpIInv'
  OBVIOUS
<1>1. HttpTypeOK /\ PageInv /\ FreshInv /\ changes \in Nat /\ MaxChanges \in Nat
  BY HttpAssumption DEF HttpIInv, HttpTypeOK
<1>2. /\ stage \in {"read", "read404", "stat"} /\ changes < MaxChanges /\ changes' = changes + 1
      /\ UNCHANGED <<line, stage, target, text, code, headers>>
  BY DEF Change
<1>3. PICK p \in Paths, k \in Contents : /\ page' = [page EXCEPT ![p] = k]
                                         /\ outdated' = (outdated \/ p = text.of)
  BY Zenon DEF Change
<1>4. HttpTypeOK'
  <2>1. page' \in [Paths -> Contents]
    BY <1>1, <1>3 DEF HttpTypeOK
  <2>2. outdated' \in BOOLEAN
    BY <1>3, Zenon
  <2>3. QED
    BY <1>1, <1>2, <2>1, <2>2 DEF HttpTypeOK
<1>5. line \in Lines /\ line # "none" /\ Uri(line)' = Uri(line)
  BY <1>1, <1>2 DEF PageInv, Uri, FirstLine, Lines
<1>6. PageInv'
  <2>1. stage' # "recv" /\ Uri2Suffix(target)' = Uri2Suffix(target)
    BY <1>2 DEF Uri2Suffix
  <2>2. Decided' = Decided /\ Measured' = Measured
    BY <1>2 DEF Decided, Measured
  <2>3. CASE stage = "read"
    BY <1>1, <1>2, <1>5, <2>1, <2>2, <2>3 DEF PageInv
  <2>4. CASE stage = "read404"
    BY <1>1, <1>2, <1>5, <2>1, <2>2, <2>4 DEF PageInv
  <2>5. CASE stage = "stat"
    BY <1>1, <1>2, <1>5, <2>1, <2>2, <2>5 DEF PageInv
  <2>6. QED
    BY <1>2, <2>3, <2>4, <2>5
<1>7. FreshInv'
  <2>1. changes' # 0 /\ ~Measured'
    BY <1>1, <1>2 DEF Measured
  <2>2. ASSUME text.of # "nothing", ~outdated' PROVE text = Content(text.of)'
    <3>1. text = Content(text.of) /\ p # text.of
      BY <1>1, <1>3, <2>2 DEF FreshInv
    <3>2. page'[text.of] = page[text.of] /\ text' = text
      BY <1>1, <1>2, <1>3, <2>2, <3>1 DEF HttpTypeOK
    <3>3. QED
      BY <3>1, <3>2 DEF Content
  <2>3. QED
    BY <1>2, <2>1, <2>2 DEF FreshInv
<1>8. QED
  BY <1>4, <1>6, <1>7 DEF HttpIInv

\* Every step of the handler and of those around it keeps the invariant.
LEMMA HttpKeeps == HttpIInv /\ HttpNext => HttpIInv'
BY AskKeeps, ReceiveKeeps, NoRequestKeeps, FoundKeeps, NotFoundKeeps, ReadErrorPageKeeps,
   MeasureKeeps, RespondKeeps, ChangeKeeps DEF HttpNext, Handle

\* A step of another program.
LEMMA HttpStutters == HttpIInv /\ UNCHANGED httpVars => HttpIInv'
<1> SUFFICES ASSUME HttpIInv, UNCHANGED httpVars PROVE HttpIInv'
  OBVIOUS
<1>1. UNCHANGED <<page, line, stage, target, text, code, headers, changes, outdated>>
  BY DEF httpVars
<1>2. HttpTypeOK' = HttpTypeOK /\ PageInv' = PageInv /\ FreshInv' = FreshInv
  BY <1>1 DEF HttpTypeOK, PageInv, FreshInv, Decided, Measured, Uri, FirstLine, Uri2Suffix,
              Opens, Content
<1>3. QED
  BY <1>2 DEF HttpIInv

\* What the invariant says of a response that has been sent.
LEMMA Responses == HttpIInv => OnePage /\ HonestLength
<1> SUFFICES ASSUME HttpIInv PROVE OnePage /\ HonestLength
  OBVIOUS
<1>1. HttpTypeOK /\ PageInv /\ FreshInv
  BY DEF HttpIInv
<1>2. Answered => Decided /\ Measured
  BY DEF Answered, Decided, Measured
<1>3. Answered => Uri2Suffix(target) = Uri2Suffix(IF code = 200 THEN text.of ELSE "404")
  <2> SUFFICES ASSUME Answered
               PROVE  Uri2Suffix(target) = Uri2Suffix(IF code = 200 THEN text.of ELSE "404")
    OBVIOUS
  <2>1. \/ code = 200 /\ text.of = target
        \/ code = 404 /\ target = "404"
    BY <1>1, <1>2 DEF PageInv
  <2>2. QED
    BY <2>1
<1>4. OnePage
  <2>1. PICK type : /\ type = Uri2Suffix(target)
                    /\ Answered => type = Uri2Suffix(IF code = 200 THEN text.of ELSE "404")
    BY <1>3
  <2>2. Answered => /\ code # 0 /\ (code = 200 => text.of = Uri(line))
                    /\ code = 404 => text.of \in {"404", "nothing"}
                    /\ "Content-Type" \in DOMAIN headers <=> type # ""
                    /\ type # "" => headers["Content-Type"] = type
    <3> SUFFICES ASSUME Answered
                 PROVE  /\ code # 0 /\ (code = 200 => text.of = Uri(line))
                        /\ code = 404 => text.of \in {"404", "nothing"}
                        /\ "Content-Type" \in DOMAIN headers <=> type # ""
                        /\ type # "" => headers["Content-Type"] = type
      OBVIOUS
    <3>1. \/ code = 200 /\ target = Uri(line) /\ text.of = target
          \/ code = 404 /\ target = "404" /\ text.of \in {target, "nothing"}
      BY <1>1, <1>2 DEF PageInv
    <3>2. /\ "Content-Type" \in DOMAIN headers <=> type # ""
          /\ type # "" => headers["Content-Type"] = type
      BY <1>1, <1>2, <2>1 DEF PageInv
    <3>3. code # 0 /\ (code = 200 => text.of = Uri(line))
      BY <3>1
    <3>4. code = 404 => text.of \in {"404", "nothing"}
      BY <3>1
    <3>5. QED
      BY <3>2, <3>3, <3>4
  <2>3. Answered => IF type = "" THEN "Content-Type" \notin DOMAIN headers
                    ELSE "Content-Type" \in DOMAIN headers /\ headers["Content-Type"] = type
    BY <2>2
  <2>4. QED
    BY <1>1, <2>1, <2>2, <2>3 DEF OnePage
<1>5. HonestLength
  <2> SUFFICES ASSUME Answered
               PROVE  /\ text.of # "nothing" /\ page[text.of] \in Lengths =>
                            /\ headers["Content-Length"] = page[text.of]
                            /\ ~outdated => headers["Content-Length"] = text.bytes
                      /\ changes = 0 => (code = 404 <=> ~Opens(Uri(line)))
    BY DEF HonestLength
  <2>1. changes = 0 => (code = 404 <=> ~Opens(Uri(line)))
    BY <1>1, <1>2 DEF FreshInv
  <2>2. ASSUME text.of # "nothing", page[text.of] \in Lengths
        PROVE  /\ headers["Content-Length"] = page[text.of]
               /\ ~outdated => headers["Content-Length"] = text.bytes
    <3>1. text.of = target
      BY <1>1, <1>2, <2>2 DEF PageInv
    <3>2. ~outdated => text.bytes = page[target]
      BY <1>1, <2>2, <3>1 DEF FreshInv, Content
    <3>3. headers["Content-Length"] = page[target]
      BY <1>1, <1>2, <2>2, <3>1 DEF FreshInv
    <3>4. QED
      BY <3>1, <3>2, <3>3
  <2>3. QED
    BY <2>1, <2>2
<1>6. QED
  BY <1>4, <1>5

----------------------------------------------------------------------------
(* The UDP echo pair                                                        *)

\* A bag with one more of x.
LEMMA AddFacts ==
    ASSUME NEW bag, NEW x
    PROVE  /\ BagToSet(BagAdd(bag, x)) = BagToSet(bag) \cup {x}
           /\ \A e \in BagToSet(bag) : e # x => BagAdd(bag, x)[e] = bag[e]
           /\ x \notin BagToSet(bag) => BagAdd(bag, x)[x] = 1
<1>1. CASE x \in DOMAIN bag
  BY <1>1 DEF BagToSet, BagAdd
<1>2. CASE x \notin DOMAIN bag
  BY <1>2 DEF BagToSet, BagAdd
<1>3. QED
  BY <1>1, <1>2

\* A bag with one less of x.
LEMMA RemoveFacts ==
    ASSUME NEW bag, NEW x, x \in BagToSet(bag)
    PROVE  /\ BagToSet(BagRemove(bag, x)) \subseteq BagToSet(bag)
           /\ \A e \in BagToSet(BagRemove(bag, x)) : e # x => BagRemove(bag, x)[e] = bag[e]
           /\ bag[x] = 1 => x \notin BagToSet(BagRemove(bag, x))
<1>1. CASE bag[x] = 1
  BY <1>1 DEF BagToSet, BagRemove
<1>2. CASE bag[x] # 1
  BY <1>2 DEF BagToSet, BagRemove
<1>3. QED
  BY <1>1, <1>2

\* A datagram of a client that has none in the bag.
LEMMA SingleAdds ==
    ASSUME NEW bag, Single(bag), NEW x, \A e \in BagToSet(bag) : e.of # x.of,
           NEW next, next = BagAdd(bag, x)
    PROVE  Single(next) /\ BagToSet(next) = BagToSet(bag) \cup {x}
<1>1. /\ BagToSet(next) = BagToSet(bag) \cup {x}
      /\ \A e \in BagToSet(bag) : e # x => next[e] = bag[e]
      /\ x \notin BagToSet(bag) => next[x] = 1
  BY AddFacts
<1>2. x \notin BagToSet(bag)
  OBVIOUS
<1>3. QED
  BY <1>1, <1>2 DEF Single

\* The datagram of a client that has one in the bag.
LEMMA SingleRemoves ==
    ASSUME NEW bag, Single(bag), NEW x \in BagToSet(bag), NEW next, next = BagRemove(bag, x)
    PROVE  Single(next) /\ \A e \in BagToSet(next) : e \in BagToSet(bag) /\ e.of # x.of
<1>1. bag[x] = 1
  BY DEF Single
<1>2. /\ BagToSet(next) \subseteq BagToSet(bag)
      /\ \A e \in BagToSet(next) : e # x => next[e] = bag[e]
      /\ x \notin BagToSet(next)
  BY <1>1, RemoveFacts
<1>3. QED
  BY <1>2 DEF Single

\* No datagram has been sent.
LEMMA UdpInitially == UdpInit => UdpIInv
<1> SUFFICES ASSUME UdpInit PROVE UdpIInv
  OBVIOUS
<1>1. BagToSet(requests) = {} /\ BagToSet(answers) = {}
  BY DEF UdpInit, EmptyBag, SetToBag, BagToSet
<1>2. UdpTypeOK
  BY <1>1, UdpAssumption DEF UdpInit, UdpTypeOK
<1>3. OneOnItsWay
  BY <1>1 DEF UdpInit, OneOnItsWay, Single, InTransit
<1>4. QED
  BY <1>2, <1>3 DEF UdpInit, UdpIInv

\* A client that does not wait has nothing on its way, so that what it sends
\* is all there is.
LEMMA SenderSendsKeeps == ASSUME UdpIInv, NEW c \in Senders, SenderSends(c) PROVE UdpIInv'
<1>1. UdpTypeOK /\ OneOnItsWay /\ (inbox # NoDatagram => ~inbox.empty)
  BY DEF UdpIInv
<1>2. PICK kind \in {"text", "empty"} :
          /\ input' = [input EXCEPT ![c] = kind]
          /\ requests' = BagAdd(requests, [of |-> c, number |-> inputs[c] + 1,
                                           empty |-> kind = "empty"])
  BY DEF SenderSends
<1>3. /\ ~blocked[c] /\ inputs[c] < MaxInputs
      /\ inputs' = [inputs EXCEPT ![c] = @ + 1] /\ blocked' = [blocked EXCEPT ![c] = TRUE]
      /\ UNCHANGED <<isrunning, inbox, answers, shown, lost, duplicates>>
  BY DEF SenderSends, udpServerVars, networkVars
<1>4. inputs[c] \in Nat /\ MaxInputs \in Nat /\ inputs[c] + 1 \in 1 .. MaxInputs
  BY <1>1, <1>3, UdpAssumption DEF UdpTypeOK
<1>5. PICK d \in Datagrams : d.of = c /\ d.number = inputs[c] + 1 /\ requests' = BagAdd(requests, d)
  <2>1. PICK b \in BOOLEAN : b = (kind = "empty")
    OBVIOUS
  <2>2. requests' = BagAdd(requests, [of |-> c, number |-> inputs[c] + 1, empty |-> b])
    BY <1>2, <2>1, Zenon
  <2>3. [of |-> c, number |-> inputs[c] + 1, empty |-> b] \in Datagrams
    BY <1>4 DEF Datagrams
  <2>4. QED
    BY <2>2, <2>3
<1>6. /\ inputs'[c] = inputs[c] + 1 /\ blocked'[c] = TRUE
      /\ \A e \in Senders : e # c => inputs'[e] = inputs[e] /\ blocked'[e] = blocked[e]
  BY <1>1, <1>3 DEF UdpTypeOK
<1>7. BagToSet(requests') = BagToSet(requests) \cup {d}
  BY <1>5, AddFacts
<1>8. UdpTypeOK'
  BY <1>1, <1>2, <1>3, <1>4, <1>7 DEF UdpTypeOK
<1>9. ASSUME duplicates = 0
      PROVE  /\ Single(requests') /\ Single(answers')
             /\ \A e \in BagToSet(requests'), g \in BagToSet(answers') : e.of # g.of
             /\ inbox # NoDatagram =>
                   \A e \in BagToSet(requests') \cup BagToSet(answers') : e.of # inbox.of
             /\ \A e \in BagToSet(requests') \cup BagToSet(answers') \cup ({inbox} \ {NoDatagram}) :
                   blocked'[e.of] /\ e.number = inputs'[e.of]
             /\ \A e \in Senders : ~blocked'[e] => shown[e] = inputs'[e]
  <2>1. /\ \A e \in BagToSet(requests) \cup BagToSet(answers) \cup ({inbox} \ {NoDatagram}) :
              e.of # c /\ e.of \in Senders
    BY <1>1, <1>3, <1>9 DEF OneOnItsWay, InTransit, UdpTypeOK, Datagrams
  <2>2. Single(requests')
    BY <1>1, <1>5, <1>9, <2>1, SingleAdds DEF OneOnItsWay
  <2>3. Single(answers') /\ answers' = answers
    BY <1>1, <1>3, <1>9 DEF OneOnItsWay
  <2>4. \A e \in BagToSet(requests'), g \in BagToSet(answers') : e.of # g.of
    BY <1>1, <1>5, <1>7, <1>9, <2>1, <2>3 DEF OneOnItsWay
  <2>5. inbox # NoDatagram =>
            \A e \in BagToSet(requests') \cup BagToSet(answers') : e.of # inbox.of
    BY <1>1, <1>5, <1>7, <1>9, <2>1, <2>3 DEF OneOnItsWay, InTransit
  <2>6. \A e \in BagToSet(requests') \cup BagToSet(answers') \cup ({inbox} \ {NoDatagram}) :
            blocked'[e.of] /\ e.number = inputs'[e.of]
    BY <1>1, <1>5, <1>6, <1>7, <1>9, <2>1, <2>3 DEF OneOnItsWay, InTransit
  <2>7. \A e \in Senders : ~blocked'[e] => shown[e] = inputs'[e]
    BY <1>1, <1>6, <1>9 DEF OneOnItsWay
  <2>8. QED
    BY <2>2, <2>3, <2>4, <2>5, <2>6, <2>7
<1>10. OneOnItsWay'
  BY <1>3, <1>9 DEF OneOnItsWay, InTransit
<1>11. QED
  BY <1>1, <1>3, <1>8, <1>10 DEF UdpIInv

\* What a client receives is all it had on its way.
LEMMA SenderReceivesKeeps == ASSUME UdpIInv, NEW c \in Senders, SenderReceives(c) PROVE UdpIInv'
<1>1. UdpTypeOK /\ OneOnItsWay /\ (inbox # NoDatagram => ~inbox.empty)
  BY DEF UdpIInv
<1>2. PICK d \in BagToSet(answers) :
          /\ d.of = c /\ answers' = BagRemove(answers, d)
          /\ shown' = [shown EXCEPT ![c] = d.number]
  BY DEF SenderReceives
<1>3. /\ blocked' = [blocked EXCEPT ![c] = FALSE]
      /\ UNCHANGED <<isrunning, inbox, requests, input, inputs, lost, duplicates>>
  BY DEF SenderReceives, udpServerVars, networkVars
<1>4. d \in Datagrams /\ d.number \in 0 .. MaxInputs
  BY <1>1, <1>2, UdpAssumption DEF UdpTypeOK, Datagrams
<1>5. BagToSet(answers') \subseteq BagToSet(answers)
  BY <1>2, RemoveFacts
<1>6. /\ blocked'[c] = FALSE /\ shown'[c] = d.number
      /\ \A e \in Senders : e # c => blocked'[e] = blocked[e] /\ shown'[e] = shown[e]
  BY <1>1, <1>2, <1>3 DEF UdpTypeOK
<1>7. UdpTypeOK'
  BY <1>1, <1>2, <1>3, <1>4, <1>5 DEF UdpTypeOK
<1>8. OneOnItsWay'
  <2> SUFFICES ASSUME duplicates = 0
               PROVE  /\ Single(requests') /\ Single(answers')
                      /\ \A e \in BagToSet(requests'), g \in BagToSet(answers') : e.of # g.of
                      /\ inbox' # NoDatagram => \A e \in InTransit' : e.of # inbox'.of
                      /\ \A e \in InTransit' \cup ({inbox'} \ {NoDatagram}) :
                            blocked'[e.of] /\ e.number = inputs'[e.of]
                      /\ \A e \in Senders : ~blocked'[e] => shown'[e] = inputs'[e]
    BY <1>3 DEF OneOnItsWay
  <2>1. Single(answers') /\ \A e \in BagToSet(answers') : e \in BagToSet(answers) /\ e.of # c
    BY <1>1, <1>2, SingleRemoves DEF OneOnItsWay
  <2>2. \A e \in InTransit' \cup ({inbox'} \ {NoDatagram}) :
            /\ e \in InTransit \cup ({inbox} \ {NoDatagram})
            /\ e.of # c /\ e.of \in Senders
    BY <1>1, <1>2, <1>3, <2>1 DEF OneOnItsWay, InTransit, UdpTypeOK, Datagrams
  <2>3. d.number = inputs[c]
    BY <1>1, <1>2 DEF OneOnItsWay, InTransit
  <2>4. \A e \in InTransit' \cup ({inbox'} \ {NoDatagram}) :
            blocked'[e.of] /\ e.number = inputs'[e.of]
    BY <1>1, <1>3, <1>6, <2>2 DEF OneOnItsWay
  <2>5. \A e \in Senders : ~blocked'[e] => shown'[e] = inputs'[e]
    BY <1>1, <1>3, <1>6, <2>3 DEF OneOnItsWay
  <2>6. QED
    BY <1>1, <1>3, <1>5, <2>1, <2>4, <2>5 DEF OneOnItsWay, InTransit
<1>9. QED
  BY <1>1, <1>3, <1>7, <1>8 DEF UdpIInv

\* What the server receives is on its way nowhere else.
LEMMA ServerReceivesKeeps == ASSUME UdpIInv, NEW c \in Senders, ServerReceives(c) PROVE UdpIInv'
<1>1. UdpTypeOK /\ OneOnItsWay
  BY DEF UdpIInv
<1>2. PICK d \in BagToSet(requests) :
          /\ d.of = c /\ requests' = BagRemove(requests, d)
          /\ inbox' = IF d.empty THEN NoDatagram ELSE d
  BY DEF ServerReceives
<1>3. /\ inbox = NoDatagram
      /\ UNCHANGED <<isrunning, answers, input, inputs, blocked, shown, lost, duplicates>>
  BY DEF ServerReceives, udpClientVars, networkVars
<1>4. d \in Datagrams /\ inbox' \in {d, NoDatagram} /\ (inbox' # NoDatagram => ~inbox'.empty)
  BY <1>1, <1>2 DEF UdpTypeOK
<1>5. BagToSet(requests') \subseteq BagToSet(requests)
  BY <1>2, RemoveFacts
<1>6. UdpTypeOK'
  BY <1>1, <1>3, <1>4, <1>5 DEF UdpTypeOK
<1>7. OneOnItsWay'
  <2> SUFFICES ASSUME duplicates = 0
               PROVE  /\ Single(requests') /\ Single(answers')
                      /\ \A e \in BagToSet(requests'), g \in BagToSet(answers') : e.of # g.of
                      /\ inbox' # NoDatagram => \A e \in InTransit' : e.of # inbox'.of
                      /\ \A e \in InTransit' \cup ({inbox'} \ {NoDatagram}) :
                            blocked'[e.of] /\ e.number = inputs'[e.of]
                      /\ \A e \in Senders : ~blocked'[e] => shown'[e] = inputs'[e]
    BY <1>3 DEF OneOnItsWay
  <2>1. Single(requests') /\ \A e \in BagToSet(requests') : e \in BagToSet(requests) /\ e.of # c
    BY <1>1, <1>2, SingleRemoves DEF OneOnItsWay
  <2>2. \A e \in InTransit' : e.of # c
    BY <1>1, <1>2, <1>3, <2>1 DEF OneOnItsWay, InTransit
  <2>3. InTransit' \cup ({inbox'} \ {NoDatagram}) \subseteq InTransit
    BY <1>2, <1>3, <1>4, <1>5 DEF InTransit
  <2>4. inbox' # NoDatagram => \A e \in InTransit' : e.of # inbox'.of
    BY <1>2, <1>4, <2>2
  <2>5. \A e \in InTransit' \cup ({inbox'} \ {NoDatagram}) :
            blocked'[e.of] /\ e.number = inputs'[e.of]
    BY <1>1, <1>3, <2>3 DEF OneOnItsWay
  <2>6. QED
    BY <1>1, <1>3, <1>5, <2>1, <2>4, <2>5 DEF OneOnItsWay
<1>8. QED
  BY <1>4, <1>6, <1>7 DEF UdpIInv

\* The reply takes the place of the message.
LEMMA ServerRepliesKeeps == UdpIInv /\ ServerReplies => UdpIInv'
<1> SUFFICES ASSUME UdpIInv, ServerReplies PROVE UdpIInv'
  OBVIOUS
<1>1. UdpTypeOK /\ OneOnItsWay
  BY DEF UdpIInv
<1>2. PICK d \in Datagrams : d = inbox /\ inbox # NoDatagram /\ ~d.empty
  BY <1>1 DEF UdpIInv, UdpTypeOK, ServerReplies
<1>3. /\ answers' = BagAdd(answers, d) /\ inbox' = NoDatagram
      /\ UNCHANGED <<isrunning, requests, input, inputs, blocked, shown, lost, duplicates>>
  BY <1>2 DEF ServerReplies, udpClientVars, networkVars
<1>4. BagToSet(answers') = BagToSet(answers) \cup {d}
  BY <1>3, AddFacts
<1>5. UdpTypeOK'
  BY <1>1, <1>2, <1>3, <1>4 DEF UdpTypeOK
<1>6. OneOnItsWay'
  <2> SUFFICES ASSUME duplicates = 0
               PROVE  /\ Single(requests') /\ Single(answers')
                      /\ \A e \in BagToSet(requests'), g \in BagToSet(answers') : e.of # g.of
                      /\ \A e \in InTransit' : blocked'[e.of] /\ e.number = inputs'[e.of]
                      /\ \A e \in Senders : ~blocked'[e] => shown'[e] = inputs'[e]
    BY <1>3 DEF OneOnItsWay
  <2>1. \A e \in InTransit : e.of # d.of
    BY <1>1, <1>2 DEF OneOnItsWay
  <2>2. Single(answers')
    BY <1>1, <1>3, <2>1, SingleAdds DEF OneOnItsWay, InTransit
  <2>3. InTransit' = InTransit \cup ({inbox} \ {NoDatagram})
    BY <1>2, <1>3, <1>4 DEF InTransit
  <2>4. \A e \in InTransit' : blocked'[e.of] /\ e.number = inputs'[e.of]
    BY <1>1, <1>3, <2>3 DEF OneOnItsWay
  <2>5. \A e \in BagToSet(requests'), g \in BagToSet(answers') : e.of # g.of
    BY <1>1, <1>3, <1>4, <2>1 DEF OneOnItsWay, InTransit
  <2>6. QED
    BY <1>1, <1>3, <2>2, <2>4, <2>5 DEF OneOnItsWay
<1>7. QED
  BY <1>3, <1>5, <1>6 DEF UdpIInv

\* What holds of the datagrams on their way holds of fewer of them.
LEMMA LoseKeeps == ASSUME UdpIInv, NEW d \in InTransit, Lose(d) PROVE UdpIInv'
<1>1. UdpTypeOK /\ OneOnItsWay
  BY DEF UdpIInv
<1>2. /\ \/ /\ d \in BagToSet(requests)
            /\ requests' = BagRemove(requests, d) /\ answers' = answers
         \/ /\ d \in BagToSet(answers)
            /\ answers' = BagRemove(answers, d) /\ requests' = requests
      /\ lost' = [lost EXCEPT ![d.of] = TRUE]
      /\ UNCHANGED <<isrunning, inbox, input, inputs, blocked, shown, duplicates>>
  BY DEF Lose, udpServerVars, udpClientVars
<1>3. /\ BagToSet(requests') \subseteq BagToSet(requests)
      /\ BagToSet(answers') \subseteq BagToSet(answers)
  <2>1. CASE d \in BagToSet(requests) /\ requests' = BagRemove(requests, d) /\ answers' = answers
    BY <2>1, RemoveFacts
  <2>2. CASE d \in BagToSet(answers) /\ answers' = BagRemove(answers, d) /\ requests' = requests
    BY <2>2, RemoveFacts
  <2>3. QED
    BY <1>2, <2>1, <2>2
<1>4. lost' \in [Senders -> BOOLEAN]
  BY <1>1, <1>2 DEF UdpTypeOK
<1>5. UdpTypeOK'
  BY <1>1, <1>2, <1>3, <1>4 DEF UdpTypeOK
<1>6. ASSUME duplicates = 0 PROVE Single(requests') /\ Single(answers')
  <2>1. Single(requests) /\ Single(answers)
    BY <1>1, <1>6 DEF OneOnItsWay
  <2>2. CASE d \in BagToSet(requests) /\ requests' = BagRemove(requests, d) /\ answers' = answers
    BY <2>1, <2>2, SingleRemoves
  <2>3. CASE d \in BagToSet(answers) /\ answers' = BagRemove(answers, d) /\ requests' = requests
    BY <2>1, <2>3, SingleRemoves
  <2>4. QED
    BY <1>2, <2>2, <2>3
<1>7. InTransit' \subseteq InTransit
  BY <1>3 DEF InTransit
<1>8. OneOnItsWay'
  BY <1>1, <1>2, <1>3, <1>6, <1>7 DEF OneOnItsWay
<1>9. QED
  BY <1>2, <1>5, <1>8 DEF UdpIInv

\* After a duplicate nothing is claimed but the types.
LEMMA DuplicateKeeps == ASSUME UdpIInv, NEW d \in InTransit, Duplicate(d) PROVE UdpIInv'
<1>1. UdpTypeOK
  BY DEF UdpIInv
<1>2. /\ \/ /\ d \in BagToSet(requests)
            /\ requests' = BagAdd(requests, d) /\ answers' = answers
         \/ /\ d \in BagToSet(answers)
            /\ answers' = BagAdd(answers, d) /\ requests' = requests
      /\ duplicates < MaxDuplicates /\ duplicates' = duplicates + 1
      /\ UNCHANGED <<isrunning, inbox, input, inputs, blocked, shown, lost>>
  BY DEF Duplicate, udpServerVars, udpClientVars
<1>3. /\ BagToSet(requests') \subseteq BagToSet(requests)
      /\ BagToSet(answers') \subseteq BagToSet(answers)
  <2>1. CASE d \in BagToSet(requests) /\ requests' = BagAdd(requests, d) /\ answers' = answers
    BY <2>1, AddFacts
  <2>2. CASE d \in BagToSet(answers) /\ answers' = BagAdd(answers, d) /\ requests' = requests
    BY <2>2, AddFacts
  <2>3. QED
    BY <1>2, <2>1, <2>2
<1>4. duplicates' \in 0 .. MaxDuplicates /\ duplicates' # 0
  BY <1>1, <1>2, UdpAssumption DEF UdpTypeOK
<1>5. UdpTypeOK'
  BY <1>1, <1>2, <1>3, <1>4 DEF UdpTypeOK
<1>6. QED
  BY <1>2, <1>4, <1>5 DEF UdpIInv, OneOnItsWay

\* Every step of the echo pair.
LEMMA UdpKeeps == UdpIInv /\ UdpNext => UdpIInv'
BY SenderSendsKeeps, SenderReceivesKeeps, ServerReceivesKeeps, ServerRepliesKeeps,
   LoseKeeps, DuplicateKeeps DEF UdpNext

\* The steps of the other programs.
LEMMA UdpStutters == UdpIInv /\ UNCHANGED udpVars => UdpIInv'
<1> SUFFICES ASSUME UdpIInv, UNCHANGED udpVars PROVE UdpIInv'
  OBVIOUS
<1>1. UNCHANGED <<isrunning, inbox, requests, answers, input, inputs, blocked, shown,
                  lost, duplicates>>
  BY DEF udpVars
<1>2. UdpTypeOK'
  BY <1>1 DEF UdpIInv, UdpTypeOK
<1>3. OneOnItsWay'
  BY <1>1 DEF UdpIInv, OneOnItsWay, InTransit, Single
<1>4. QED
  BY <1>1, <1>2, <1>3 DEF UdpIInv

----------------------------------------------------------------------------
(* The three programs together                                              *)

\* The invariants of all three hold initially.
LEMMA Initially == Init => HttpIInv /\ TcpIInv /\ UdpIInv
BY HttpInitially, TcpInitially, UdpInitially DEF Init

\* One program steps and the other two keep their variables.
LEMMA Keeps ==
    ASSUME HttpIInv, TcpIInv, UdpIInv, [Next]_vars
    PROVE  HttpIInv' /\ TcpIInv' /\ UdpIInv'
<1>1. CASE HttpNext /\ UNCHANGED <<tcpVars, udpVars>>
  BY <1>1, HttpKeeps, TcpStutters, UdpStutters
<1>2. CASE TcpNext /\ UNCHANGED <<httpVars, udpVars>>
  BY <1>2, HttpStutters, TcpKeeps, UdpStutters
<1>3. CASE UdpNext /\ UNCHANGED <<httpVars, tcpVars>>
  BY <1>3, HttpStutters, TcpStutters, UdpKeeps
<1>4. CASE UNCHANGED vars
  <2>1. UNCHANGED httpVars /\ UNCHANGED tcpVars /\ UNCHANGED udpVars
    BY <1>4 DEF vars
  <2>2. QED
    BY <2>1, HttpStutters, TcpStutters, UdpStutters
<1>5. QED
  BY <1>1, <1>2, <1>3, <1>4 DEF Next

\* The inductive invariants hold in every reachable state.
THEOREM Inductive == Spec => [](HttpIInv /\ TcpIInv /\ UdpIInv)
<1>1. Init => HttpIInv /\ TcpIInv /\ UdpIInv
  BY Initially
<1>2. (HttpIInv /\ TcpIInv /\ UdpIInv) /\ [Next]_vars => (HttpIInv /\ TcpIInv /\ UdpIInv)'
  BY Keeps
<1>3. QED
  BY <1>1, <1>2, PTL DEF Spec

\* However pages come and go between the first open() and stat(), what
\* HanderRequest sends is about one page: the status, the body and the
\* Content-Type agree, for any pages and any number of changes.
THEOREM OneResponsePage == Spec => []OnePage
<1>1. HttpIInv => OnePage
  BY Responses
<1>2. QED
  BY <1>1, Inductive, PTL

\* MakeResponse measures the body by its path, after it has been read.  However pages
\* change, Content-Length is the length of the file as it lies there when the response
\* is sent, and that of the body unless this file has been changed since it was read.
THEOREM LengthIsHonest == Spec => []HonestLength
<1>1. HttpIInv => HonestLength
  BY Responses
<1>2. QED
  BY <1>1, Inductive, PTL

\* A thread owns the descriptor it was given, and no other.
LEMMA Apart == TcpIInv => ThreadsApart
<1> SUFFICES ASSUME TcpIInv PROVE ThreadsApart
  OBVIOUS
<1>1. ASSUME server = "running", NEW c \in Conns, thread[c] # "none"
      PROVE  Peer(c) = c /\ {fd \in FdNums : fds[fd] = c} = {captured[c]}
  <2>1. NetInv /\ ThreadsInv
    BY <1>1, Running
  <2>2. captured[c] \in FdNums /\ Peer(c) = c /\ fds[captured[c]] = c
    BY <1>1, <2>1 DEF ThreadsInv, Peer
  <2>3. \A fd \in FdNums : fds[fd] = c => fd = captured[c]
    BY <2>1, <2>2, NetAssumption DEF NetInv, OnePlace
  <2>4. QED
    BY <2>2, <2>3
<1>2. QED
  BY <1>1 DEF ThreadsApart, TcpIInv

\* For any number of clients, messages and descriptors: a thread reaches the
\* connection it was created for, which holds one descriptor and no second.
THEOREM ThreadsStayApart == Spec => []ThreadsApart
  BY Apart, Inductive, PTL

\* For any number of clients and lines: before the first duplicate the reply a
\* client prints is to the line it sent last.
THEOREM RepliesMatchLines == Spec => []MatchUnlessDuplicated
<1>1. UdpIInv => MatchUnlessDuplicated
  BY DEF UdpIInv, OneOnItsWay, MatchUnlessDuplicated
<1>2. QED
  BY <1>1, Inductive, PTL

----------------------------------------------------------------------------
(* The server that forks twice                                              *)

\* Workers are children and grandchildren of one connection each.
LEMMA WorkerNames ==
    /\ Parent \in Processes
    /\ \A w \in Workers : w \in Processes /\ w # Parent /\ w[2] \in Browsers
    /\ \A w \in Workers : w = Child(w[2]) \/ w = Grandchild(w[2])
    /\ \A c \in Browsers : /\ Child(c) \in Workers /\ Grandchild(c) \in Workers
                           /\ Child(c)[1] = "child" /\ Child(c)[2] = c
                           /\ Grandchild(c)[1] = "grandchild" /\ Grandchild(c)[2] = c
                           /\ Child(c) # Grandchild(c)
    /\ \A c, d \in Browsers : /\ Child(c) # Grandchild(d)
                              /\ Child(c) = Child(d) => c = d
                              /\ Grandchild(c) = Grandchild(d) => c = d
BY DEF Parent, Processes, Workers, Child, Grandchild

\* Nobody has connected.
LEMMA ForkInitially == ForkInit => ForkIInv
<1> SUFFICES ASSUME ForkInit PROVE ForkIInv
  OBVIOUS
<1>1. /\ pending = <<>> /\ cur = Nobody /\ parent = "accept" /\ Nobody \notin Browsers
      /\ \A c \in Browsers : browser[c] = "off" /\ answered[c] = 0
      /\ \A w \in Workers : phase[w] = "none"
      /\ held[Parent] = {ListenSocket} /\ Range(pending) = {}
  BY WorkerNames, ServerAssumption DEF ForkInit, Range
<1>2. ForkTypeOK
  <2>1. held \in [Processes -> SUBSET (Browsers \cup {ListenSocket})]
    BY DEF ForkInit
  <2>2. pending \in Seq(Browsers)
    BY <1>1
  <2>3. phase \in [Workers -> {"none", "start", "fork", "recv", "send", "close",
                               "exit", "zombie", "reaped"}]
    BY DEF ForkInit
  <2>4. QED
    BY <2>1, <2>2, <2>3, ServerAssumption DEF ForkInit, ForkTypeOK
<1>3. Pending
  BY <1>1, WorkerNames DEF Pending, Untouched
<1>4. OneChild
  BY <1>1, WorkerNames DEF OneChild
<1>5. OneService
  BY <1>1, WorkerNames DEF OneService
<1>6. QED
  BY <1>2, <1>3, <1>4, <1>5 DEF ForkIInv

\* A browser's steps.
LEMMA BrowserKeeps ==
    ASSUME ForkIInv, NEW c \in Browsers, BrowserStep(c)
    PROVE  ForkIInv'
<1>1. /\ browser \in [Browsers -> {"off", "connected", "asked", "gone"}]
      /\ request \in [Browsers -> BOOLEAN] /\ pending \in Seq(Browsers)
  BY DEF ForkIInv, ForkTypeOK
<1>2. UNCHANGED <<answered, parent, cur, phase, held, forkFailures, innerFailures>>
  BY DEF BrowserStep, BrowserConnects, BrowserAsks, BrowserLeaves, failures
<1>3. OneChild'
  BY <1>2 DEF ForkIInv, OneChild, Untouched
<1>4. OneService'
  BY <1>2 DEF ForkIInv, OneService
<1>5. ForkTypeOK' /\ Pending'
  <2>1. CASE BrowserConnects(c)
    <3>1. /\ browser[c] = "off" /\ browser' = [browser EXCEPT ![c] = "connected"]
          /\ pending' = Append(pending, c) /\ request' = request
      BY <2>1 DEF BrowserConnects
    <3>2. /\ pending' \in Seq(Browsers) /\ DOMAIN pending = 1 .. Len(pending)
          /\ DOMAIN pending' = 1 .. Len(pending) + 1 /\ Len(pending) \in Nat
          /\ pending'[Len(pending) + 1] = c
          /\ \A i \in 1 .. Len(pending) : pending'[i] = pending[i]
      BY <1>1, <3>1
    <3>3. ForkTypeOK'
      <4>1. browser' \in [Browsers -> {"off", "connected", "asked", "gone"}]
        BY <1>1, <3>1
      <4>2. QED
        BY <4>1, <3>1, <3>2, <1>2 DEF ForkIInv, ForkTypeOK
    <3>4. c \notin Range(pending) /\ \A i \in 1 .. Len(pending) : pending[i] # c
      BY <3>1, <3>2 DEF ForkIInv, Pending, Range
    <3>5. Range(pending') = Range(pending) \cup {c}
      BY <3>2 DEF Range
    <3>6. \A i, j \in DOMAIN pending' : pending'[i] = pending'[j] => i = j
      BY <3>2, <3>4 DEF ForkIInv, Pending
    <3>7. \A d \in Browsers : browser'[d] = "off" => browser[d] = "off"
      BY <1>1, <3>1
    <3>8. \A d \in Browsers : browser'[d] = IF d = c THEN "connected" ELSE browser[d]
      BY <1>1, <3>1
    <3>9. \A d \in Browsers : Untouched(d)' <=> Untouched(d)
      BY <1>2 DEF Untouched
    <3>10. Range(pending) \subseteq Browsers
      BY <1>1 DEF Range
    <3>11. \A d \in Range(pending') : browser'[d] # "off"
      BY <3>5, <3>8, <3>10 DEF ForkIInv, Pending
    <3>12. ASSUME NEW d \in Browsers, browser'[d] = "off" \/ d \in Range(pending')
           PROVE  d # cur' /\ Untouched(d)'
      <4>1. browser[d] = "off" \/ d \in Range(pending)
        BY <3>1, <3>5, <3>7, <3>12
      <4>2. QED
        BY <4>1, <3>9, <1>2 DEF ForkIInv, Pending
    <3>13. QED
      BY <3>3, <3>6, <3>11, <3>12 DEF Pending
  <2>2. CASE BrowserAsks(c) \/ BrowserLeaves(c)
    <3>1. /\ pending' = pending /\ request' \in [Browsers -> BOOLEAN]
          /\ browser' \in [Browsers -> {"off", "connected", "asked", "gone"}]
          /\ \A d \in Browsers : browser'[d] = "off" <=> browser[d] = "off"
      BY <1>1, <2>2 DEF BrowserAsks, BrowserLeaves
    <3>2. ForkTypeOK'
      BY <3>1, <1>2 DEF ForkIInv, ForkTypeOK
    <3>3. \A d \in Browsers : Untouched(d)' <=> Untouched(d)
      BY <1>2 DEF Untouched
    <3>4. Range(pending) \subseteq Browsers
      BY <1>1 DEF Range
    <3>5. Pending'
      BY <3>1, <3>3, <3>4, <1>2 DEF ForkIInv, Pending
    <3>6. QED
      BY <3>2, <3>5
  <2>3. QED
    BY <2>1, <2>2 DEF BrowserStep
<1>6. QED
  BY <1>3, <1>4, <1>5 DEF ForkIInv

\* What the accepting process knows while it has a connection at hand.
LEMMA AtHand ==
    ASSUME ForkIInv, parent \in {"fork", "close", "wait"}
    PROVE  /\ cur \in Browsers /\ browser[cur] # "off" /\ cur \notin Range(pending)
           /\ Child(cur) \in Workers /\ Grandchild(cur) \in Workers
BY WorkerNames DEF ForkIInv, OneChild, Pending

\* The accepting process takes the oldest connection.
LEMMA ParentAcceptKeeps == ASSUME ForkIInv, ParentAccept PROVE ForkIInv'
<1>1. /\ parent = "accept" /\ pending # <<>> /\ cur' = Head(pending) /\ pending' = Tail(pending)
      /\ held' = [held EXCEPT ![Parent] = @ \cup {Head(pending)}] /\ parent' = "fork"
      /\ UNCHANGED <<browser, request, answered, phase, forkFailures, innerFailures>>
  BY DEF ParentAccept, failures
<1>2. /\ pending \in Seq(Browsers) /\ cur = Nobody /\ Nobody \notin Browsers
      /\ held \in [Processes -> SUBSET (Browsers \cup {ListenSocket})] /\ held[Parent] = {ListenSocket}
  BY <1>1, ServerAssumption DEF ForkIInv, ForkTypeOK, OneChild
<1>3. /\ Head(pending) \in Browsers /\ pending' \in Seq(Browsers) /\ Len(pending) \in Nat
      /\ DOMAIN pending = 1 .. Len(pending) /\ DOMAIN pending' = 1 .. Len(pending) - 1
      /\ Head(pending) = pending[1] /\ 1 \in DOMAIN pending
      /\ \A i \in DOMAIN pending' : i + 1 \in DOMAIN pending /\ pending'[i] = pending[i + 1] /\ i + 1 # 1
  BY <1>1, <1>2
<1>4. /\ \A i, j \in DOMAIN pending : pending[i] = pending[j] => i = j
      /\ \A d \in Range(pending) : browser[d] # "off"
      /\ \A d \in Browsers : browser[d] = "off" \/ d \in Range(pending) => d # cur /\ Untouched(d)
  BY DEF ForkIInv, Pending
<1>5. Range(pending') \subseteq Range(pending) /\ Head(pending) \in Range(pending)
  BY <1>3 DEF Range
<1>6. Head(pending) \notin Range(pending')
  BY <1>3, <1>4 DEF Range
<1>7. \A i, j \in DOMAIN pending' : pending'[i] = pending'[j] => i = j
  <2> SUFFICES ASSUME NEW i \in DOMAIN pending', NEW j \in DOMAIN pending', pending'[i] = pending'[j]
               PROVE  i = j
    OBVIOUS
  <2>1. i + 1 = j + 1
    BY <1>3, <1>4
  <2>2. QED
    BY <2>1, <1>3
<1>8. \A d \in Browsers : Untouched(d)' <=> Untouched(d)
  BY <1>1 DEF Untouched
<1>9. Untouched(Head(pending)) /\ browser[Head(pending)] # "off"
  BY <1>3, <1>4, <1>5
<1>10. ForkTypeOK'
  <2>1. held' \in [Processes -> SUBSET (Browsers \cup {ListenSocket})]
    BY <1>1, <1>2, <1>3
  <2>2. QED
    BY <2>1, <1>1, <1>3 DEF ForkIInv, ForkTypeOK
<1>11. Pending'
  <2>1. \A d \in Browsers : browser'[d] = "off" \/ d \in Range(pending') => d # cur' /\ Untouched(d)'
    BY <1>1, <1>4, <1>5, <1>6, <1>8, <1>9
  <2>2. \A d \in Range(pending') : browser'[d] # "off"
    BY <1>1, <1>4, <1>5
  <2>3. QED
    BY <2>1, <2>2, <1>7 DEF Pending
<1>12. OneChild'
  <2>1. held'[Parent] = {ListenSocket, Head(pending)}
    BY <1>1, <1>2, WorkerNames
  <2>2. \A c \in Browsers : phase[Child(c)] \in {"none", "reaped"}
    BY <1>2 DEF ForkIInv, OneChild
  <2>3. QED
    BY <2>1, <2>2, <1>1, <1>3, <1>8, <1>9 DEF OneChild
<1>13. OneService'
  <2>1. \A w \in Workers : held'[w] = held[w]
    BY <1>1, <1>2, WorkerNames
  <2>2. QED
    BY <2>1, <1>1, WorkerNames DEF ForkIInv, OneService
<1>14. QED
  BY <1>10, <1>11, <1>12, <1>13 DEF ForkIInv

\* The child starts with what the accepting process holds.
LEMMA ParentForkKeeps == ASSUME ForkIInv, ParentFork PROVE ForkIInv'
<1>1. /\ parent = "fork" /\ phase' = [phase EXCEPT ![Child(cur)] = "start"]
      /\ held' = [held EXCEPT ![Child(cur)] = held[Parent]] /\ parent' = "close"
      /\ UNCHANGED <<browser, request, answered, pending, cur, forkFailures, innerFailures>>
  BY DEF ParentFork, browserVars, failures
<1>2. /\ cur \in Browsers /\ browser[cur] # "off" /\ cur \notin Range(pending)
      /\ Child(cur) \in Workers /\ Grandchild(cur) \in Workers
  BY <1>1, AtHand
<1>3. /\ held \in [Processes -> SUBSET (Browsers \cup {ListenSocket})] /\ DOMAIN phase = Workers
      /\ held[Parent] = {ListenSocket, cur} /\ Untouched(cur)
  BY <1>1, <1>2 DEF ForkIInv, ForkTypeOK, OneChild
<1>4. /\ phase'[Child(cur)] = "start" /\ held'[Child(cur)] = {ListenSocket, cur}
      /\ \A w \in Workers \ {Child(cur)} : phase'[w] = phase[w] /\ held'[w] = held[w]
      /\ held'[Parent] = held[Parent]
  BY <1>1, <1>2, <1>3, WorkerNames
<1>5. ForkTypeOK'
  <2>1. held' \in [Processes -> SUBSET (Browsers \cup {ListenSocket})]
    BY <1>1, <1>2, <1>3
  <2>2. phase' \in [Workers -> {"none", "start", "fork", "recv", "send", "close",
                                "exit", "zombie", "reaped"}]
    BY <1>1 DEF ForkIInv, ForkTypeOK
  <2>3. QED
    BY <2>1, <2>2, <1>1 DEF ForkIInv, ForkTypeOK
<1>6. Pending'
  <2>1. \A d \in Browsers \ {cur} : Untouched(d) => Untouched(d)'
    BY <1>1, <1>2, <1>4, WorkerNames DEF Untouched
  <2>2. QED
    BY <2>1, <1>1, <1>2 DEF ForkIInv, Pending
<1>7. OneChild'
  BY <1>1, <1>2, <1>3, <1>4, WorkerNames DEF ForkIInv, OneChild
<1>8. OneService'
  <2>1. ASSUME NEW c \in Browsers \ {cur}
        PROVE  /\ phase'[Child(c)] = phase[Child(c)] /\ phase'[Grandchild(c)] = phase[Grandchild(c)]
               /\ held'[Child(c)] = held[Child(c)] /\ held'[Grandchild(c)] = held[Grandchild(c)]
    BY <1>2, <1>4, WorkerNames
  <2>2. /\ phase'[Child(cur)] = "start" /\ held'[Child(cur)] = {ListenSocket, cur}
        /\ phase'[Grandchild(cur)] = "none" /\ answered[cur] = 0
    BY <1>2, <1>3, <1>4, WorkerNames DEF Untouched
  <2>3. QED
    BY <2>1, <2>2, <1>1, <1>2 DEF ForkIInv, OneService
<1>9. QED
  BY <1>5, <1>6, <1>7, <1>8 DEF ForkIInv

\* The accepting process gives up a copy: fork() failed and it exits, or it closes
\* the connection that the child has now.
LEMMA ParentClosesKeeps == ASSUME ForkIInv, ParentForkFails \/ ParentClose PROVE ForkIInv'
<1>1. /\ UNCHANGED <<browser, request, answered, cur, phase, innerFailures>>
      /\ pending' = pending \/ pending' = <<>>
      /\ \E kept \in SUBSET {ListenSocket, cur} : held' = [held EXCEPT ![Parent] = kept]
      /\ parent \in {"fork", "close"} /\ parent' \in {"dead", "wait"}
      /\ forkFailures' \in 0 .. MaxForkFailures
  <2>1. CASE ParentForkFails
    <3>1. forkFailures' \in 0 .. MaxForkFailures
      BY <2>1, ServerAssumption DEF ParentForkFails, ForkIInv, ForkTypeOK
    <3>2. QED
      BY <2>1, <3>1 DEF ParentForkFails, browserVars
  <2>2. CASE ParentClose
    <3>1. held[Parent] = {ListenSocket, cur} /\ held \in [Processes -> SUBSET (Browsers \cup {ListenSocket})]
      BY <2>2 DEF ParentClose, ForkIInv, OneChild, ForkTypeOK
    <3>2. held' = [held EXCEPT ![Parent] = held[Parent] \ {cur}]
      BY <2>2 DEF ParentClose, Close
    <3>3. QED
      BY <2>2, <3>1, <3>2 DEF ParentClose, browserVars, failures, ForkIInv, ForkTypeOK
  <2>3. QED
    BY <2>1, <2>2
<1>2. /\ cur \in Browsers /\ Child(cur) \in Workers
      /\ held \in [Processes -> SUBSET (Browsers \cup {ListenSocket})]
  BY <1>1, AtHand DEF ForkIInv, ForkTypeOK
<1>3. \A w \in Workers : held'[w] = held[w]
  BY <1>1, <1>2, WorkerNames
<1>4. ForkTypeOK'
  <2>1. PICK kept \in SUBSET {ListenSocket, cur} : held' = [held EXCEPT ![Parent] = kept]
    BY <1>1
  <2>2. kept \in SUBSET (Browsers \cup {ListenSocket})
    BY <1>2
  <2>3. held' \in [Processes -> SUBSET (Browsers \cup {ListenSocket})]
    BY <2>1, <2>2, <1>2
  <2>4. pending \in Seq(Browsers) /\ <<>> \in Seq(Browsers)
    BY DEF ForkIInv, ForkTypeOK
  <2>5. pending' \in Seq(Browsers)
    BY <1>1, <2>4
  <2>6. QED
    BY <2>3, <2>5, <1>1 DEF ForkIInv, ForkTypeOK
<1>5. Pending'
  <2>1. CASE pending' = pending
    BY <1>1, <2>1 DEF ForkIInv, Pending, Untouched
  <2>2. CASE pending' = <<>>
    <3>1. DOMAIN pending' = {} /\ Range(pending') = {}
      BY <2>2 DEF Range
    <3>2. QED
      BY <1>1, <3>1 DEF ForkIInv, Pending, Untouched
  <2>3. QED
    BY <1>1, <2>1, <2>2
<1>6. OneService'
  BY <1>1, <1>3, WorkerNames DEF ForkIInv, OneService
<1>7. OneChild'
  <2>1. CASE ParentForkFails
    <3>1. parent = "fork" /\ parent' = "dead"
      BY <2>1 DEF ParentForkFails
    <3>2. QED
      BY <3>1, <1>1, <1>2 DEF ForkIInv, OneChild, Untouched
  <2>2. CASE ParentClose
    <3>1. parent = "close" /\ parent' = "wait" /\ held' = [held EXCEPT ![Parent] = held[Parent] \ {cur}]
      BY <2>2 DEF ParentClose, Close
    <3>2. held'[Parent] = {ListenSocket, cur} \ {cur}
      BY <3>1, <1>2, WorkerNames DEF ForkIInv, OneChild
    <3>3. held'[Parent] = {ListenSocket}
      BY <3>2, <1>2, ServerAssumption
    <3>4. QED
      BY <3>1, <3>3, <1>1, <1>2 DEF ForkIInv, OneChild
  <2>3. QED
    BY <2>1, <2>2
<1>8. QED
  BY <1>4, <1>5, <1>6, <1>7 DEF ForkIInv

\* waitpid() reaps the child.
LEMMA ParentWaitKeeps == ASSUME ForkIInv, ParentWait PROVE ForkIInv'
<1>1. /\ parent = "wait" /\ phase[Child(cur)] = "zombie"
      /\ phase' = [phase EXCEPT ![Child(cur)] = "reaped"] /\ parent' = "accept" /\ cur' = Nobody
      /\ UNCHANGED <<browser, request, answered, pending, held, forkFailures, innerFailures>>
  BY DEF ParentWait, browserVars, failures
<1>2. cur \in Browsers /\ Child(cur) \in Workers /\ DOMAIN phase = Workers /\ Nobody \notin Browsers
  BY <1>1, AtHand, ServerAssumption DEF ForkIInv, ForkTypeOK
<1>3. /\ phase'[Child(cur)] = "reaped"
      /\ \A w \in Workers \ {Child(cur)} : phase'[w] = phase[w]
  BY <1>1, <1>2
<1>4. ForkTypeOK'
  <2>1. phase' \in [Workers -> {"none", "start", "fork", "recv", "send", "close",
                                "exit", "zombie", "reaped"}]
    BY <1>1 DEF ForkIInv, ForkTypeOK
  <2>2. QED
    BY <2>1, <1>1 DEF ForkIInv, ForkTypeOK
<1>5. Pending'
  <2>1. \A d \in Browsers \ {cur} : Untouched(d) => Untouched(d)'
    BY <1>1, <1>2, <1>3, WorkerNames DEF Untouched
  <2>2. browser[cur] # "off" /\ cur \notin Range(pending)
    BY <1>1, AtHand
  <2>3. QED
    BY <2>1, <2>2, <1>1, <1>2 DEF ForkIInv, Pending
<1>6. OneChild'
  BY <1>1, <1>2, <1>3, WorkerNames DEF ForkIInv, OneChild
<1>7. OneService'
  <2>1. ASSUME NEW c \in Browsers
        PROVE  /\ phase'[Grandchild(c)] = phase[Grandchild(c)]
               /\ phase'[Child(c)] \in {phase[Child(c)], "reaped"}
    BY <1>2, <1>3, WorkerNames
  <2>2. QED
    BY <2>1, <1>1 DEF ForkIInv, OneService
<1>8. QED
  BY <1>4, <1>5, <1>6, <1>7 DEF ForkIInv

\* What a step of the workers of c leaves alone: the other connections, the queue
\* and the accepting process, whose child still has to be reaped.
LEMMA OthersKeep ==
    ASSUME ForkIInv, NEW c \in Browsers, ~Untouched(c),
           UNCHANGED <<browser, pending, parent, cur>>,
           \A w \in Workers : w[2] # c => phase'[w] = phase[w] /\ held'[w] = held[w],
           held'[Parent] = held[Parent],
           \A d \in Browsers \ {c} : answered'[d] = answered[d],
           \/ phase'[Child(c)] = phase[Child(c)]
           \/ phase[Child(c)] \notin {"none", "reaped"} /\ phase'[Child(c)] \notin {"none", "reaped"}
    PROVE  /\ Pending' /\ OneChild'
           /\ \A d \in Browsers \ {c} :
                 /\ phase'[Child(d)] = phase[Child(d)] /\ phase'[Grandchild(d)] = phase[Grandchild(d)]
                 /\ held'[Child(d)] = held[Child(d)] /\ held'[Grandchild(d)] = held[Grandchild(d)]
<1>1. ASSUME NEW d \in Browsers \ {c}
      PROVE  /\ phase'[Child(d)] = phase[Child(d)] /\ phase'[Grandchild(d)] = phase[Grandchild(d)]
             /\ held'[Child(d)] = held[Child(d)] /\ held'[Grandchild(d)] = held[Grandchild(d)]
  BY WorkerNames
<1>2. \A d \in Browsers \ {c} : Untouched(d)' <=> Untouched(d)
  BY <1>1 DEF Untouched
<1>3. browser[c] # "off" /\ c \notin Range(pending)
  BY DEF ForkIInv, Pending
<1>4. Pending'
  BY <1>2, <1>3 DEF ForkIInv, Pending
<1>5. ~(parent \in {"fork", "dead"} /\ cur = c)
  BY DEF ForkIInv, OneChild
<1>6. OneChild'
  BY <1>1, <1>2, <1>5 DEF ForkIInv, OneChild
<1>7. QED
  BY <1>1, <1>4, <1>6

\* The child's part: it closes the listening socket and forks.
LEMMA ChildKeeps ==
    ASSUME ForkIInv, NEW c \in Browsers,
           ChildCloseListener(c) \/ ChildFork(c) \/ ChildForkFails(c)
    PROVE  ForkIInv'
<1>1. /\ UNCHANGED <<browser, request, answered, pending, parent, cur, forkFailures>>
      /\ phase[Child(c)] \in {"start", "fork"}
  BY DEF ChildCloseListener, ChildFork, ChildForkFails, Goto, browserVars, failures
<1>2. /\ Child(c) \in Workers /\ Grandchild(c) \in Workers
      /\ held \in [Processes -> SUBSET (Browsers \cup {ListenSocket})] /\ DOMAIN phase = Workers
      /\ phase[Grandchild(c)] = "none" /\ answered[c] = 0
      /\ ListenSocket \notin Browsers
  BY <1>1, WorkerNames, ServerAssumption DEF ForkIInv, ForkTypeOK, OneService
<1>3. CASE ChildCloseListener(c)
  <2>1. /\ phase[Child(c)] = "start" /\ phase' = [phase EXCEPT ![Child(c)] = "fork"]
        /\ held' = [held EXCEPT ![Child(c)] = held[Child(c)] \ {ListenSocket}]
        /\ UNCHANGED innerFailures
    BY <1>3 DEF ChildCloseListener, Goto, Close, failures
  <2>2. held[Child(c)] = {ListenSocket, c}
    BY <2>1 DEF ForkIInv, OneService
  <2>3. held[Child(c)] \ {ListenSocket} = {c}
    BY <2>2, <1>2
  <2>4. /\ phase'[Child(c)] = "fork" /\ held'[Child(c)] = {c} /\ phase'[Grandchild(c)] = "none"
        /\ \A w \in Workers : w[2] # c => phase'[w] = phase[w] /\ held'[w] = held[w]
        /\ held'[Parent] = held[Parent]
    BY <2>1, <2>3, <1>2, WorkerNames
  <2>5. ForkTypeOK'
    <3>1. /\ held' \in [Processes -> SUBSET (Browsers \cup {ListenSocket})]
          /\ phase' \in [Workers -> {"none", "start", "fork", "recv", "send", "close",
                                     "exit", "zombie", "reaped"}]
      BY <2>1, <2>3, <1>2 DEF ForkIInv, ForkTypeOK
    <3>2. QED
      BY <3>1, <2>1, <1>1 DEF ForkIInv, ForkTypeOK
  <2>6. ~Untouched(c)
    BY <1>1 DEF Untouched
  <2>7. /\ Pending' /\ OneChild'
        /\ \A d \in Browsers \ {c} :
              /\ phase'[Child(d)] = phase[Child(d)] /\ phase'[Grandchild(d)] = phase[Grandchild(d)]
              /\ held'[Child(d)] = held[Child(d)] /\ held'[Grandchild(d)] = held[Grandchild(d)]
    BY <2>1, <2>4, <2>6, <1>1, OthersKeep
  <2>8. OneService'
    BY <2>4, <2>7, <1>1, <1>2 DEF ForkIInv, OneService
  <2>9. QED
    BY <2>5, <2>7, <2>8 DEF ForkIInv
<1>4. CASE ChildFork(c)
  <2>1. /\ phase[Child(c)] = "fork"
        /\ phase' = [phase EXCEPT ![Child(c)] = "exit", ![Grandchild(c)] = "recv"]
        /\ held' = [held EXCEPT ![Grandchild(c)] = held[Child(c)]]
        /\ UNCHANGED innerFailures
    BY <1>4 DEF ChildFork, failures
  <2>2. held[Child(c)] = {c}
    BY <2>1 DEF ForkIInv, OneService
  <2>3. /\ phase'[Child(c)] = "exit" /\ phase'[Grandchild(c)] = "recv" /\ held'[Grandchild(c)] = {c}
        /\ \A w \in Workers : w[2] # c => phase'[w] = phase[w] /\ held'[w] = held[w]
        /\ held'[Parent] = held[Parent]
    BY <2>1, <2>2, <1>2, WorkerNames
  <2>4. ForkTypeOK'
    <3>1. /\ held' \in [Processes -> SUBSET (Browsers \cup {ListenSocket})]
          /\ phase' \in [Workers -> {"none", "start", "fork", "recv", "send", "close",
                                     "exit", "zombie", "reaped"}]
      BY <2>1, <2>2, <1>2 DEF ForkIInv, ForkTypeOK
    <3>2. QED
      BY <3>1, <2>1, <1>1 DEF ForkIInv, ForkTypeOK
  <2>5. ~Untouched(c)
    BY <1>1 DEF Untouched
  <2>6. /\ Pending' /\ OneChild'
        /\ \A d \in Browsers \ {c} :
              /\ phase'[Child(d)] = phase[Child(d)] /\ phase'[Grandchild(d)] = phase[Grandchild(d)]
              /\ held'[Child(d)] = held[Child(d)] /\ held'[Grandchild(d)] = held[Grandchild(d)]
    BY <2>1, <2>3, <2>5, <1>1, OthersKeep
  <2>7. OneService'
    BY <2>3, <2>6, <1>1, <1>2 DEF ForkIInv, OneService
  <2>8. QED
    BY <2>4, <2>6, <2>7 DEF ForkIInv
<1>5. CASE ChildForkFails(c)
  <2>1. /\ phase[Child(c)] = "fork" /\ phase' = [phase EXCEPT ![Child(c)] = "recv"]
        /\ held' = held /\ innerFailures' \in 0 .. MaxInnerFailures
    BY <1>5, ServerAssumption DEF ChildForkFails, Goto, ForkIInv, ForkTypeOK
  <2>2. /\ phase'[Child(c)] = "recv" /\ held[Child(c)] = {c} /\ phase'[Grandchild(c)] = "none"
        /\ \A w \in Workers : w[2] # c => phase'[w] = phase[w] /\ held'[w] = held[w]
        /\ held'[Parent] = held[Parent]
    BY <2>1, <1>2, WorkerNames DEF ForkIInv, OneService
  <2>3. ForkTypeOK'
    <3>1. phase' \in [Workers -> {"none", "start", "fork", "recv", "send", "close",
                                  "exit", "zombie", "reaped"}]
      BY <2>1, <1>2 DEF ForkIInv, ForkTypeOK
    <3>2. QED
      BY <3>1, <2>1, <1>1 DEF ForkIInv, ForkTypeOK
  <2>4. ~Untouched(c)
    BY <1>1 DEF Untouched
  <2>5. /\ Pending' /\ OneChild'
        /\ \A d \in Browsers \ {c} :
              /\ phase'[Child(d)] = phase[Child(d)] /\ phase'[Grandchild(d)] = phase[Grandchild(d)]
              /\ held'[Child(d)] = held[Child(d)] /\ held'[Grandchild(d)] = held[Grandchild(d)]
    BY <2>1, <2>2, <2>4, <1>1, OthersKeep
  <2>6. OneService'
    BY <2>1, <2>2, <2>5, <1>1, <1>2 DEF ForkIInv, OneService
  <2>7. QED
    BY <2>3, <2>5, <2>6 DEF ForkIInv
<1>6. QED
  BY <1>3, <1>4, <1>5

\* The service, in whatever process it runs, one step forward.
LEMMA ServiceKeeps ==
    ASSUME ForkIInv, NEW w \in Workers,
           \/ WorkerRecv(w) \/ WorkerRecvEnd(w) \/ WorkerSend(w)
           \/ WorkerKilled(w) \/ WorkerClose(w) \/ Exit(w)
    PROVE  ForkIInv'
<1>1. PICK c \in Browsers : c = w[2] /\ (w = Child(c) \/ w = Grandchild(c))
  BY WorkerNames
<1>2. /\ held \in [Processes -> SUBSET (Browsers \cup {ListenSocket})] /\ DOMAIN phase = Workers
      /\ answered \in [Browsers -> 0 .. 1] /\ request \in [Browsers -> BOOLEAN] /\ w \in Processes
  BY WorkerNames DEF ForkIInv, ForkTypeOK
<1>3. w = Child(c) /\ phase[w] \notin {"none", "reaped"} => c = cur /\ parent # "dead"
  BY <1>1 DEF ForkIInv, OneChild, Untouched
<1>4. PICK new \in {"send", "close", "exit", "zombie", "reaped"} :
         /\ phase' = [phase EXCEPT ![w] = new]
         /\ \/ phase[w] = "recv" /\ new \in {"send", "close"}
            \/ phase[w] = "send" /\ new \in {"close", "exit"}
            \/ phase[w] = "close" /\ new = "exit"
            \/ phase[w] = "exit" /\ new = "zombie"
            \/ phase[w] = "exit" /\ new = "reaped" /\ w # Child(c)
         /\ answered' = answered \/ (new = "close" /\ answered' = [answered EXCEPT ![c] = @ + 1] /\ phase[w] = "send")
         /\ held' = held \/ (new \in {"exit", "zombie", "reaped"} /\ \E kept \in SUBSET held[w] : held' = [held EXCEPT ![w] = kept])
  <2>1. CASE WorkerRecv(w)
    <3>1. phase[w] = "recv" /\ phase' = [phase EXCEPT ![w] = "send"] /\ UNCHANGED <<answered, held>>
      BY <2>1 DEF WorkerRecv, Goto
    <3>2. QED
      BY <3>1
  <2>2. CASE WorkerRecvEnd(w)
    BY <2>2 DEF WorkerRecvEnd, Goto, browserVars
  <2>3. CASE WorkerSend(w)
    BY <2>3, <1>1 DEF WorkerSend, Goto
  <2>4. CASE WorkerKilled(w)
    BY <2>4 DEF WorkerKilled, Goto, browserVars
  <2>5. CASE WorkerClose(w)
    <3>1. phase[w] = "close" /\ phase' = [phase EXCEPT ![w] = "exit"] /\ answered' = answered
      BY <2>5 DEF WorkerClose, Goto, browserVars
    <3>2. held' = [held EXCEPT ![w] = held[w] \ {w[2]}]
      BY <2>5 DEF WorkerClose, Close
    <3>3. \E kept \in SUBSET held[w] : held' = [held EXCEPT ![w] = kept]
      BY <3>2
    <3>4. QED
      BY <3>1, <3>3
  <2>6. CASE Exit(w)
    <3>1. phase[w] = "exit" /\ answered' = answered /\ held' = [held EXCEPT ![w] = {}]
      BY <2>6 DEF Exit, Goto, browserVars
    <3>2. \E kept \in SUBSET held[w] : held' = [held EXCEPT ![w] = kept]
      BY <3>1
    <3>3. CASE w = Child(c)
      <4>1. phase' = [phase EXCEPT ![w] = "zombie"]
        BY <2>6, <3>1, <3>3, <1>1, <1>3, WorkerNames DEF Exit, Goto
      <4>2. QED
        BY <4>1, <3>1, <3>2
    <3>4. CASE w = Grandchild(c)
      <4>1. w # Child(c) /\ w[1] # "child"
        BY <3>4, <1>1, WorkerNames
      <4>2. phase' = [phase EXCEPT ![w] = "reaped"]
        BY <2>6, <4>1 DEF Exit, Goto
      <4>3. QED
        BY <4>1, <4>2, <3>1, <3>2
    <3>5. QED
      BY <1>1, <3>3, <3>4
  <2>7. QED
    BY <2>1, <2>2, <2>3, <2>4, <2>5, <2>6
<1>5. /\ UNCHANGED <<browser, pending, parent, cur, forkFailures, innerFailures>>
      /\ request' \in [Browsers -> BOOLEAN]
  BY <1>1, <1>2 DEF WorkerRecv, WorkerRecvEnd, WorkerSend, WorkerKilled, WorkerClose, Exit,
                    browserVars, failures
<1>6. /\ phase'[w] = new /\ \A v \in Workers \ {w} : phase'[v] = phase[v]
  BY <1>2, <1>4
<1>7. /\ held' \in [Processes -> SUBSET (Browsers \cup {ListenSocket})]
      /\ \A p \in Processes \ {w} : held'[p] = held[p]
      /\ new \in {"send", "close"} => held'[w] = held[w]
  <2>1. CASE held' = held
    BY <2>1, <1>2
  <2>2. CASE held' # held
    <3>1. PICK kept \in SUBSET held[w] : held' = [held EXCEPT ![w] = kept]
      BY <2>2, <1>4
    <3>2. new \notin {"send", "close"}
      BY <2>2, <1>4
    <3>3. QED
      BY <3>1, <3>2, <1>2
  <2>3. QED
    BY <2>1, <2>2
<1>8. /\ answered' \in [Browsers -> 0 .. 1]
      /\ \A d \in Browsers \ {c} : answered'[d] = answered[d]
      /\ ~(new = "close" /\ phase[w] = "send") => answered' = answered
  <2>1. phase[w] = "send" => answered[c] = 0
    BY <1>1 DEF ForkIInv, OneService
  <2>2. CASE answered' = answered
    BY <2>2, <1>2
  <2>3. CASE answered' # answered
    <3>1. answered' = [answered EXCEPT ![c] = answered[c] + 1] /\ phase[w] = "send" /\ new = "close"
      BY <2>3, <1>4
    <3>2. QED
      BY <3>1, <2>1, <1>2
  <2>4. QED
    BY <2>2, <2>3
<1>9. ForkTypeOK'
  <2>1. phase' \in [Workers -> {"none", "start", "fork", "recv", "send", "close",
                                "exit", "zombie", "reaped"}]
    BY <1>4, <1>2 DEF ForkIInv, ForkTypeOK
  <2>2. QED
    BY <2>1, <1>5, <1>7, <1>8 DEF ForkIInv, ForkTypeOK
<1>10. ~Untouched(c)
  BY <1>1, <1>4 DEF Untouched
<1>11. /\ \A v \in Workers : v[2] # c => phase'[v] = phase[v] /\ held'[v] = held[v]
       /\ held'[Parent] = held[Parent]
       /\ \/ phase'[Child(c)] = phase[Child(c)]
          \/ phase[Child(c)] \notin {"none", "reaped"} /\ phase'[Child(c)] \notin {"none", "reaped"}
  BY <1>1, <1>4, <1>6, <1>7, WorkerNames
<1>12. /\ Pending' /\ OneChild'
       /\ \A d \in Browsers \ {c} :
             /\ phase'[Child(d)] = phase[Child(d)] /\ phase'[Grandchild(d)] = phase[Grandchild(d)]
             /\ held'[Child(d)] = held[Child(d)] /\ held'[Grandchild(d)] = held[Grandchild(d)]
  BY <1>5, <1>8, <1>10, <1>11, OthersKeep
<1>13. ASSUME NEW v \in {Child(c), Grandchild(c)} \ {w}
       PROVE  /\ phase'[v] = phase[v] /\ held'[v] = held[v]
              /\ phase[w] = "send" => phase[v] \notin {"start", "fork", "recv", "send"}
  <2>1. v \in Workers /\ v # w /\ v \in Processes
    BY WorkerNames
  <2>2. phase[w] = "send" => phase[v] \notin {"start", "fork", "recv", "send"}
    BY <1>1 DEF ForkIInv, OneService
  <2>3. QED
    BY <2>1, <2>2, <1>6, <1>7
<1>14. OneService'
  <2>1. /\ phase'[Grandchild(c)] \notin {"start", "fork"}
        /\ phase'[Grandchild(c)] # "none" => phase'[Child(c)] \in {"exit", "zombie", "reaped"}
    BY <1>1, <1>4, <1>6, <1>13 DEF ForkIInv, OneService
  <2>2. phase'[Child(c)] \notin {"start", "fork"}
    BY <1>1, <1>4, <1>6, <1>13 DEF ForkIInv, OneService
  <2>3. ASSUME NEW v \in {Child(c), Grandchild(c)}
        PROVE  /\ phase'[v] \in {"recv", "send", "close"} => held'[v] = {c}
               /\ phase'[v] \in {"start", "fork", "recv", "send"} => answered'[c] = 0
    <3>1. CASE v = w
      <4>1. new \in {"send", "close"} => held'[w] = {c}
        BY <1>1, <1>4, <1>7 DEF ForkIInv, OneService
      <4>2. new = "send" => answered'[c] = 0
        BY <1>1, <1>4, <1>8 DEF ForkIInv, OneService
      <4>3. QED
        BY <3>1, <4>1, <4>2, <1>4, <1>6
    <3>2. CASE v # w
      <4>1. phase[w] # "send" => answered' = answered
        BY <1>8
      <4>2. QED
        BY <3>2, <4>1, <1>13 DEF ForkIInv, OneService
    <3>3. QED
      BY <3>1, <3>2
  <2>4. ASSUME NEW d \in Browsers \ {c}
        PROVE  /\ phase'[Child(d)] = phase[Child(d)] /\ phase'[Grandchild(d)] = phase[Grandchild(d)]
               /\ held'[Child(d)] = held[Child(d)] /\ held'[Grandchild(d)] = held[Grandchild(d)]
               /\ answered'[d] = answered[d]
    BY <1>8, <1>12
  <2>5. QED
    BY <2>1, <2>2, <2>3, <2>4 DEF ForkIInv, OneService
<1>15. QED
  BY <1>9, <1>12, <1>14 DEF ForkIInv

\* Every step of the browsers and the processes.
LEMMA ForkKeeps == ForkIInv /\ [ForkNext]_forkVars => ForkIInv'
<1> SUFFICES ASSUME ForkIInv, [ForkNext]_forkVars PROVE ForkIInv'
  OBVIOUS
<1>1. CASE ParentStep \/ ParentForkFails
  BY <1>1, ParentAcceptKeeps, ParentForkKeeps, ParentClosesKeeps, ParentWaitKeeps DEF ParentStep
<1>2. ASSUME NEW w \in Workers, WorkerStep(w) PROVE ForkIInv'
  BY <1>2, ChildKeeps, ServiceKeeps DEF WorkerStep
<1>3. ASSUME NEW c \in Browsers, BrowserStep(c) PROVE ForkIInv'
  BY <1>3, BrowserKeeps
<1>4. CASE UNCHANGED forkVars
  <2>1. UNCHANGED <<browser, request, answered, pending, parent, cur, phase, held,
                    forkFailures, innerFailures>>
    BY <1>4 DEF forkVars, browserVars
  <2>2. ForkTypeOK'
    BY <2>1 DEF ForkIInv, ForkTypeOK
  <2>3. Pending' /\ OneChild' /\ OneService'
    BY <2>1 DEF ForkIInv, Pending, OneChild, OneService, Untouched
  <2>4. QED
    BY <2>2, <2>3 DEF ForkIInv
<1>5. QED
  BY <1>1, <1>2, <1>3, <1>4 DEF ForkNext

\* The inductive invariant of the server that forks twice: what each process holds
\* and which one serves, for any number of clients and of failing forks.
THEOREM ForkInductive == ForkSpec => []ForkIInv
  BY ForkInitially, ForkKeeps, PTL DEF ForkSpec

\* For any number of clients and of failing forks, also of the inner one: a
\* process that serves a client has that connection open and nothing else.
THEOREM DescriptorsDoNotSpread == ForkSpec => []OwnDescriptorsOnly
<1>1. ForkIInv => OwnDescriptorsOnly
  <2> SUFFICES ASSUME ForkIInv PROVE OwnDescriptorsOnly
    OBVIOUS
  <2>1. ASSUME NEW w \in Workers, phase[w] \in {"recv", "send", "close"} PROVE held[w] = {w[2]}
    BY <2>1, WorkerNames DEF ForkIInv, OneService
  <2>2. QED
    BY <2>1 DEF ForkIInv, OneChild, OwnDescriptorsOnly
<1>2. QED
  BY <1>1, ForkInductive, PTL

\* For any number of clients and of failing forks: the accepting process has one
\* child at most that is not reaped, and none while it waits for a connection.
THEOREM ChildrenAreReaped == ForkSpec => []NoZombiesPileUp
<1>1. ForkIInv => NoZombiesPileUp
  <2> SUFFICES ASSUME ForkIInv PROVE NoZombiesPileUp
    OBVIOUS
  <2> DEFINE unreaped == {w \in Workers : w[1] = "child" /\ phase[w] \notin {"none", "reaped"}}
  <2>1. \A w \in unreaped : cur \in Browsers /\ w = Child(cur)
    BY WorkerNames DEF ForkIInv, OneChild
  <2>2. parent = "accept" => unreaped = {}
    BY <2>1, ServerAssumption DEF ForkIInv, OneChild
  <2>3. \A v, w \in unreaped : v = w
    BY <2>1
  <2>4. QED
    BY <2>2, <2>3 DEF NoZombiesPileUp
<1>2. QED
  BY <1>1, ForkInductive, PTL

----------------------------------------------------------------------------
(* What the clients of that server see                                      *)

\* The functions of the processes, and that only the accepting process starts a child.
LEMMA ForkFunctions ==
    ASSUME ForkIInv
    PROVE  /\ held \in [Processes -> SUBSET (Browsers \cup {ListenSocket})]
           /\ DOMAIN phase = Workers /\ DOMAIN browser = Browsers
           /\ DOMAIN request = Browsers /\ DOMAIN answered = Browsers
           /\ pending \in Seq(Browsers) /\ Range(pending) \subseteq Browsers
           /\ ListenSocket \notin Browsers /\ Nobody \notin Browsers
BY ServerAssumption DEF ForkIInv, ForkTypeOK, Range

\* One step of a service: one process goes on, and gives up copies at most.
LEMMA ServiceSteps ==
    ASSUME ForkIInv, NEW w \in Workers,
           \/ WorkerRecv(w) \/ WorkerRecvEnd(w) \/ WorkerSend(w)
           \/ WorkerKilled(w) \/ WorkerClose(w) \/ Exit(w)
    PROVE  /\ UNCHANGED <<browser, pending, parent, cur>>
           /\ \A v \in Workers \ {w} : phase'[v] = phase[v]
           /\ phase[w] \in {"recv", "send", "close", "exit"} /\ phase'[w] \notin {"none", "start", "fork", "recv"}
           /\ phase'[w] = "send" => phase[w] = "recv"
           /\ \A p \in Processes \ {w} : held'[p] = held[p]
           /\ held'[w] = held[w] \/ held'[w] = held[w] \ {w[2]} \/ held'[w] = {}
<1>1. /\ held \in [Processes -> SUBSET (Browsers \cup {ListenSocket})] /\ DOMAIN phase = Workers
      /\ w \in Processes
  BY ForkFunctions, WorkerNames
<1>2. CASE WorkerRecv(w)
  BY <1>1, <1>2 DEF WorkerRecv, Goto
<1>3. CASE WorkerRecvEnd(w)
  BY <1>1, <1>3 DEF WorkerRecvEnd, Goto, browserVars
<1>4. CASE WorkerSend(w)
  BY <1>1, <1>4 DEF WorkerSend, Goto
<1>5. CASE WorkerKilled(w)
  BY <1>1, <1>5 DEF WorkerKilled, Goto, browserVars
<1>6. CASE WorkerClose(w)
  BY <1>1, <1>6 DEF WorkerClose, Goto, Close, browserVars
<1>7. CASE Exit(w)
  BY <1>1, <1>7 DEF Exit, Goto, browserVars
<1>8. QED
  BY <1>2, <1>3, <1>4, <1>5, <1>6, <1>7

\* One step of a child that has not forked.
LEMMA ChildSteps ==
    ASSUME ForkIInv, NEW c \in Browsers,
           ChildCloseListener(c) \/ ChildFork(c) \/ ChildForkFails(c)
    PROVE  /\ UNCHANGED <<browser, request, answered, pending, parent, cur>>
           /\ phase[Child(c)] \in {"start", "fork"} /\ phase[Grandchild(c)] = "none"
           /\ c \in held[Child(c)] /\ held[Child(c)] \subseteq {ListenSocket, c}
           /\ \A w \in Workers : w[2] # c => phase'[w] = phase[w] /\ held'[w] = held[w]
           /\ held'[Parent] = held[Parent]
           /\ \/ phase'[Child(c)] \in {"fork", "recv"} /\ phase'[Grandchild(c)] = "none"
              \/ phase'[Child(c)] = "exit" /\ phase'[Grandchild(c)] = "recv"
           /\ held'[Child(c)] = {c}
           /\ held'[Grandchild(c)] \in {held[Grandchild(c)], {c}}
           /\ held'[Grandchild(c)] # held[Grandchild(c)] => phase'[Grandchild(c)] = "recv"
<1>1. /\ held \in [Processes -> SUBSET (Browsers \cup {ListenSocket})] /\ DOMAIN phase = Workers
      /\ Child(c) \in Workers /\ Grandchild(c) \in Workers /\ Child(c) # Grandchild(c)
      /\ Child(c)[2] = c /\ Grandchild(c)[2] = c /\ ListenSocket \notin Browsers
  BY ForkFunctions, WorkerNames
<1>2. phase[Child(c)] \in {"start", "fork"}
  BY DEF ChildCloseListener, ChildFork, ChildForkFails, Goto
<1>3. /\ phase[Grandchild(c)] = "none"
      /\ phase[Child(c)] = "start" => held[Child(c)] = {ListenSocket, c}
      /\ phase[Child(c)] = "fork" => held[Child(c)] = {c}
  BY <1>2 DEF ForkIInv, OneService
<1>4. c \in held[Child(c)] /\ held[Child(c)] \subseteq {ListenSocket, c}
  BY <1>2, <1>3
<1>5. CASE ChildCloseListener(c)
  BY <1>1, <1>3, <1>4, <1>5, WorkerNames DEF ChildCloseListener, Goto, Close, browserVars
<1>6. CASE ChildFork(c)
  BY <1>1, <1>3, <1>4, <1>6, WorkerNames DEF ChildFork, browserVars
<1>7. CASE ChildForkFails(c)
  BY <1>1, <1>3, <1>4, <1>7, WorkerNames DEF ChildForkFails, Goto, browserVars
<1>8. QED
  BY <1>5, <1>6, <1>7

\* The steps of the accepting process.
LEMMA ParentSteps ==
    ASSUME ForkIInv, ParentFork \/ ParentForkFails \/ ParentClose \/ ParentWait
    PROVE  /\ UNCHANGED <<browser, request, answered>>
           /\ IF ParentForkFails THEN pending' = <<>> ELSE pending' = pending
           /\ ParentForkFails => parent' = "dead"
           /\ cur \in Browsers /\ cur \notin Range(pending)
           /\ \A w \in Workers \ {Child(cur)} : phase'[w] = phase[w] /\ held'[w] = held[w]
           /\ \/ /\ parent = "fork" /\ parent' = "close" /\ cur' = cur
                 /\ phase[Child(cur)] = "none" /\ phase'[Child(cur)] = "start"
                 /\ held[Parent] = {ListenSocket, cur} /\ held'[Parent] = held[Parent]
                 /\ held'[Child(cur)] = {ListenSocket, cur}
              \/ /\ parent = "fork" /\ parent' = "dead" /\ cur' = cur
                 /\ phase'[Child(cur)] = phase[Child(cur)] /\ held'[Child(cur)] = held[Child(cur)]
                 /\ phase[Child(cur)] = "none" /\ phase[Grandchild(cur)] = "none"
                 /\ held[Parent] = {ListenSocket, cur} /\ held'[Parent] = {}
              \/ /\ parent = "close" /\ parent' = "wait" /\ cur' = cur
                 /\ phase'[Child(cur)] = phase[Child(cur)] /\ held'[Child(cur)] = held[Child(cur)]
                 /\ held[Parent] = {ListenSocket, cur} /\ held'[Parent] = {ListenSocket}
              \/ /\ parent = "wait" /\ parent' = "accept" /\ cur' = Nobody
                 /\ phase[Child(cur)] = "zombie" /\ phase'[Child(cur)] = "reaped" /\ held' = held
<1>1. /\ held \in [Processes -> SUBSET (Browsers \cup {ListenSocket})] /\ DOMAIN phase = Workers
      /\ ListenSocket \notin Browsers
  BY ForkFunctions
<1>2. parent \in {"fork", "close", "wait"}
  BY DEF ParentFork, ParentForkFails, ParentClose, ParentWait
<1>3. /\ cur \in Browsers /\ cur \notin Range(pending) /\ Child(cur) \in Workers /\ Parent \in Processes
      /\ \A w \in Workers : w \in Processes /\ w # Parent
      /\ parent \in {"fork", "close"} => held[Parent] = {ListenSocket, cur}
      /\ parent = "fork" => phase[Child(cur)] = "none" /\ phase[Grandchild(cur)] = "none"
  BY <1>2, AtHand, WorkerNames DEF ForkIInv, OneChild, Untouched
<1>4. CASE ParentFork
  <2>1. ~ParentForkFails
    BY <1>4 DEF ParentFork, ParentForkFails
  <2>2. QED
    BY <1>1, <1>3, <1>4, <2>1 DEF ParentFork, browserVars
<1>5. CASE ParentForkFails
  BY <1>1, <1>3, <1>5 DEF ParentForkFails, browserVars
<1>6. CASE ParentClose
  <2>1. ~ParentForkFails
    BY <1>6 DEF ParentClose, ParentForkFails
  <2>2. QED
    BY <1>1, <1>3, <1>6, <2>1 DEF ParentClose, Close, browserVars
<1>7. CASE ParentWait
  <2>1. ~ParentForkFails
    BY <1>7 DEF ParentWait, ParentForkFails
  <2>2. QED
    BY <1>1, <1>3, <1>7, <2>1 DEF ParentWait, browserVars
<1>8. QED
  BY <1>4, <1>5, <1>6, <1>7

\* accept() takes the head of the queue.
LEMMA AcceptSteps ==
    ASSUME ForkIInv, ParentAccept
    PROVE  /\ UNCHANGED <<browser, request, answered, phase>>
           /\ parent = "accept" /\ parent' = "fork" /\ cur = Nobody /\ cur' = Head(pending)
           /\ pending # <<>> /\ pending' = Tail(pending)
           /\ Head(pending) \in Browsers /\ Head(pending) \in Range(pending)
           /\ Range(pending') = Range(pending) \ {Head(pending)}
           /\ held[Parent] = {ListenSocket} /\ held'[Parent] = {ListenSocket, Head(pending)}
           /\ \A w \in Workers : held'[w] = held[w]
<1>1. /\ held \in [Processes -> SUBSET (Browsers \cup {ListenSocket})] /\ pending \in Seq(Browsers)
      /\ parent = "accept" /\ pending # <<>> /\ pending' = Tail(pending)
      /\ cur = Nobody /\ held[Parent] = {ListenSocket}
      /\ held' = [held EXCEPT ![Parent] = @ \cup {Head(pending)}]
      /\ \A i, j \in DOMAIN pending : pending[i] = pending[j] => i = j
  BY ForkFunctions DEF ForkIInv, OneChild, ParentAccept, Pending
<1>2. /\ Head(pending) \in Browsers /\ Len(pending) \in Nat
      /\ DOMAIN pending = 1 .. Len(pending) /\ DOMAIN pending' = 1 .. Len(pending) - 1
      /\ Head(pending) = pending[1] /\ 1 \in DOMAIN pending
      /\ \A i \in DOMAIN pending' : i + 1 \in DOMAIN pending /\ pending'[i] = pending[i + 1] /\ i + 1 # 1
  BY <1>1
<1>3. \A i \in DOMAIN pending \ {1} : i - 1 \in DOMAIN pending' /\ pending'[i - 1] = pending[i]
  BY <1>1, <1>2
<1>4. Head(pending) \in Range(pending)
  BY <1>2 DEF Range
<1>5. Range(pending') = Range(pending) \ {Head(pending)}
  <2>1. ASSUME NEW c \in Range(pending') PROVE c \in Range(pending) \ {Head(pending)}
    BY <1>1, <1>2 DEF Range
  <2>2. ASSUME NEW c \in Range(pending), c # Head(pending) PROVE c \in Range(pending')
    <3>1. PICK i \in DOMAIN pending : pending[i] = c
      BY DEF Range
    <3>2. i - 1 \in DOMAIN pending' /\ pending'[i - 1] = c
      BY <1>2, <1>3, <2>2, <3>1
    <3>3. QED
      BY <3>2 DEF Range
  <2>3. QED
    BY <2>1, <2>2
<1>6. QED
  BY <1>1, <1>2, <1>4, <1>5, WorkerNames DEF ParentAccept

\* A browser's steps, and what they leave alone.
LEMMA BrowserSteps ==
    ASSUME ForkIInv, NEW c \in Browsers, BrowserStep(c)
    PROVE  /\ UNCHANGED <<answered, parent, cur, phase, held>>
           /\ \A d \in Browsers \ {c} : browser'[d] = browser[d] /\ request'[d] = request[d]
           /\ \/ /\ browser[c] = "off" /\ browser'[c] = "connected" /\ request' = request
                 /\ parent # "dead" /\ pending' = Append(pending, c)
                 /\ Range(pending') = Range(pending) \cup {c}
              \/ /\ browser[c] = "connected" /\ browser'[c] = "asked" /\ pending' = pending
                 /\ request' = [request EXCEPT ![c] = TRUE] /\ request'[c]
              \/ /\ browser[c] \in {"connected", "asked"} /\ browser'[c] = "gone"
                 /\ request' = request /\ pending' = pending
<1>1. /\ DOMAIN browser = Browsers /\ DOMAIN request = Browsers /\ pending \in Seq(Browsers)
  BY ForkFunctions
<1>2. CASE BrowserConnects(c)
  <2>1. /\ pending' = Append(pending, c) /\ DOMAIN pending = 1 .. Len(pending)
        /\ DOMAIN pending' = 1 .. Len(pending) + 1 /\ Len(pending) \in Nat
        /\ pending'[Len(pending) + 1] = c
        /\ \A i \in 1 .. Len(pending) : pending'[i] = pending[i]
    BY <1>1, <1>2 DEF BrowserConnects
  <2>2. Range(pending') = Range(pending) \cup {c}
    BY <2>1 DEF Range
  <2>3. QED
    BY <1>1, <1>2, <2>1, <2>2 DEF BrowserConnects
<1>3. CASE BrowserAsks(c)
  BY <1>1, <1>3 DEF BrowserAsks
<1>4. CASE BrowserLeaves(c)
  BY <1>1, <1>4 DEF BrowserLeaves
<1>5. QED
  BY <1>2, <1>3, <1>4 DEF BrowserStep

\* A copy is made only of what its maker has: the connection at hand.
LEMMA CopiesKeep == ForkIInv /\ Copies /\ [ForkNext]_forkVars => Copies'
<1> SUFFICES ASSUME ForkIInv, Copies, [ForkNext]_forkVars PROVE Copies'
  OBVIOUS
<1>1. /\ parent = "dead" => held[Parent] = {} /\ pending = <<>>
      /\ \A w \in Workers : /\ held[w] \subseteq {ListenSocket, w[2]}
                            /\ phase[w] = "none" => held[w] = {}
                            /\ ListenSocket \in held[w] => phase[w] = "start"
      /\ ListenSocket \notin Browsers
  BY ServerAssumption DEF Copies
<1>2. ASSUME NEW c \in Browsers, BrowserStep(c) PROVE Copies'
  BY <1>1, <1>2, BrowserSteps DEF Copies
<1>3. CASE ParentAccept
  BY <1>1, <1>3, AcceptSteps DEF Copies
<1>4. CASE ParentFork \/ ParentForkFails \/ ParentClose \/ ParentWait
  <2>1. cur \in Browsers /\ Child(cur) \in Workers /\ Child(cur)[2] = cur
    BY <1>4, ParentSteps, WorkerNames
  <2>2. parent' = "dead" => held'[Parent] = {} /\ pending' = <<>>
    BY <1>4, ParentSteps DEF ParentFork, ParentClose, ParentWait
  <2>3. ASSUME NEW w \in Workers
        PROVE  /\ held'[w] \subseteq {ListenSocket, w[2]}
               /\ phase'[w] = "none" => held'[w] = {}
               /\ ListenSocket \in held'[w] => phase'[w] = "start"
    <3>1. CASE w = Child(cur)
      BY <1>1, <1>4, <2>1, <3>1, ParentSteps
    <3>2. CASE w # Child(cur)
      BY <1>1, <1>4, <3>2, ParentSteps
    <3>3. QED
      BY <3>1, <3>2
  <2>4. QED
    BY <2>2, <2>3 DEF Copies
<1>5. ASSUME NEW c \in Browsers, ChildCloseListener(c) \/ ChildFork(c) \/ ChildForkFails(c)
      PROVE  Copies'
  <2>1. UNCHANGED <<parent, pending>> /\ held'[Parent] = held[Parent]
    BY <1>5, ChildSteps
  <2>2. ASSUME NEW w \in Workers
        PROVE  /\ held'[w] \subseteq {ListenSocket, w[2]}
               /\ phase'[w] = "none" => held'[w] = {}
               /\ ListenSocket \in held'[w] => phase'[w] = "start"
    <3>1. CASE w[2] # c
      BY <1>1, <1>5, <3>1, ChildSteps
    <3>2. CASE w = Child(c)
      BY <1>1, <1>5, <3>2, ChildSteps, WorkerNames
    <3>3. CASE w = Grandchild(c)
      BY <1>1, <1>5, <3>3, ChildSteps, WorkerNames
    <3>4. QED
      BY <3>1, <3>2, <3>3, WorkerNames
  <2>3. QED
    BY <1>1, <2>1, <2>2 DEF Copies
<1>6. ASSUME NEW w \in Workers,
             \/ WorkerRecv(w) \/ WorkerRecvEnd(w) \/ WorkerSend(w)
             \/ WorkerKilled(w) \/ WorkerClose(w) \/ Exit(w)
      PROVE  Copies'
  <2>1. UNCHANGED <<parent, pending>> /\ held'[Parent] = held[Parent]
    BY <1>6, ServiceSteps, WorkerNames
  <2>2. ASSUME NEW v \in Workers
        PROVE  /\ held'[v] \subseteq {ListenSocket, v[2]}
               /\ phase'[v] = "none" => held'[v] = {}
               /\ ListenSocket \in held'[v] => phase'[v] = "start"
    BY <1>1, <1>6, ServiceSteps, WorkerNames
  <2>3. QED
    BY <1>1, <2>1, <2>2 DEF Copies
<1>7. CASE UNCHANGED forkVars
  BY <1>1, <1>7 DEF forkVars, browserVars, Copies
<1>8. QED
  BY <1>2, <1>3, <1>4, <1>5, <1>6, <1>7 DEF ForkNext, ParentStep, WorkerStep

\* Who is about to answer changes only with a step of a service.
LEMMA AnsweringStays ==
    ASSUME ForkIInv, \/ ParentStep \/ ParentForkFails
                     \/ \E c \in Browsers : \/ BrowserStep(c) \/ ChildCloseListener(c)
                                            \/ ChildFork(c) \/ ChildForkFails(c)
    PROVE  \A d \in Browsers : Answering(d)' <=> Answering(d)
<1>1. CASE \/ ParentAccept \/ \E c \in Browsers : BrowserStep(c)
  BY <1>1, AcceptSteps, BrowserSteps DEF Answering
<1>2. CASE ParentFork \/ ParentForkFails \/ ParentClose \/ ParentWait
  <2>1. \A w \in Workers : phase'[w] = "send" <=> phase[w] = "send"
    BY <1>2, ParentSteps
  <2>2. QED
    BY <2>1, WorkerNames DEF Answering
<1>3. ASSUME NEW c \in Browsers, ChildCloseListener(c) \/ ChildFork(c) \/ ChildForkFails(c)
      PROVE  \A d \in Browsers : Answering(d)' <=> Answering(d)
  <2>1. \A w \in Workers : w[2] # c => phase'[w] = phase[w]
    BY <1>3, ChildSteps
  <2>2. ~Answering(c) /\ ~Answering(c)'
    BY <1>3, ChildSteps DEF Answering
  <2>3. QED
    BY <2>1, <2>2, WorkerNames DEF Answering
<1>4. QED
  BY <1>1, <1>2, <1>3 DEF ParentStep

\* One worker of a connection answers at most.
LEMMA AnsweringMoves ==
    ASSUME ForkIInv, NEW w \in Workers,
           \/ WorkerRecv(w) \/ WorkerRecvEnd(w) \/ WorkerSend(w)
           \/ WorkerKilled(w) \/ WorkerClose(w) \/ Exit(w)
    PROVE  /\ \A d \in Browsers \ {w[2]} : Answering(d)' <=> Answering(d)
           /\ phase[w] = "send" => Answering(w[2]) /\ ~Answering(w[2])'
           /\ phase[w] = "recv" => ~Answering(w[2]) /\ (Answering(w[2])' <=> phase'[w] = "send")
           /\ phase[w] \in {"close", "exit"} => (Answering(w[2])' <=> Answering(w[2]))
<1>1. w[2] \in Browsers /\ (w = Child(w[2]) \/ w = Grandchild(w[2]))
  BY WorkerNames
<1>2. phase[w] \in {"recv", "send"} =>
         \A v \in {Child(w[2]), Grandchild(w[2])} \ {w} : phase[v] # "send"
  BY <1>1 DEF ForkIInv, OneService
<1>3. \A v \in Workers \ {w} : phase'[v] = phase[v]
  BY ServiceSteps
<1>4. \A d \in Browsers \ {w[2]} : Child(d) # w /\ Grandchild(d) # w
  BY WorkerNames
<1>5. \A d \in Browsers \ {w[2]} : Answering(d)' <=> Answering(d)
  BY <1>3, <1>4, WorkerNames DEF Answering
<1>6. /\ phase'[w] = "send" => phase[w] = "recv"
      /\ \A v \in {Child(w[2]), Grandchild(w[2])} \ {w} : phase'[v] = phase[v]
  BY <1>1, <1>3, ServiceSteps, WorkerNames
<1>7. QED
  BY <1>1, <1>2, <1>5, <1>6 DEF Answering

\* A question is read once, and only by who answers it.
LEMMA AskedKeep == ForkIInv /\ Asked /\ [ForkNext]_forkVars => Asked'
<1> SUFFICES ASSUME ForkIInv, Asked, [ForkNext]_forkVars PROVE Asked'
  OBVIOUS
<1>1. \A c \in Browsers :
         /\ browser[c] \in {"off", "connected"} => ~request[c] /\ ~Answering(c) /\ answered[c] = 0
         /\ request[c] => ~Answering(c) /\ answered[c] = 0
  BY DEF Asked
<1>2. ASSUME NEW c \in Browsers, BrowserStep(c) PROVE Asked'
  <2>1. \A d \in Browsers : Answering(d)' <=> Answering(d)
    BY <1>2, AnsweringStays
  <2>2. ASSUME NEW d \in Browsers
        PROVE  /\ browser'[d] \in {"off", "connected"} => ~request'[d] /\ ~Answering(d) /\ answered'[d] = 0
               /\ request'[d] => ~Answering(d) /\ answered'[d] = 0
    BY <1>1, <1>2, BrowserSteps
  <2>3. QED
    BY <2>1, <2>2 DEF Asked
<1>3. CASE ParentStep \/ ParentForkFails
  <2>1. UNCHANGED <<browser, request, answered>>
    BY <1>3, AcceptSteps, ParentSteps DEF ParentStep
  <2>2. \A d \in Browsers : Answering(d)' <=> Answering(d)
    BY <1>3, AnsweringStays
  <2>3. QED
    BY <1>1, <2>1, <2>2 DEF Asked
<1>4. ASSUME NEW c \in Browsers, ChildCloseListener(c) \/ ChildFork(c) \/ ChildForkFails(c)
      PROVE  Asked'
  <2>1. UNCHANGED <<browser, request, answered>>
    BY <1>4, ChildSteps
  <2>2. \A d \in Browsers : Answering(d)' <=> Answering(d)
    BY <1>4, AnsweringStays
  <2>3. QED
    BY <1>1, <2>1, <2>2 DEF Asked
<1>5. ASSUME NEW w \in Workers,
             \/ WorkerRecv(w) \/ WorkerRecvEnd(w) \/ WorkerSend(w)
             \/ WorkerKilled(w) \/ WorkerClose(w) \/ Exit(w)
      PROVE  Asked'
  <2> DEFINE c == w[2]
  <2>1. /\ c \in Browsers /\ browser' = browser
        /\ DOMAIN request = Browsers /\ DOMAIN answered = Browsers
    BY <1>5, ServiceSteps, WorkerNames, ForkFunctions
  <2> HIDE DEF c
  <2>2. \A d \in Browsers \ {c} : Answering(d)' <=> Answering(d)
    BY <1>5, AnsweringMoves DEF c
  <2>3. \A d \in Browsers \ {c} : request'[d] = request[d] /\ answered'[d] = answered[d]
    BY <1>5, <2>1 DEF WorkerRecv, WorkerRecvEnd, WorkerSend, WorkerKilled, WorkerClose, Exit, browserVars, c
  <2>4. /\ browser[c] \in {"off", "connected"} => ~request'[c] /\ ~Answering(c)' /\ answered'[c] = 0
        /\ request'[c] => ~Answering(c)' /\ answered'[c] = 0
    <3>1. CASE WorkerRecv(w)
      <4>1. request[c] /\ ~request'[c]
        BY <2>1, <3>1 DEF WorkerRecv, c
      <4>2. QED
        BY <1>1, <2>1, <4>1
    <3>2. CASE WorkerRecvEnd(w)
      <4>1. phase[w] = "recv" /\ phase'[w] = "close" /\ UNCHANGED <<request, answered>>
        BY <3>2, ForkFunctions DEF WorkerRecvEnd, Goto, browserVars
      <4>2. ~Answering(c)'
        BY <1>5, <4>1, AnsweringMoves DEF c
      <4>3. QED
        BY <1>1, <2>1, <4>1, <4>2
    <3>3. CASE WorkerSend(w)
      <4>1. phase[w] = "send" /\ request' = request
        BY <3>3 DEF WorkerSend, Goto
      <4>2. Answering(c)
        BY <1>5, <4>1, AnsweringMoves DEF c
      <4>3. QED
        BY <1>1, <2>1, <4>1, <4>2
    <3>4. CASE WorkerKilled(w)
      <4>1. phase[w] = "send" /\ UNCHANGED <<request, answered>>
        BY <3>4 DEF WorkerKilled, Goto, browserVars
      <4>2. Answering(c)
        BY <1>5, <4>1, AnsweringMoves DEF c
      <4>3. QED
        BY <1>1, <2>1, <4>1, <4>2
    <3>5. CASE WorkerClose(w) \/ Exit(w)
      <4>1. phase[w] \in {"close", "exit"} /\ UNCHANGED <<request, answered>>
        BY <3>5 DEF WorkerClose, Exit, Goto, browserVars
      <4>2. Answering(c)' <=> Answering(c)
        BY <1>5, <4>1, AnsweringMoves DEF c
      <4>3. QED
        BY <1>1, <2>1, <4>1, <4>2
    <3>6. QED
      BY <1>5, <3>1, <3>2, <3>3, <3>4, <3>5
  <2>5. ASSUME NEW d \in Browsers \ {c}
        PROVE  /\ browser'[d] \in {"off", "connected"} => ~request'[d] /\ ~Answering(d)' /\ answered'[d] = 0
               /\ request'[d] => ~Answering(d)' /\ answered'[d] = 0
    BY <1>1, <2>1, <2>2, <2>3
  <2>6. QED
    BY <2>1, <2>4, <2>5 DEF Asked
<1>6. CASE UNCHANGED forkVars
  BY <1>1, <1>6 DEF forkVars, browserVars, Asked, Answering
<1>7. QED
  BY <1>2, <1>3, <1>4, <1>5, <1>6 DEF ForkNext, WorkerStep

\* A connection is handed on from process to process until its client is content.
LEMMA ServedKeep == ForkIInv /\ Served /\ [ForkNext]_forkVars => Served'
<1> SUFFICES ASSUME ForkIInv, Served, [ForkNext]_forkVars PROVE Served'
  OBVIOUS
<1> DEFINE Waits(c) == Here(c) /\ c \notin Range(pending) /\ answered[c] = 0
           Serves(c) == \/ phase[Child(c)] \in {"start", "fork", "recv", "send"}
                        \/ phase[Grandchild(c)] \in {"recv", "send"}
           Held(c) == cur = c /\ parent = "fork"
<1> USE DEF Here
<1>1. \A c \in Browsers : Waits(c) => Held(c) \/ Serves(c) \/ LetDown(c)
  BY DEF Served
<1>2. SUFFICES \A c \in Browsers : Waits(c)' => Held(c)' \/ Serves(c)' \/ LetDown(c)'
  BY DEF Served
<1>3. ASSUME NEW b \in Browsers, BrowserStep(b) PROVE \A c \in Browsers : Waits(c)' => Held(c)' \/ Serves(c)' \/ LetDown(c)'
  <2>1. \A c \in Browsers : Waits(c)' => Waits(c)
    BY <1>3, BrowserSteps
  <2>2. UNCHANGED <<answered, parent, cur, phase>>
    BY <1>3, BrowserSteps
  <2>3. \A c \in Browsers : LetDown(c)' <=> LetDown(c)
    BY <2>2 DEF LetDown, Untouched
  <2>4. QED
    BY <1>1, <2>1, <2>2, <2>3
<1>4. CASE ParentAccept
  <2>1. parent = "accept" /\ parent' = "fork" /\ UNCHANGED <<browser, answered, phase>>
    BY <1>4, AcceptSteps
  <2>2. ASSUME NEW c \in Browsers, c = Head(pending) PROVE Held(c)'
    BY <1>4, <2>2, AcceptSteps
  <2>3. ASSUME NEW c \in Browsers, c # Head(pending), Waits(c)' PROVE Serves(c)'
    <3>1. Waits(c)
      BY <1>4, <2>3, AcceptSteps
    <3>2. QED
      BY <1>1, <2>1, <3>1 DEF LetDown
  <2>4. QED
    BY <2>2, <2>3
<1>9. CASE ParentForkFails
  <2>1. /\ parent = "fork" /\ parent' = "dead" /\ UNCHANGED <<browser, answered, phase>>
    BY <1>9, ParentSteps DEF ParentForkFails
  <2>2. \A c \in Browsers : Untouched(c)' <=> Untouched(c)
    BY <2>1 DEF Untouched
  <2>3. ASSUME NEW c \in Browsers, c \in Range(pending) PROVE LetDown(c)'
    BY <2>1, <2>2, <2>3 DEF ForkIInv, Pending, LetDown
  <2>4. ASSUME NEW c \in Browsers, c \notin Range(pending), Waits(c)' PROVE Serves(c)' \/ LetDown(c)'
    <3>1. Held(c) \/ Serves(c)
      BY <1>1, <2>1, <2>4 DEF LetDown
    <3>2. Held(c) => LetDown(c)'
      BY <2>1, <2>2 DEF ForkIInv, OneChild, LetDown
    <3>3. QED
      BY <2>1, <3>1, <3>2
  <2>5. QED
    BY <2>3, <2>4
<1>5. CASE ParentFork \/ ParentClose \/ ParentWait
  <2>1. \A c \in Browsers : (Waits(c)' <=> Waits(c)) /\ ~LetDown(c)
    <3>1. parent # "dead" /\ ~ParentForkFails
      BY <1>5 DEF ParentFork, ParentClose, ParentWait, ParentForkFails
    <3>2. QED
      BY <1>5, <3>1, ParentSteps DEF LetDown
  <2>2. PICK k \in Browsers : /\ k = cur
                              /\ \A w \in Workers \ {Child(k)} : phase'[w] = phase[w]
    BY <1>5, ParentSteps
  <2>3. ASSUME NEW c \in Browsers \ {k} PROVE ~Held(c) /\ (Serves(c)' <=> Serves(c))
    BY <2>2, WorkerNames
  <2>4. Held(k) \/ Serves(k) => Held(k)' \/ Serves(k)'
    <3>1. phase'[Grandchild(k)] = phase[Grandchild(k)]
      BY <2>2, WorkerNames
    <3>2. CASE parent = "fork"
      <4>1. phase'[Child(k)] = "start"
        BY <1>5, <2>2, <3>2, ParentSteps DEF ParentFork, ParentClose, ParentWait
      <4>2. QED
        BY <4>1
    <3>3. CASE parent # "fork"
      <4>1. /\ parent \in {"close", "wait"}
            /\ phase[Child(k)] \in {"start", "fork", "recv", "send"} => phase'[Child(k)] = phase[Child(k)]
        BY <1>5, <2>2, <3>3, ParentSteps
      <4>2. QED
        BY <3>1, <4>1
    <3>4. QED
      BY <3>2, <3>3
  <2>5. QED
    BY <1>1, <2>1, <2>3, <2>4
<1>6. ASSUME NEW b \in Browsers, ChildCloseListener(b) \/ ChildFork(b) \/ ChildForkFails(b)
      PROVE  \A c \in Browsers : Waits(c)' => Held(c)' \/ Serves(c)' \/ LetDown(c)'
  <2>1. UNCHANGED <<browser, answered, pending, parent, cur>>
    BY <1>6, ChildSteps
  <2>2. Serves(b)'
    BY <1>6, ChildSteps
  <2>3. \A c \in Browsers \ {b} : Serves(c)' <=> Serves(c)
    BY <1>6, ChildSteps, WorkerNames
  <2>4. \A c \in Browsers \ {b} : LetDown(c)' <=> LetDown(c)
    BY <1>6, <2>1, ChildSteps, WorkerNames DEF LetDown, Untouched
  <2>5. QED
    BY <1>1, <2>1, <2>2, <2>3, <2>4
<1>7. ASSUME NEW w \in Workers,
             \/ WorkerRecv(w) \/ WorkerRecvEnd(w) \/ WorkerSend(w)
             \/ WorkerKilled(w) \/ WorkerClose(w) \/ Exit(w)
      PROVE  \A c \in Browsers : Waits(c)' => Held(c)' \/ Serves(c)' \/ LetDown(c)'
  <2>1. /\ UNCHANGED <<browser, pending, parent, cur>> /\ w[2] \in Browsers
        /\ w = Child(w[2]) \/ w = Grandchild(w[2])
        /\ \A v \in Workers \ {w} : phase'[v] = phase[v]
        /\ DOMAIN answered = Browsers /\ DOMAIN phase = Workers
    BY <1>7, ServiceSteps, WorkerNames, ForkFunctions
  <2>2. \A c \in Browsers \ {w[2]} : (Serves(c)' <=> Serves(c)) /\ answered'[c] = answered[c]
    <3>1. \A c \in Browsers \ {w[2]} : Serves(c)' <=> Serves(c)
      BY <2>1, WorkerNames
    <3>2. \A c \in Browsers \ {w[2]} : answered'[c] = answered[c]
      BY <1>7, <2>1 DEF WorkerRecv, WorkerRecvEnd, WorkerSend, WorkerKilled, WorkerClose, Exit, browserVars
    <3>3. QED
      BY <3>1, <3>2
  <2>3. Waits(w[2])' => Held(w[2])' \/ Serves(w[2])'
    <3>1. CASE WorkerRecv(w)
      <4>1. phase'[w] = "send"
        BY <2>1, <3>1 DEF WorkerRecv, Goto
      <4>2. QED
        BY <2>1, <4>1
    <3>2. CASE WorkerRecvEnd(w) \/ WorkerKilled(w)
      <4>1. browser[w[2]] = "gone"
        BY <3>2 DEF WorkerRecvEnd, WorkerKilled
      <4>2. QED
        BY <2>1, <4>1
    <3>3. CASE WorkerSend(w)
      <4>1. phase[w] = "send" /\ answered' = [answered EXCEPT ![w[2]] = @ + 1]
        BY <3>3 DEF WorkerSend, Goto
      <4>2. answered[w[2]] = 0
        BY <2>1, <4>1 DEF ForkIInv, OneService
      <4>3. answered'[w[2]] = 1
        BY <2>1, <4>1, <4>2
      <4>4. QED
        BY <4>3
    <3>4. CASE WorkerClose(w) \/ Exit(w)
      <4>1. phase[w] \in {"close", "exit"} /\ answered' = answered
        BY <3>4 DEF WorkerClose, Exit, Goto, browserVars
      <4>2. Serves(w[2]) => Serves(w[2])'
        BY <2>1, <4>1, WorkerNames
      <4>3. ~LetDown(w[2])
        BY <2>1, <4>1 DEF LetDown, Untouched
      <4>4. QED
        BY <1>1, <2>1, <4>1, <4>2, <4>3
    <3>5. QED
      BY <1>7, <3>1, <3>2, <3>3, <3>4
  <2>4. \A c \in Browsers \ {w[2]} : LetDown(c)' <=> LetDown(c)
    BY <2>1, <2>2, WorkerNames DEF LetDown, Untouched
  <2>5. QED
    BY <1>1, <2>1, <2>2, <2>3, <2>4
<1>8. CASE UNCHANGED forkVars
  BY <1>1, <1>8 DEF forkVars, browserVars, LetDown, Untouched
<1>10. QED
  BY <1>3, <1>4, <1>5, <1>6, <1>7, <1>8, <1>9 DEF ForkNext, ParentStep, WorkerStep

----------------------------------------------------------------------------
(* The refinement of OneShotService                                         *)

\* Where the abstract service sees a connection.
LEMMA SeenWhere ==
    ASSUME ForkIInv, Copies, NEW c \in Browsers
    PROVE  /\ browser[c] = "off" => Seen(c) = "away"
           /\ c \in Range(pending) => Seen(c) = "waiting"
           /\ browser[c] # "off" /\ c \notin Range(pending) =>
                 Seen(c) = IF Open(c) THEN "open" ELSE "ended"
BY DEF ForkIInv, Pending, Seen, Open

\* One connection moves from one state that the clients see to another.
LEMMA SeenMoves ==
    ASSUME NEW c \in Browsers, NEW old, NEW new, Seen(c) = old, Seen(c)' = new,
           \A d \in Browsers \ {c} : Seen(d)' = Seen(d)
    PROVE  ForkService!Move(c, old, new)
<1>1. [d \in Browsers |-> Seen(d)]' = [[d \in Browsers |-> Seen(d)] EXCEPT ![c] = new]
  <2>1. [d \in Browsers |-> Seen(d)]' = [d \in Browsers |-> IF d = c THEN new ELSE Seen(d)]
    OBVIOUS
  <2>2. [[d \in Browsers |-> Seen(d)] EXCEPT ![c] = new] = [d \in Browsers |-> IF d = c THEN new ELSE Seen(d)]
    OBVIOUS
  <2>3. QED
    BY <2>1, <2>2
<1>2. QED
  BY <1>1 DEF ForkService!Move

\* The other variables of the abstract service that a step of one client changes.
LEMMA HereMoves ==
    ASSUME NEW c \in Browsers, NEW b \in BOOLEAN, Here(c)' = b,
           \A d \in Browsers \ {c} : Here(d)' = Here(d)
    PROVE  [d \in Browsers |-> Here(d)]' = [[d \in Browsers |-> Here(d)] EXCEPT ![c] = b]
OBVIOUS

\* The same for the questions.
LEMMA QuestionMoves ==
    ASSUME NEW c \in Browsers, NEW b \in BOOLEAN, Question(c)' = b,
           \A d \in Browsers \ {c} : Question(d)' = Question(d)
    PROVE  [d \in Browsers |-> Question(d)]' = [[d \in Browsers |-> Question(d)] EXCEPT ![c] = b]
OBVIOUS

\* What the clients see does not change unless a connection does.
LEMMA ServiceStutters ==
    ASSUME UNCHANGED pending, parent' = "dead" <=> parent = "dead",
           \A d \in Browsers : /\ Here(d)' = Here(d)
                               /\ Question(d)' = Question(d)
                               /\ answered'[d] = answered[d]
                               /\ Seen(d)' = Seen(d)
    PROVE  UNCHANGED ForkService!oneShotVars
<1>1. UNCHANGED (parent # "dead")
  OBVIOUS
<1>2. UNCHANGED [c \in Browsers |-> Seen(c)]
  OBVIOUS
<1>3. UNCHANGED <<[c \in Browsers |-> Here(c)], [c \in Browsers |-> Question(c)],
                  [c \in Browsers |-> answered[c] = 1]>>
  OBVIOUS
<1>4. QED
  BY <1>1, <1>2, <1>3 DEF ForkService!oneShotVars

\* What a client sees depends on three facts about its connection.
LEMMA SeenSame ==
    ASSUME NEW d \in Browsers, browser'[d] = "off" <=> browser[d] = "off",
           d \in Range(pending)' <=> d \in Range(pending), Open(d)' <=> Open(d)
    PROVE  Seen(d)' = Seen(d)
BY DEF Seen

\* Only a connection that was accepted has open copies, and who has them.
LEMMA OpenAccepted ==
    ASSUME ForkIInv, Copies, NEW c \in Browsers, Open(c)
    PROVE  /\ browser[c] # "off" /\ c \notin Range(pending) /\ Seen(c) = "open"
           /\ ~LetDown(c)
<1>1. PICK p \in Processes : c \in held[p]
  BY DEF Open
<1>2. /\ c # ListenSocket /\ c # Nobody
      /\ \A w \in Workers : /\ held[w] \subseteq {ListenSocket, w[2]}
                            /\ phase[w] = "none" => held[w] = {}
      /\ parent = "dead" => held[Parent] = {}
      /\ parent \in {"accept", "fork", "close", "wait", "dead"}
  BY ServerAssumption DEF Copies, ForkIInv, ForkTypeOK
<1>3. p \in Workers \/ (p = Parent /\ cur = c /\ parent \in {"fork", "close"})
  BY <1>1, <1>2 DEF ForkIInv, OneChild, Processes
<1>4. p \in Workers => (p = Child(c) \/ p = Grandchild(c)) /\ phase[p] # "none"
  BY <1>1, <1>2, WorkerNames
<1>5. browser[c] # "off" /\ c \notin Range(pending)
  BY <1>3, <1>4 DEF ForkIInv, Pending, Untouched
<1>6. ~LetDown(c)
  BY <1>3, <1>4 DEF LetDown, Untouched
<1>7. QED
  BY <1>5, <1>6, SeenWhere

\* A step that only gives up copies of one connection ends it, if at all, when
\* its client has the answer or has left.
LEMMA ServiceReleases ==
    ASSUME ServiceIInv, ServiceIInv', NEW c \in Browsers,
           UNCHANGED <<browser, request, answered, pending, cur>>,
           parent' = "dead" <=> parent = "dead",
           \A d \in Browsers : Answering(d)' <=> Answering(d),
           \A d \in Browsers \ {c} : Open(d)' <=> Open(d),
           Open(c)' => Open(c), LetDown(c)' => LetDown(c)
    PROVE  ForkService!End(c) \/ UNCHANGED ForkService!oneShotVars
<1>1. \A d \in Browsers : Here(d)' = Here(d) /\ Question(d)' = Question(d)
  BY DEF Here, Question
<1>2. \A d \in Browsers \ {c} : Seen(d)' = Seen(d)
  BY SeenSame
<1>3. CASE Open(c)' <=> Open(c)
  <2>1. \A d \in Browsers : Seen(d)' = Seen(d)
    BY <1>2, <1>3, SeenSame
  <2>2. QED
    BY <1>1, <2>1, ServiceStutters
<1>4. CASE Open(c) /\ ~Open(c)'
  <2>1. /\ browser[c] # "off" /\ c \notin Range(pending) /\ Seen(c) = "open"
        /\ ~LetDown(c)
    BY <1>4, OpenAccepted DEF ServiceIInv
  <2>2. Seen(c)' = "ended"
    BY <1>4, <2>1 DEF Seen
  <2>3. ForkService!Move(c, "open", "ended")
    BY <1>2, <2>1, <2>2, SeenMoves
  <2>4. answered[c] = 1 \/ ~Here(c)
    <3>1. SUFFICES ASSUME answered[c] # 1, Here(c) PROVE FALSE
      OBVIOUS
    <3>2. Here(c)' /\ c \notin Range(pending)' /\ answered'[c] = 0
      BY <1>1, <2>1, <3>1 DEF ServiceIInv, ForkIInv, ForkTypeOK
    <3>3. \/ cur' = c /\ parent' = "fork"
          \/ phase'[Child(c)] \in {"start", "fork", "recv", "send"}
          \/ phase'[Grandchild(c)] \in {"recv", "send"}
      BY <2>1, <3>2 DEF ServiceIInv, Served
    <3>4. CASE cur' = c /\ parent' = "fork"
      <4>1. c \in held'[Parent]
        BY <3>4 DEF ServiceIInv, ForkIInv, OneChild
      <4>2. QED
        BY <1>4, <4>1, WorkerNames DEF Open, Processes
    <3>5. CASE \/ phase'[Child(c)] \in {"start", "fork", "recv", "send"}
               \/ phase'[Grandchild(c)] \in {"recv", "send"}
      <4>1. c \in held'[Child(c)] \/ c \in held'[Grandchild(c)]
        BY <3>5 DEF ServiceIInv, ForkIInv, OneService
      <4>2. QED
        BY <1>4, <4>1, WorkerNames DEF Open, Processes
    <3>6. QED
      BY <3>3, <3>4, <3>5
  <2>5. UNCHANGED <<parent # "dead", pending, [d \in Browsers |-> Here(d)],
                    [d \in Browsers |-> Question(d)], [d \in Browsers |-> answered[d] = 1]>>
    BY <1>1
  <2>6. [d \in Browsers |-> answered[d] = 1][c] \/ ~[d \in Browsers |-> Here(d)][c]
    BY <2>4
  <2>7. QED
    BY <2>3, <2>5, <2>6 DEF ForkService!End
<1>5. QED
  BY <1>3, <1>4

\* A new client waits.
LEMMA ServiceConnects ==
    ASSUME ServiceIInv, NEW c \in Browsers, BrowserConnects(c)
    PROVE  ForkService!Connect(c)
<1>1. /\ browser[c] = "off" /\ browser' = [browser EXCEPT ![c] = "connected"]
      /\ DOMAIN browser = Browsers /\ parent # "dead"
      /\ UNCHANGED <<request, answered, parent, cur, phase, held>>
      /\ pending' = Append(pending, c) /\ Range(pending') = Range(pending) \cup {c}
  <2>1. BrowserStep(c)
    BY DEF BrowserStep
  <2>2. QED
    BY <2>1, BrowserSteps, ForkFunctions DEF ServiceIInv, BrowserConnects
<1>2. /\ \A d \in Browsers : Open(d)' <=> Open(d)
      /\ \A d \in Browsers \ {c} : browser'[d] = browser[d]
  BY <1>1 DEF Open
<1>3. \A d \in Browsers \ {c} : Seen(d)' = Seen(d)
  BY <1>1, <1>2, SeenSame
<1>4. Seen(c) = "away" /\ Seen(c)' = "waiting"
  BY <1>1 DEF Seen
<1>5. ForkService!Move(c, "away", "waiting")
  BY <1>3, <1>4, SeenMoves
<1>6. [d \in Browsers |-> Here(d)]' = [[d \in Browsers |-> Here(d)] EXCEPT ![c] = TRUE]
  <2>1. Here(c)' = TRUE /\ \A d \in Browsers \ {c} : Here(d)' = Here(d)
    BY <1>1, <1>2 DEF Here
  <2>2. QED
    BY <2>1, HereMoves
<1>7. UNCHANGED <<parent # "dead", [d \in Browsers |-> Question(d)], [d \in Browsers |-> answered[d] = 1]>>
  BY <1>1 DEF Question, Answering
<1>8. QED
  BY <1>1, <1>5, <1>6, <1>7 DEF ForkService!Connect

\* A question is asked once.
LEMMA ServiceAsked ==
    ASSUME ServiceIInv, NEW c \in Browsers, BrowserAsks(c)
    PROVE  ForkService!Ask(c)
<1>1. /\ browser[c] = "connected" /\ browser' = [browser EXCEPT ![c] = "asked"]
      /\ request' = [request EXCEPT ![c] = TRUE]
      /\ DOMAIN browser = Browsers /\ DOMAIN request = Browsers
      /\ UNCHANGED <<answered, pending, parent, cur, phase, held>>
  BY ForkFunctions DEF ServiceIInv, BrowserAsks
<1>2. ~Question(c) /\ answered[c] = 0
  BY <1>1 DEF ServiceIInv, Asked, Question
<1>3. /\ \A d \in Browsers : Open(d)' <=> Open(d)
      /\ \A d \in Browsers : browser'[d] = "off" <=> browser[d] = "off"
      /\ \A d \in Browsers : Here(d)' = Here(d)
  BY <1>1 DEF Open, Here
<1>4. \A d \in Browsers : Seen(d)' = Seen(d)
  BY <1>1, <1>3, SeenSame
<1>5. [d \in Browsers |-> Question(d)]' = [[d \in Browsers |-> Question(d)] EXCEPT ![c] = TRUE]
  <2>1. Question(c)' = TRUE /\ \A d \in Browsers \ {c} : Question(d)' = Question(d)
    BY <1>1 DEF Question, Answering
  <2>2. QED
    BY <2>1, QuestionMoves
<1>6. UNCHANGED <<parent # "dead", pending, [d \in Browsers |-> Seen(d)],
                  [d \in Browsers |-> Here(d)], [d \in Browsers |-> answered[d] = 1]>>
  BY <1>1, <1>3, <1>4
<1>7. /\ [d \in Browsers |-> Here(d)][c]
      /\ ~[d \in Browsers |-> Question(d)][c]
      /\ ~[d \in Browsers |-> answered[d] = 1][c]
  <2>1. Here(c) /\ answered[c] # 1
    BY <1>1, <1>2 DEF Here
  <2>2. QED
    BY <1>2, <2>1, Zenon
<1>8. QED
  BY <1>5, <1>6, <1>7 DEF ForkService!Ask

\* A client that leaves leaves its connection as it is.
LEMMA ServiceLeft ==
    ASSUME ServiceIInv, NEW c \in Browsers, BrowserLeaves(c)
    PROVE  ForkService!Leave(c)
<1>1. /\ browser[c] \in {"connected", "asked"} /\ browser' = [browser EXCEPT ![c] = "gone"]
      /\ DOMAIN browser = Browsers
      /\ UNCHANGED <<request, answered, pending, parent, cur, phase, held>>
  BY ForkFunctions DEF ServiceIInv, BrowserLeaves
<1>2. /\ \A d \in Browsers : Open(d)' <=> Open(d)
      /\ \A d \in Browsers : browser'[d] = "off" <=> browser[d] = "off"
      /\ \A d \in Browsers : Question(d)' = Question(d)
  BY <1>1 DEF Open, Question, Answering
<1>3. \A d \in Browsers : Seen(d)' = Seen(d)
  BY <1>1, <1>2, SeenSame
<1>4. [d \in Browsers |-> Here(d)]' = [[d \in Browsers |-> Here(d)] EXCEPT ![c] = FALSE]
  <2>1. Here(c)' = FALSE /\ \A d \in Browsers \ {c} : Here(d)' = Here(d)
    BY <1>1 DEF Here
  <2>2. QED
    BY <2>1, HereMoves
<1>5. UNCHANGED <<parent # "dead", pending, [d \in Browsers |-> Seen(d)],
                  [d \in Browsers |-> Question(d)], [d \in Browsers |-> answered[d] = 1]>>
  BY <1>1, <1>2, <1>3
<1>6. Here(c)
  BY <1>1 DEF Here
<1>7. QED
  BY <1>4, <1>5, <1>6 DEF ForkService!Leave

\* accept() opens the connection that has waited longest.
LEMMA ServiceAccepts ==
    ASSUME ServiceIInv, ParentAccept
    PROVE  \E c \in Browsers : ForkService!Accept(c)
<1>1. PICK c \in Browsers : c = Head(pending)
  BY AcceptSteps DEF ServiceIInv
<1>2. /\ UNCHANGED <<browser, request, answered, phase>>
      /\ parent # "dead" /\ parent' # "dead"
      /\ pending # <<>> /\ pending' = Tail(pending)
      /\ c \in Range(pending) /\ Range(pending') = Range(pending) \ {c}
      /\ held[Parent] = {ListenSocket} /\ held'[Parent] = {ListenSocket, c}
      /\ \A w \in Workers : held'[w] = held[w]
  BY <1>1, AcceptSteps DEF ServiceIInv
<1>3. browser[c] # "off" /\ ListenSocket \notin Browsers
  BY <1>2, ServerAssumption DEF ServiceIInv, ForkIInv, Pending
<1>4. Open(c)' /\ \A d \in Browsers \ {c} : Open(d)' <=> Open(d)
  BY <1>2, <1>3 DEF Open, Processes
<1>5. \A d \in Browsers \ {c} : Seen(d)' = Seen(d)
  BY <1>2, <1>4, SeenSame
<1>6. Seen(c) = "waiting" /\ Seen(c)' = "open"
  BY <1>2, <1>3, <1>4 DEF Seen
<1>7. ForkService!Move(c, "waiting", "open")
  BY <1>5, <1>6, SeenMoves
<1>8. UNCHANGED <<parent # "dead", [d \in Browsers |-> Here(d)],
                  [d \in Browsers |-> Question(d)], [d \in Browsers |-> answered[d] = 1]>>
  BY <1>2 DEF Here, Question, Answering
<1>9. ForkService!Accept(c)
  BY <1>1, <1>2, <1>7, <1>8 DEF ForkService!Accept
<1>10. QED
  BY <1>9

\* When the accepting process cannot fork it has the only copy of the listening
\* socket: every process that it forked before has closed its own.
LEMMA LastListener ==
    ASSUME ForkIInv, Copies, parent = "fork"
    PROVE  \A p \in Processes \ {Parent} : ListenSocket \notin held[p]
<1>1. ASSUME NEW w \in Workers PROVE phase[w] # "start"
  <2>1. w = Child(w[2]) \/ w = Grandchild(w[2])
    BY WorkerNames
  <2>2. QED
    BY <2>1, WorkerNames DEF ForkIInv, OneChild, OneService, Untouched
<1>2. QED
  BY <1>1 DEF Copies, Processes

\* A server that cannot fork ends the connection it has just accepted and those in
\* the backlog, and no other.
LEMMA ServiceGivesUp ==
    ASSUME ServiceIInv, ParentForkFails
    PROVE  \E c \in Browsers : ForkService!GiveUp(c)
<1>1. PICK c \in Browsers : /\ c = cur /\ parent = "fork" /\ parent' = "dead"
                            /\ UNCHANGED <<browser, request, answered, phase>>
                            /\ pending' = <<>> /\ c \notin Range(pending)
                            /\ phase[Child(c)] = "none" /\ phase[Grandchild(c)] = "none"
                            /\ held[Parent] = {ListenSocket, c} /\ held'[Parent] = {}
                            /\ \A w \in Workers : held'[w] = held[w]
  BY ParentSteps, WorkerNames DEF ServiceIInv, ParentForkFails
<1>2. /\ ListenSocket \notin Browsers
      /\ \A w \in Workers : /\ held[w] \subseteq {ListenSocket, w[2]}
                            /\ phase[w] = "none" => held[w] = {}
  BY ServerAssumption DEF ServiceIInv, Copies
<1>3. Open(c) /\ answered[c] = 0
  BY <1>1, WorkerNames DEF Open, ServiceIInv, ForkIInv, OneChild, Untouched
<1>4. ~Open(c)'
  BY <1>1, <1>2, WorkerNames DEF Open, Processes
<1>5. \A d \in Browsers \ {c} : Open(d)' <=> Open(d)
  BY <1>1, <1>2 DEF Open, Processes
<1>6. Seen(c) = "open" /\ browser[c] # "off"
  BY <1>3, OpenAccepted DEF ServiceIInv
<1>7. Range(pending') = {}
  BY <1>1 DEF Range
<1>8. \A d \in Browsers : Seen(d)' = IF d = c \/ Seen(d) = "waiting" THEN "ended" ELSE Seen(d)
  <2>1. Seen(c)' = "ended"
    BY <1>1, <1>4, <1>6, <1>7 DEF Seen
  <2>2. ASSUME NEW d \in Browsers \ {c}, d \in Range(pending)
        PROVE  Seen(d) = "waiting" /\ Seen(d)' = "ended"
    <3>1. browser[d] # "off" /\ ~Open(d)
      BY <2>2, OpenAccepted DEF ServiceIInv, ForkIInv, Pending
    <3>2. QED
      BY <1>1, <1>5, <1>7, <2>2, <3>1 DEF Seen
  <2>3. ASSUME NEW d \in Browsers \ {c}, d \notin Range(pending)
        PROVE  Seen(d) # "waiting" /\ Seen(d)' = Seen(d)
    BY <1>1, <1>5, <1>7, <2>3 DEF Seen
  <2>4. QED
    BY <2>1, <2>2, <2>3
<1>9. [d \in Browsers |-> Seen(d)]' =
         [d \in Browsers |-> IF d = c \/ [e \in Browsers |-> Seen(e)][d] = "waiting"
                            THEN "ended" ELSE [e \in Browsers |-> Seen(e)][d]]
  BY <1>8
<1>10. UNCHANGED <<[d \in Browsers |-> Here(d)],
                   [d \in Browsers |-> Question(d)], [d \in Browsers |-> answered[d] = 1]>>
  BY <1>1 DEF Here, Question, Answering
<1>11. (parent # "dead") /\ (parent # "dead")' = FALSE
  BY <1>1
<1>12. [d \in Browsers |-> Seen(d)][c] = "open" /\ ~[d \in Browsers |-> answered[d] = 1][c]
  <2>1. answered[c] # 1
    BY <1>3
  <2>2. QED
    BY <1>6, <2>1, Zenon
<1>13. ForkService!GiveUp(c)
  BY <1>1, <1>9, <1>10, <1>11, <1>12 DEF ForkService!GiveUp
<1>14. QED
  BY <1>13

\* The accepting process hands the connection to its child, and closes its copy.
LEMMA ServiceHandsOn ==
    ASSUME ServiceIInv, ServiceIInv', ParentFork \/ ParentClose \/ ParentWait
    PROVE  (\E c \in Browsers : ForkService!End(c)) \/ UNCHANGED ForkService!oneShotVars
<1>1. PICK c \in Browsers :
         /\ c = cur
         /\ UNCHANGED <<browser, request, answered, pending>>
         /\ parent # "dead" /\ parent' # "dead"
         /\ \A w \in Workers \ {Child(c)} : held'[w] = held[w]
         /\ \/ /\ cur' = cur /\ held[Parent] = {ListenSocket, c} /\ held'[Parent] = held[Parent]
               /\ held'[Child(c)] = {ListenSocket, c}
            \/ /\ cur' = cur /\ held[Parent] = {ListenSocket, c} /\ held'[Parent] = {ListenSocket}
               /\ held'[Child(c)] = held[Child(c)]
            \/ held' = held
  <2>1. parent' # "dead"
    BY DEF ParentFork, ParentClose, ParentWait
  <2>2. QED
    BY <2>1, ParentSteps DEF ServiceIInv
<1>2. \A d \in Browsers : Answering(d)' <=> Answering(d)
  BY AnsweringStays DEF ServiceIInv, ParentStep
<1>3. held[Child(c)] \subseteq {ListenSocket, c} /\ ListenSocket \notin Browsers
  BY ServerAssumption, WorkerNames DEF ServiceIInv, Copies
<1>4. \A d \in Browsers \ {c} : Open(d)' <=> Open(d)
  BY <1>1, <1>3, WorkerNames DEF Open, Processes
<1>5. Open(c)' => Open(c)
  BY <1>1, WorkerNames DEF Open, Processes
<1>6. CASE UNCHANGED cur
  <2>1. ~LetDown(c)'
    BY <1>1 DEF LetDown
  <2>2. QED
    BY <1>1, <1>2, <1>4, <1>5, <1>6, <2>1, ServiceReleases
<1>7. CASE held' = held
  <2>1. \A d \in Browsers : Seen(d)' = Seen(d) /\ Here(d)' = Here(d) /\ Question(d)' = Question(d)
    BY <1>1, <1>2, <1>7 DEF Seen, Open, Here, Question
  <2>2. QED
    BY <1>1, <2>1, ServiceStutters
<1>8. QED
  BY <1>1, <1>6, <1>7

\* The child hands it to the grandchild.
LEMMA ServiceForks ==
    ASSUME ServiceIInv, ServiceIInv', NEW c \in Browsers,
           ChildCloseListener(c) \/ ChildFork(c) \/ ChildForkFails(c)
    PROVE  ForkService!End(c) \/ UNCHANGED ForkService!oneShotVars
<1>1. /\ UNCHANGED <<browser, request, answered, pending, parent, cur>>
      /\ \A w \in Workers : w[2] # c => held'[w] = held[w]
      /\ held'[Parent] = held[Parent]
      /\ c \in held[Child(c)] /\ held[Child(c)] \subseteq {ListenSocket, c}
      /\ c \in held'[Child(c)]
      /\ ListenSocket \notin Browsers
  BY ChildSteps, ServerAssumption DEF ServiceIInv
<1>2. \A d \in Browsers : Answering(d)' <=> Answering(d)
  BY AnsweringStays DEF ServiceIInv
<1>3. \A w \in Workers : /\ held[w] \subseteq {ListenSocket, w[2]}
                         /\ held'[w] \subseteq {ListenSocket, w[2]}
  BY DEF ServiceIInv, Copies
<1>4. \A d \in Browsers \ {c} : Open(d)' <=> Open(d)
  BY <1>1, <1>3 DEF Open, Processes
<1>5. Open(c)' => Open(c)
  BY <1>1, WorkerNames DEF Open
<1>6. ~LetDown(c)'
  BY ChildSteps DEF ServiceIInv, LetDown, Untouched
<1>7. QED
  BY <1>1, <1>2, <1>4, <1>5, <1>6, ServiceReleases

\* The steps of a service.
LEMMA ServiceServes ==
    ASSUME ServiceIInv, ServiceIInv', NEW w \in Workers,
           \/ WorkerRecv(w) \/ WorkerRecvEnd(w) \/ WorkerSend(w)
           \/ WorkerKilled(w) \/ WorkerClose(w) \/ Exit(w)
    PROVE  (\E c \in Browsers : \/ ForkService!Answer(c) \/ ForkService!Forget(c)
                                \/ ForkService!End(c))
              \/ UNCHANGED ForkService!oneShotVars
<1>1. PICK c \in Browsers : c = w[2] /\ (w = Child(c) \/ w = Grandchild(c))
  BY WorkerNames
<1>2. /\ UNCHANGED <<browser, pending, parent, cur>>
      /\ \A p \in Processes \ {w} : held'[p] = held[p]
      /\ held'[w] = held[w] \/ held'[w] = held[w] \ {c} \/ held'[w] = {}
      /\ held[w] \subseteq {ListenSocket, c} /\ ListenSocket \notin Browsers
      /\ w \in Processes
      /\ DOMAIN request = Browsers /\ answered \in [Browsers -> 0 .. 1] /\ DOMAIN phase = Workers
  BY <1>1, ServiceSteps, ForkFunctions, WorkerNames DEF ServiceIInv, Copies, ForkIInv, ForkTypeOK
<1>3. /\ \A d \in Browsers \ {c} : Answering(d)' <=> Answering(d)
      /\ phase[w] = "send" => Answering(c) /\ ~Answering(c)'
      /\ phase[w] = "recv" => ~Answering(c) /\ (Answering(c)' <=> phase'[w] = "send")
      /\ phase[w] \in {"close", "exit"} => (Answering(c)' <=> Answering(c))
  BY <1>1, AnsweringMoves DEF ServiceIInv
<1>4. \A d \in Browsers : Here(d)' = Here(d)
  BY <1>2 DEF Here
<1>5. (\A d \in Browsers \ {c} : Open(d)' <=> Open(d)) /\ (Open(c)' => Open(c))
  BY <1>2 DEF Open
<1>6. CASE held' = held
  <2>1. \A d \in Browsers : Seen(d)' = Seen(d)
    BY <1>2, <1>6 DEF Seen, Open
  <2>2. UNCHANGED <<parent # "dead", pending, [d \in Browsers |-> Seen(d)], [d \in Browsers |-> Here(d)]>>
    BY <1>2, <1>4, <2>1
  <2>3. CASE WorkerRecv(w)
    <3>1. /\ request[c] /\ request' = [request EXCEPT ![c] = FALSE] /\ answered' = answered
          /\ phase[w] = "recv" /\ phase'[w] = "send"
      BY <1>1, <1>2, <2>3 DEF WorkerRecv, Goto
    <3>2. Question(c)' = TRUE /\ Question(c) = TRUE
      BY <1>3, <3>1 DEF Question, Answering
    <3>3. \A d \in Browsers \ {c} : Question(d)' = Question(d)
      BY <1>2, <1>3, <3>1 DEF Question, Answering
    <3>4. QED
      BY <1>2, <1>4, <2>1, <3>1, <3>2, <3>3, ServiceStutters
  <2>4. CASE WorkerRecvEnd(w)
    <3>1. /\ UNCHANGED <<request, answered>> /\ phase[w] = "recv" /\ phase'[w] = "close"
      BY <1>2, <2>4 DEF WorkerRecvEnd, Goto, browserVars
    <3>2. \A d \in Browsers : Question(d)' = Question(d)
      BY <1>3, <3>1 DEF Question, Answering
    <3>3. QED
      BY <1>2, <1>4, <2>1, <3>1, <3>2, ServiceStutters
  <2>5. CASE WorkerSend(w) \/ WorkerKilled(w)
    <3>1. /\ phase[w] = "send" /\ request' = request /\ held[w] = {c} /\ answered[c] = 0
          /\ Question(c) /\ ~request[c]
      <4>1. phase[w] = "send" /\ request' = request
        BY <2>5 DEF WorkerSend, WorkerKilled, Goto, browserVars
      <4>2. held[w] = {c} /\ answered[c] = 0
        BY <1>1, <4>1 DEF ServiceIInv, ForkIInv, OneService
      <4>3. Question(c) /\ ~request[c]
        BY <1>3, <4>1 DEF ServiceIInv, Asked, Question
      <4>4. QED
        BY <4>1, <4>2, <4>3
    <3>2. [d \in Browsers |-> Question(d)]' = [[d \in Browsers |-> Question(d)] EXCEPT ![c] = FALSE]
      <4>1. Question(c)' = FALSE
        BY <1>3, <3>1 DEF Question
      <4>2. \A d \in Browsers \ {c} : Question(d)' = Question(d)
        BY <1>3, <3>1 DEF Question, Answering
      <4>3. QED
        BY <4>1, <4>2, QuestionMoves
    <3>3. CASE WorkerKilled(w)
      <4>1. ~[d \in Browsers |-> Here(d)][c] /\ [d \in Browsers |-> Question(d)][c]
        BY <1>1, <3>1, <3>3 DEF WorkerKilled, Here
      <4>2. UNCHANGED [d \in Browsers |-> answered[d] = 1]
        BY <3>3 DEF WorkerKilled, browserVars
      <4>3. ForkService!Forget(c)
        BY <2>2, <3>2, <4>1, <4>2 DEF ForkService!Forget
      <4>4. QED
        BY <4>3
    <3>4. CASE WorkerSend(w)
      <4>1. answered'[c] = 1 /\ \A d \in Browsers \ {c} : answered'[d] = answered[d]
        BY <1>1, <1>2, <3>1, <3>4 DEF WorkerSend
      <4>2. [d \in Browsers |-> answered[d] = 1]' = [[d \in Browsers |-> answered[d] = 1] EXCEPT ![c] = TRUE]
        BY <4>1
      <4>3. Open(c)
        BY <1>2, <3>1 DEF Open
      <4>4. [d \in Browsers |-> Seen(d)][c] = "open"
        BY <4>3, OpenAccepted DEF ServiceIInv
      <4>5. [d \in Browsers |-> Question(d)][c] /\ ~[d \in Browsers |-> answered[d] = 1][c]
        <5>1. answered[c] # 1
          BY <3>1
        <5>2. QED
          BY <3>1, <5>1, Zenon
      <4>6. ForkService!Answer(c)
        BY <2>2, <3>2, <4>2, <4>4, <4>5 DEF ForkService!Answer
      <4>7. QED
        BY <4>6
    <3>5. QED
      BY <2>5, <3>3, <3>4
  <2>6. CASE WorkerClose(w) \/ Exit(w)
    <3>1. UNCHANGED <<request, answered>> /\ phase[w] \in {"close", "exit"}
      BY <2>6 DEF WorkerClose, Exit, Goto, browserVars
    <3>2. \A d \in Browsers : Answering(d)' <=> Answering(d)
      BY <1>3, <3>1
    <3>3. ~LetDown(c)'
      BY <1>1, ServiceSteps DEF ServiceIInv, LetDown, Untouched
    <3>4. QED
      BY <1>2, <1>5, <3>1, <3>2, <3>3, ServiceReleases
  <2>7. QED
    BY <2>3, <2>4, <2>5, <2>6
<1>7. CASE WorkerClose(w) \/ Exit(w)
  <2>1. UNCHANGED <<request, answered>> /\ phase[w] \in {"close", "exit"}
    BY <1>7 DEF WorkerClose, Exit, Goto, browserVars
  <2>2. \A d \in Browsers : Answering(d)' <=> Answering(d)
    BY <1>3, <2>1
  <2>3. ~LetDown(c)'
    BY <1>1, ServiceSteps DEF ServiceIInv, LetDown, Untouched
  <2>4. QED
    BY <1>2, <1>5, <2>1, <2>2, <2>3, ServiceReleases
<1>8. QED
  BY <1>6, <1>7 DEF WorkerRecv, WorkerRecvEnd, WorkerSend, WorkerKilled, browserVars

\* The invariant holds of a server that nobody has connected to ...
LEMMA ServiceInitially == ForkInit => ServiceIInv
<1> SUFFICES ASSUME ForkInit PROVE ServiceIInv
  OBVIOUS
<1>1. ForkIInv
  BY ForkInitially
<1>2. Copies
  BY WorkerNames DEF ForkInit, Copies
<1>3. Asked
  BY WorkerNames DEF ForkInit, Asked, Answering
<1>4. Served
  BY DEF ForkInit, Served, Here
<1>5. QED
  BY <1>1, <1>2, <1>3, <1>4 DEF ServiceIInv

\* ... and a step keeps it.
LEMMA ServiceInvariantKept == ServiceIInv /\ [ForkNext]_forkVars => ServiceIInv'
<1> SUFFICES ASSUME ServiceIInv, [ForkNext]_forkVars PROVE ServiceIInv'
  OBVIOUS
<1>1. ForkIInv'
  BY ForkKeeps DEF ServiceIInv
<1>2. Copies' /\ Asked' /\ Served'
  BY CopiesKeep, AskedKeep, ServedKeep DEF ServiceIInv
<1>3. QED
  BY <1>1, <1>2 DEF ServiceIInv

\* A step of the processes is a step of the service that the clients see, or none.
LEMMA ServiceStep ==
    ServiceIInv /\ ServiceIInv' /\ [ForkNext]_forkVars
        => [ForkService!Next]_(ForkService!oneShotVars)
<1> SUFFICES ASSUME ServiceIInv, ServiceIInv', [ForkNext]_forkVars
             PROVE  ForkService!Next \/ UNCHANGED ForkService!oneShotVars
  OBVIOUS
<1>1. ASSUME NEW c \in Browsers, BrowserStep(c) PROVE ForkService!Next
  <2>1. ForkService!Connect(c) \/ ForkService!Ask(c) \/ ForkService!Leave(c)
    BY <1>1, ServiceConnects, ServiceAsked, ServiceLeft DEF BrowserStep
  <2>2. QED
    BY <2>1 DEF ForkService!Next
<1>2. CASE ParentAccept
  BY <1>2, ServiceAccepts DEF ForkService!Next
<1>3. CASE ParentForkFails
  BY <1>3, ServiceGivesUp DEF ForkService!Next
<1>4. CASE ParentFork \/ ParentClose \/ ParentWait
  BY <1>4, ServiceHandsOn DEF ForkService!Next
<1>5. ASSUME NEW c \in Browsers, ChildCloseListener(c) \/ ChildFork(c) \/ ChildForkFails(c)
      PROVE  ForkService!Next \/ UNCHANGED ForkService!oneShotVars
  BY <1>5, ServiceForks DEF ForkService!Next
<1>6. ASSUME NEW w \in Workers,
             \/ WorkerRecv(w) \/ WorkerRecvEnd(w) \/ WorkerSend(w)
             \/ WorkerKilled(w) \/ WorkerClose(w) \/ Exit(w)
      PROVE  ForkService!Next \/ UNCHANGED ForkService!oneShotVars
  BY <1>6, ServiceServes DEF ForkService!Next
<1>7. CASE UNCHANGED forkVars
  <2>1. \A d \in Browsers : /\ Here(d)' = Here(d) /\ Question(d)' = Question(d)
                            /\ answered'[d] = answered[d] /\ Seen(d)' = Seen(d)
    BY <1>7 DEF forkVars, browserVars, Here, Question, Answering, Seen, Open
  <2>2. QED
    BY <1>7, <2>1, ServiceStutters DEF forkVars, browserVars
<1>8. QED
  BY <1>1, <1>2, <1>3, <1>4, <1>5, <1>6, <1>7 DEF ForkNext, ParentStep, WorkerStep

\* For any number of clients, and whichever fork() fails: every process has copies
\* of its own connection only, a question is in one place from when it is asked
\* until it is answered, and a connection that has left the backlog and whose client
\* waits for its answer is in the hands of a process that has not finished with it.
\* The exceptions are named (LetDown): when the outer fork() fails and the server
\* exits, the connection at hand and all that are in the backlog are in nobody's
\* hands; every connection for which a process had been forked still is.
THEOREM ServiceInductive == ForkSpec => []ServiceIInv
<1>1. ForkInit => ServiceIInv
  BY ServiceInitially
<1>2. ServiceIInv /\ [ForkNext]_forkVars => ServiceIInv'
  BY ServiceInvariantKept
<1>3. QED
  BY <1>1, <1>2, PTL DEF ForkSpec

\* For any number of clients, and however the steps of the processes interleave,
\* the server that forks twice is the one-shot service: first come first accepted,
\* one answer per question, no connection ended under a client that waits for its
\* answer, but those no process had been forked for when the outer fork() failed and
\* the server exited: the one it had just accepted and the whole backlog.
THEOREM ForkImplements == ForkSpec => ImplementsOneShot
<1>1. ForkInit => ForkService!Init
  <2> SUFFICES ASSUME ForkInit PROVE ForkService!Init
    OBVIOUS
  <2>1. [c \in Browsers |-> Seen(c)] = [c \in Browsers |-> "away"]
    BY DEF ForkInit, Seen
  <2>2. [c \in Browsers |-> Here(c)] = [c \in Browsers |-> FALSE]
    <3>1. \A c \in Browsers : Here(c) = FALSE
      BY DEF ForkInit, Here
    <3>2. QED
      BY <3>1
  <2>3. \A c \in Browsers : Question(c) = FALSE
    BY WorkerNames DEF ForkInit, Question, Answering
  <2>4. [c \in Browsers |-> Question(c)] = [c \in Browsers |-> FALSE]
    BY <2>3
  <2>5. [c \in Browsers |-> answered[c] = 1] = [c \in Browsers |-> FALSE]
    <3>1. \A c \in Browsers : (answered[c] = 1) = FALSE
      BY DEF ForkInit
    <3>2. QED
      BY <3>1
  <2>6. (parent # "dead") = TRUE /\ pending = <<>>
    BY DEF ForkInit
  <2>7. QED
    BY <2>1, <2>2, <2>4, <2>5, <2>6 DEF ForkService!Init
<1>2. QED
  BY <1>1, ServiceStep, ServiceInductive, PTL DEF ForkSpec, ImplementsOneShot, ForkService!Spec
==============================================================================
