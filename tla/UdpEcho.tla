------------------------------- MODULE UdpEcho -------------------------------
(***************************************************************************)
(* The echo pair of code_2026_05_22: UdpServer::Start and the loop of      *)
(* udp_client.cc, over a network that loses, duplicates and reorders       *)
(* datagrams.  Neither side retries, numbers or times out anything.        *)
(*                                                                         *)
(* A message is its number at its client; a datagram also says whose it is *)
(* and whether there is anything in it.                                    *)
(***************************************************************************)
EXTENDS Naturals, FiniteSets, Bags, BagsExt

CONSTANTS
    Senders,        \* the runs of the client program, by address
    MaxInputs,      \* bound on the lines one of them reads
    MaxDuplicates,  \* bound on the datagrams that are duplicated
    NoDatagram      \* the server has nothing to answer

ASSUME UdpAssumption == MaxInputs \in Nat /\ MaxDuplicates \in Nat

VARIABLES
    isrunning,  \* the server's _isrunning
    inbox,      \* what recvfrom() has given the server, until it is answered
    requests,   \* the datagrams on their way to the server
    answers,    \* the datagrams on their way to the clients
    input,      \* per client: "none", "text" or "empty", the last line it read
    inputs,     \* per client: the lines it has read
    blocked,    \* per client: it is in recvfrom()
    shown,      \* per client: the message that the last reply it printed answers
    lost,       \* per client: a datagram of its was lost
    duplicates  \* the datagrams duplicated so far

udpVars == <<isrunning, inbox, requests, answers, input, inputs, blocked, shown,
             lost, duplicates>>
udpServerVars == <<isrunning, inbox>>
udpClientVars == <<input, inputs, blocked, shown>>
networkVars == <<lost, duplicates>>

UdpInit ==
    /\ isrunning = TRUE
    /\ inbox = NoDatagram
    /\ requests = EmptyBag /\ answers = EmptyBag
    /\ input = [c \in Senders |-> "none"]
    /\ inputs = [c \in Senders |-> 0]
    /\ blocked = [c \in Senders |-> FALSE]
    /\ shown = [c \in Senders |-> 0]
    /\ lost = [c \in Senders |-> FALSE]
    /\ duplicates = 0

----------------------------------------------------------------------------
(* The client: one line, one datagram, one recvfrom().                      *)

\* std::getline gives a line, empty ones included, and sendto() sends it.
SenderSends(c) ==
    /\ ~blocked[c]
    /\ inputs[c] < MaxInputs
    /\ \E kind \in {"text", "empty"} :
          /\ input' = [input EXCEPT ![c] = kind]
          /\ requests' = BagAdd(requests, [of |-> c, number |-> inputs[c] + 1,
                                           empty |-> kind = "empty"])
    /\ inputs' = [inputs EXCEPT ![c] = @ + 1]
    /\ blocked' = [blocked EXCEPT ![c] = TRUE]
    /\ UNCHANGED <<udpServerVars, answers, shown, networkVars>>

\* Mutant: recvfrom() gives up after a while.
SenderReceivesOrGivesUp(c) ==
    /\ blocked[c]
    /\ \/ \E d \in BagToSet(answers) :
             /\ d.of = c
             /\ answers' = BagRemove(answers, d)
             /\ shown' = [shown EXCEPT ![c] = d.number]
       \/ UNCHANGED <<answers, shown>>
    /\ blocked' = [blocked EXCEPT ![c] = FALSE]
    /\ UNCHANGED <<udpServerVars, requests, input, inputs, networkVars>>

\* Whatever arrives first is printed as the reply.
SenderReceives(c) ==
    /\ blocked[c]
    /\ \E d \in BagToSet(answers) :
          /\ d.of = c
          /\ answers' = BagRemove(answers, d)
          /\ shown' = [shown EXCEPT ![c] = d.number]
    /\ blocked' = [blocked EXCEPT ![c] = FALSE]
    /\ UNCHANGED <<udpServerVars, requests, input, inputs, networkVars>>

----------------------------------------------------------------------------
(* The server.                                                              *)

\* Mutant: an empty datagram ends the loop, as if a connection had ended.
ServerReceivesUntilEmpty(c) ==
    /\ isrunning /\ inbox = NoDatagram
    /\ \E d \in BagToSet(requests) :
          /\ d.of = c
          /\ requests' = BagRemove(requests, d)
          /\ inbox' = IF d.empty THEN NoDatagram ELSE d
          /\ isrunning' = ~d.empty
    /\ UNCHANGED <<answers, udpClientVars, networkVars>>

\* recvfrom(): nothing is done about an empty datagram.
ServerReceives(c) ==
    /\ isrunning /\ inbox = NoDatagram
    /\ \E d \in BagToSet(requests) :
          /\ d.of = c
          /\ requests' = BagRemove(requests, d)
          /\ inbox' = IF d.empty THEN NoDatagram ELSE d
    /\ UNCHANGED <<isrunning, answers, udpClientVars, networkVars>>

\* sendto() the address the datagram came from; the reply is never empty.
ServerReplies ==
    /\ inbox # NoDatagram
    /\ answers' = BagAdd(answers, inbox)
    /\ inbox' = NoDatagram
    /\ UNCHANGED <<isrunning, requests, udpClientVars, networkVars>>

----------------------------------------------------------------------------
(* The network.  Order is lost in that any datagram may be received next.   *)

Lose(d) ==
    /\ \/ /\ d \in BagToSet(requests)
          /\ requests' = BagRemove(requests, d) /\ UNCHANGED answers
       \/ /\ d \in BagToSet(answers)
          /\ answers' = BagRemove(answers, d) /\ UNCHANGED requests
    /\ lost' = [lost EXCEPT ![d.of] = TRUE]
    /\ UNCHANGED <<udpServerVars, udpClientVars, duplicates>>

Duplicate(d) ==
    /\ duplicates < MaxDuplicates
    /\ \/ /\ d \in BagToSet(requests)
          /\ requests' = BagAdd(requests, d) /\ UNCHANGED answers
       \/ /\ d \in BagToSet(answers)
          /\ answers' = BagAdd(answers, d) /\ UNCHANGED requests
    /\ duplicates' = duplicates + 1
    /\ UNCHANGED <<udpServerVars, udpClientVars, lost>>

InTransit == BagToSet(requests) \cup BagToSet(answers)

UdpNext ==
    \/ ServerReplies
    \/ \E c \in Senders : SenderSends(c) \/ SenderReceives(c) \/ ServerReceives(c)
    \/ \E d \in InTransit : Lose(d) \/ Duplicate(d)

\* Both programs run, and a datagram that is not lost arrives.  Nobody has to
\* type a line.
UdpFairness ==
    /\ WF_udpVars(ServerReplies)
    /\ \A c \in Senders : WF_udpVars(ServerReceives(c)) /\ WF_udpVars(SenderReceives(c))

----------------------------------------------------------------------------
(* Correctness                                                             *)

Datagrams == [of : Senders, number : 1 .. MaxInputs, empty : BOOLEAN]

\* The variables have their types; what is answered is not empty.
UdpTypeOK ==
    /\ isrunning \in BOOLEAN
    /\ inbox \in Datagrams \cup {NoDatagram}
    /\ BagToSet(requests) \subseteq Datagrams
    /\ BagToSet(answers) \subseteq {d \in Datagrams : ~d.empty}
    /\ input \in [Senders -> {"none", "text", "empty"}]
    /\ inputs \in [Senders -> 0 .. MaxInputs]
    /\ blocked \in [Senders -> BOOLEAN]
    /\ shown \in [Senders -> 0 .. MaxInputs]
    /\ lost \in [Senders -> BOOLEAN]
    /\ duplicates \in 0 .. MaxDuplicates

\* Replies carry no number, and still the reply printed is to the line just
\* sent, however datagrams are reordered or lost, as long as the network never
\* duplicates one: the client has one message on its way at most.
MatchUnlessDuplicated ==
    /\ UdpTypeOK
    /\ duplicates = 0 => \A c \in Senders : ~blocked[c] => shown[c] = inputs[c]

\* A line of text is answered unless a datagram of this client was lost; that
\* others lose theirs, or send empty ones, does not matter.
TextAnswered ==
    \A c \in Senders : blocked[c] /\ input[c] = "text" ~> ~blocked[c] \/ lost[c]

----------------------------------------------------------------------------
(* The inductive invariant                                                  *)

\* A bag with one datagram of each client at most.
Single(bag) == \A d, e \in BagToSet(bag) : d.of = e.of => d = e /\ bag[d] = 1

\* Before the first duplicate a client that waits has one datagram on its way
\* at most, which is about its last line, and one that does not has none.
OneOnItsWay ==
    duplicates = 0 =>
        /\ Single(requests) /\ Single(answers)
        /\ \A d \in BagToSet(requests), e \in BagToSet(answers) : d.of # e.of
        /\ inbox # NoDatagram => \A d \in InTransit : d.of # inbox.of
        /\ \A d \in InTransit \cup ({inbox} \ {NoDatagram}) :
              blocked[d.of] /\ d.number = inputs[d.of]
        /\ \A c \in Senders : ~blocked[c] => shown[c] = inputs[c]

UdpIInv == UdpTypeOK /\ (inbox # NoDatagram => ~inbox.empty) /\ OneOnItsWay
=============================================================================
