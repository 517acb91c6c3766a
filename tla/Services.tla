------------------------------ MODULE Services ------------------------------
(***************************************************************************)
(* The three small network programs, one of which runs: the request        *)
(* handler of HttpServer, the server with a thread per connection, and the *)
(* UDP echo pair.  They share nothing; the module is their sum.            *)
(***************************************************************************)
EXTENDS HttpService, ThreadServer, UdpEcho

VARIABLE program    \* which of them runs

vars == <<program, httpVars, tcpVars, udpVars>>

Init ==
    /\ program \in {"http", "tcp", "udp"}
    /\ HttpInit /\ TcpInit /\ UdpInit
    /\ program # "http" => \A p \in Paths : page[p] = Absent

Next ==
    /\ UNCHANGED program
    /\ \/ program = "http" /\ HttpNext /\ UNCHANGED <<tcpVars, udpVars>>
       \/ program = "tcp" /\ TcpNext /\ UNCHANGED <<httpVars, udpVars>>
       \/ program = "udp" /\ UdpNext /\ UNCHANGED <<httpVars, tcpVars>>

\* The programs are scheduled.  One that does not run stays in its initial
\* state, in which no action is enabled that it would owe.
Fairness == HttpFairness /\ TcpFairness /\ UdpFairness

Spec == Init /\ [][Next]_vars /\ Fairness
=============================================================================
