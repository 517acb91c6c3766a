---------------------------- MODULE EchoService -----------------------------
(***************************************************************************)
(* What the select, poll and epoll servers promise their clients: a client *)
(* that connects is admitted while there is a place and turned away when   *)
(* there is none; an admitted client gets one answer to each question, in  *)
(* order, and keeps its connection until it leaves.                        *)
(***************************************************************************)
EXTENDS Naturals, FiniteSets

CONSTANTS
    Conns,      \* the connections, one per run of the client program
    Places      \* how many clients are served at the same time

VARIABLES
    state,      \* per connection: what the server has done with it
    here,       \* per connection: its client is there
    asked,      \* per connection: questions sent to the server
    answered    \* per connection: answers sent back

echoVars == <<state, here, asked, answered>>

Init ==
    /\ state = [c \in Conns |-> "away"]
    /\ here = [c \in Conns |-> FALSE]
    /\ asked = [c \in Conns |-> 0]
    /\ answered = [c \in Conns |-> 0]

Admitted == {c \in Conns : state[c] = "admitted"}

Move(c, old, new) == state[c] = old /\ state' = [state EXCEPT ![c] = new]

Connect(c) ==
    /\ Move(c, "away", "queued")
    /\ here' = [here EXCEPT ![c] = TRUE]
    /\ UNCHANGED <<asked, answered>>

Admit(c) ==
    /\ Cardinality(Admitted) < Places
    /\ Move(c, "queued", "admitted")
    /\ UNCHANGED <<here, asked, answered>>

TurnAway(c) ==
    /\ Cardinality(Admitted) = Places
    /\ Move(c, "queued", "refused")
    /\ UNCHANGED <<here, asked, answered>>

\* A client asks when it has the answer to its previous question.
Ask(c) ==
    /\ here[c]
    /\ state[c] \in {"queued", "admitted"}
    /\ asked[c] = answered[c]
    /\ asked' = [asked EXCEPT ![c] = @ + 1]
    /\ UNCHANGED <<state, here, answered>>

Answer(c) ==
    /\ state[c] = "admitted"
    /\ answered[c] < asked[c]
    /\ answered' = [answered EXCEPT ![c] = @ + 1]
    /\ UNCHANGED <<state, here, asked>>

Leave(c) ==
    /\ here[c]
    /\ here' = [here EXCEPT ![c] = FALSE]
    /\ UNCHANGED <<state, asked, answered>>

\* The server ends an admitted connection after its client has left.
Finish(c) ==
    /\ ~here[c]
    /\ Move(c, "admitted", "finished")
    /\ UNCHANGED <<here, asked, answered>>

Next == \E c \in Conns :
    \/ Connect(c) \/ Admit(c) \/ TurnAway(c)
    \/ Ask(c) \/ Answer(c) \/ Leave(c) \/ Finish(c)

Spec == Init /\ [][Next]_echoVars
=============================================================================
