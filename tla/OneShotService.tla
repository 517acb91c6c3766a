--------------------------- MODULE OneShotService ---------------------------
(***************************************************************************)
(* What the server that forks twice promises its clients: connections are  *)
(* accepted in the order in which they came, one answer is given to the    *)
(* one question of a client, and a connection ends only when its client    *)
(* has the answer or has left.  The exceptions are the connections that a  *)
(* server which gives up has not begun to serve: the one that it has just  *)
(* accepted, and all that wait to be accepted.                             *)
(***************************************************************************)
EXTENDS Sequences

CONSTANT Clients

VARIABLES
    up,         \* the server accepts connections
    line,       \* the connections that wait to be accepted, oldest first
    state,      \* per connection: "away", "waiting", "open" or "ended"
    here,       \* per connection: its client is there
    question,   \* per connection: a question was asked and is not answered
    answered    \* per connection: the answer has been given

oneShotVars == <<up, line, state, here, question, answered>>

Init ==
    /\ up = TRUE
    /\ line = <<>>
    /\ state = [c \in Clients |-> "away"]
    /\ here = [c \in Clients |-> FALSE]
    /\ question = [c \in Clients |-> FALSE]
    /\ answered = [c \in Clients |-> FALSE]

Move(c, old, new) == state[c] = old /\ state' = [state EXCEPT ![c] = new]

Connect(c) ==
    /\ up
    /\ Move(c, "away", "waiting")
    /\ line' = Append(line, c)
    /\ here' = [here EXCEPT ![c] = TRUE]
    /\ UNCHANGED <<up, question, answered>>

Accept(c) ==
    /\ up
    /\ line # <<>> /\ c = Head(line)
    /\ Move(c, "waiting", "open")
    /\ line' = Tail(line)
    /\ UNCHANGED <<up, here, question, answered>>

Ask(c) ==
    /\ here[c] /\ ~question[c] /\ ~answered[c]
    /\ question' = [question EXCEPT ![c] = TRUE]
    /\ UNCHANGED <<up, line, state, here, answered>>

Answer(c) ==
    /\ state[c] = "open" /\ question[c] /\ ~answered[c]
    /\ question' = [question EXCEPT ![c] = FALSE]
    /\ answered' = [answered EXCEPT ![c] = TRUE]
    /\ UNCHANGED <<up, line, state, here>>

Leave(c) ==
    /\ here[c]
    /\ here' = [here EXCEPT ![c] = FALSE]
    /\ UNCHANGED <<up, line, state, question, answered>>

\* The question of a client that has left need not be answered.
Forget(c) ==
    /\ ~here[c] /\ question[c]
    /\ question' = [question EXCEPT ![c] = FALSE]
    /\ UNCHANGED <<up, line, state, here, answered>>

End(c) ==
    /\ answered[c] \/ ~here[c]
    /\ Move(c, "open", "ended")
    /\ UNCHANGED <<up, line, here, question, answered>>

\* The server ends; those whom it has begun to serve are served nevertheless.
GiveUp(c) ==
    /\ up /\ up' = FALSE
    /\ state[c] = "open" /\ ~answered[c]
    /\ state' = [d \in Clients |-> IF d = c \/ state[d] = "waiting" THEN "ended" ELSE state[d]]
    /\ line' = <<>>
    /\ UNCHANGED <<here, question, answered>>

Next == \E c \in Clients :
    \/ Connect(c) \/ Accept(c) \/ Ask(c) \/ Answer(c)
    \/ Leave(c) \/ Forget(c) \/ End(c) \/ GiveUp(c)

Spec == Init /\ [][Next]_oneShotVars
=============================================================================
