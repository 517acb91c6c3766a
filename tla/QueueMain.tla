----------------------------- MODULE QueueMain ------------------------------
(***************************************************************************)
(* The program of code_2026_05_25/code1/main.cpp.  Consumer threads pop    *)
(* and print until pop() returns false, producer threads push the values   *)
(* of a shared atomic counter, and the main thread joins the producers,    *)
(* stops the queue and joins the consumers.                                *)
(*                                                                         *)
(* The threads share a BlockQueue and move through its operations with     *)
(* the steps of that module.  A thread that main has not created yet is a  *)
(* thread that has not taken its first step.  Spurious wakeups are left to *)
(* the most general client of BlockQueue and to QueueDemo.                 *)
(***************************************************************************)
EXTENDS BlockQueue

CONSTANTS
    Producers, Consumers,   \* the threads of the two vectors
    Main,                   \* the thread that runs main()
    PerProducer             \* iterations of a producer's loop

Total == Cardinality(Producers) * PerProducer

ASSUME ProgramAssumption ==
    /\ Threads = Producers \cup Consumers \cup {Main}
    /\ Producers \cap Consumers = {}
    /\ Main \notin Producers \cup Consumers
    /\ Consumers # {}
    /\ PerProducer \in Nat
    /\ 0 .. Total - 1 \subseteq Items

VARIABLES
    counter,    \* counter, the next value to push
    pushed,     \* per producer: the values of its iterations so far
    run,        \* per thread: its place in the program, outside the queue
    printed     \* the lines written, each a consumer and a value

mainVars == <<counter, pushed, run, printed>>
allVars == <<vars, mainVars>>

MainInit ==
    /\ Init
    /\ counter = 0
    /\ pushed = [p \in Producers |-> <<>>]
    /\ run = [t \in Threads |-> IF t = Main THEN "joinProducers" ELSE "loop"]
    /\ printed = <<>>

Advance(t, from, to) ==
    /\ pc[t] = "idle"
    /\ run[t] = from
    /\ run' = [run EXCEPT ![t] = to]

\* bq.push(counter++): the counter is read and advanced before push() locks.
ProducerPush(p) ==
    /\ run[p] = "loop"
    /\ Len(pushed[p]) < PerProducer
    /\ PushCall(p, counter)
    /\ pushed' = [pushed EXCEPT ![p] = Append(@, counter)]
    /\ counter' = counter + 1
    /\ UNCHANGED <<run, printed>>

ProducerExit(p) ==
    /\ Len(pushed[p]) = PerProducer
    /\ Advance(p, "loop", "done")
    /\ UNCHANGED <<vars, counter, pushed, printed>>

ConsumerPop(c) ==
    /\ Advance(c, "loop", "popping")
    /\ PopCall(c)
    /\ UNCHANGED <<counter, pushed, printed>>

\* pop() returned true: print the value and pop again.
ConsumerPrint(c) ==
    /\ Advance(c, "popping", "loop")
    /\ reg[c] # NoItem
    /\ printed' = Append(printed, [by |-> c, value |-> reg[c]])
    /\ UNCHANGED <<vars, counter, pushed>>

\* pop() returned false: the thread function returns.
ConsumerExit(c) ==
    /\ Advance(c, "popping", "done")
    /\ reg[c] = NoItem
    /\ UNCHANGED <<vars, counter, pushed, printed>>

\* Mutant: main stops the queue without joining the producers.
MainStopUnjoined ==
    /\ Advance(Main, "joinProducers", "joinConsumers")
    /\ StopCall(Main)
    /\ UNCHANGED <<counter, pushed, printed>>

\* for (auto& t : producers) t.join(); bq.stop();
MainStop ==
    /\ \A p \in Producers : run[p] = "done"
    /\ Advance(Main, "joinProducers", "joinConsumers")
    /\ StopCall(Main)
    /\ UNCHANGED <<counter, pushed, printed>>

\* for (auto& t : consumers) t.join();
MainReturn ==
    /\ \A c \in Consumers : run[c] = "done"
    /\ Advance(Main, "joinConsumers", "done")
    /\ UNCHANGED <<vars, counter, pushed, printed>>

QueueStep(t) == Step(t) /\ UNCHANGED mainVars

\* The process has ended: the only state in which nothing more happens.
Ended == run[Main] = "done" /\ UNCHANGED allVars

ThreadStep(t) ==
    \/ t \in Producers /\ (ProducerPush(t) \/ ProducerExit(t))
    \/ t \in Consumers /\ (ConsumerPop(t) \/ ConsumerPrint(t) \/ ConsumerExit(t))
    \/ t = Main /\ (MainStop \/ MainReturn)
    \/ QueueStep(t)

MainNext ==
    \/ \E t \in Threads : ThreadStep(t)
    \/ Ended

\* Every thread that can run eventually runs.  Nothing stronger is asked of
\* the mutex: the threads finish, so none can be overtaken for ever.
Fairness == \A t \in Threads : WF_allVars(ThreadStep(t))

MainSpec == MainInit /\ [][MainNext]_allVars /\ Fairness

----------------------------------------------------------------------------
(* Correctness                                                             *)

\* The places a value can be in: on its way into the queue, in it, popped and
\* not printed yet, or printed.
PlacesOf(v) ==
    Cardinality({p \in Producers : reg[p] = v})
    + Cardinality({i \in DOMAIN queue : queue[i] = v})
    + Cardinality({c \in Consumers : run[c] = "popping" /\ reg[c] = v})
    + Cardinality({i \in DOMAIN printed : printed[i].value = v})

\* Every value the counter handed out is in exactly one place at any time:
\* pushes, pops and stop() of all the threads together lose none of them and
\* duplicate none.  When main returns, all of them have been printed: stop()
\* comes after the producers' join, so no push was discarded, and the consumers
\* drain the queue before they stop.
EveryValueOnce ==
    /\ \A v \in 0 .. Total - 1 : PlacesOf(v) = IF v < counter THEN 1 ELSE 0
    /\ run[Main] = "done" =>
          {printed[i].value : i \in DOMAIN printed} = 0 .. Total - 1

\* What one consumer prints of one producer's values is in the order in which
\* that producer pushed them, whatever the other threads do between the
\* counter and the lock.
ProducerOrder ==
    \A i, j \in DOMAIN printed : \A p \in Producers :
        /\ i < j
        /\ printed[i].by = printed[j].by
        /\ \E k, l \in DOMAIN pushed[p] : /\ pushed[p][k] = printed[i].value
                                          /\ pushed[p][l] = printed[j].value
        => printed[i].value < printed[j].value

\* The program ends: every join returns.
Terminates == <>(run[Main] = "done")

----------------------------------------------------------------------------
(* The inductive invariant                                                  *)

\* The values a producer has drawn, its iterations, and what a consumer has
\* popped and not printed yet.
Own(p) == {pushed[p][k] : k \in DOMAIN pushed[p]}
Iterations == {i \in Producers \X (1 .. PerProducer) : i[2] <= Len(pushed[i[1]])}
InHand(c) == IF run[c] = "popping" THEN reg[c] ELSE NoItem

\* Who does what: pop() gives nothing only when the queue is stopped and
\* empty, and it is stopped when all the producers have returned.
Roles ==
    /\ \A p \in Producers :
          /\ pc[p] \in {"idle"} \cup PushPC /\ run[p] \in {"loop", "done"}
          /\ run[p] = "done" => pc[p] = "idle" /\ Len(pushed[p]) = PerProducer
          /\ reg[p] # NoItem <=> pc[p] \in {"pushLock", "pushTest", "pushWait", "pushStore"}
    /\ \A c \in Consumers :
          /\ pc[c] \in {"idle"} \cup PopPC /\ run[c] \in {"loop", "popping", "done"}
          /\ pc[c] # "idle" => run[c] = "popping"
          /\ pc[c] \in {"popLock", "popTest", "popWait", "popTake"} => reg[c] = NoItem
          /\ pc[c] = "popNotify" => reg[c] # NoItem
          /\ run[c] = "done" \/ (run[c] = "popping" /\ pc[c] = "idle" /\ reg[c] = NoItem)
                => stop /\ queue = <<>>
    /\ run[Main] \in {"joinProducers", "joinConsumers", "done"}
    /\ pc[Main] \in {"idle"} \cup StopPC
    /\ IF run[Main] = "joinProducers" THEN pc[Main] = "idle" /\ ~stop
       ELSE \A p \in Producers : run[p] = "done"
    /\ run[Main] = "done" => \A c \in Consumers : run[c] = "done"

\* The values come from the counter, each for one iteration of one producer.
Values ==
    /\ counter = Cardinality(Iterations)
    /\ pushed \in [Producers -> Seq(Nat)]
    /\ \A p \in Producers :
          /\ Len(pushed[p]) <= PerProducer
          /\ Own(p) \subseteq 0 .. counter - 1
          /\ \A q \in Producers \ {p} : Own(p) \cap Own(q) = {}
          /\ reg[p] \in Own(p) \cup {NoItem}
    /\ queue \in Seq(Nat) /\ \A i \in DOMAIN queue : queue[i] < counter
    /\ \A c \in Consumers : InHand(c) \in (0 .. counter - 1) \cup {NoItem}
    /\ printed \in Seq([by : Consumers, value : Nat])
    /\ \A i \in DOMAIN printed : printed[i].value < counter

Once == \A v \in 0 .. Total - 1 : PlacesOf(v) = IF v < counter THEN 1 ELSE 0

\* Of one producer's values the older is ahead: printed before it is in a
\* hand, in that hand before it is in the queue, and stored before it is pushed.
InOrder(v, w) == \A p \in Producers : v \in Own(p) /\ w \in Own(p) => v < w
Ordered ==
    /\ \A i, j \in DOMAIN queue : i < j => InOrder(queue[i], queue[j])
    /\ \A c \in Consumers : \A i \in DOMAIN queue : InOrder(InHand(c), queue[i])
    /\ \A i \in DOMAIN printed :
          /\ \A j \in DOMAIN queue : InOrder(printed[i].value, queue[j])
          /\ InOrder(printed[i].value, InHand(printed[i].by))
          /\ \A j \in DOMAIN printed : i < j /\ printed[i].by = printed[j].by
                => InOrder(printed[i].value, printed[j].value)
    /\ \A p \in Producers :
          /\ \A i \in DOMAIN queue : InOrder(queue[i], reg[p])
          /\ \A c \in Consumers : InOrder(InHand(c), reg[p])
          /\ \A i \in DOMAIN printed : InOrder(printed[i].value, reg[p])

MainIInv ==
    /\ run \in [Threads -> {"loop", "popping", "joinProducers", "joinConsumers", "done"}]
    /\ IInv /\ Roles /\ Values /\ Once /\ Ordered
=============================================================================
