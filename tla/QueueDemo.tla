----------------------------- MODULE QueueDemo ------------------------------
(***************************************************************************)
(* demo() of code_2026_05_25/code1/BlockQueue.hpp: one producer, which     *)
(* stops the queue itself after its last push, and one consumer, which     *)
(* prints until pop() returns false.  The caller of demo() only joins them *)
(* and, as any other thread, never touches the queue.                      *)
(***************************************************************************)
EXTENDS BlockQueue

CONSTANTS
    Producer, Consumer,
    Pushes,             \* iterations of the producer's loop
    MaxSpurious         \* bound on the spurious wakeups of one run

ASSUME DemoAssumption ==
    /\ {Producer, Consumer} \subseteq Threads
    /\ Producer # Consumer
    /\ Pushes \in Nat
    /\ MaxSpurious \in Nat
    /\ 0 .. Pushes - 1 \subseteq Items

DemoThreads == {Producer, Consumer}

VARIABLES
    demoCounter,    \* the atomic counter, also the loop's i
    consumed,       \* the values of the "consume" lines, in order
    demoRun,        \* per thread: its place in its lambda
    spurious        \* spurious wakeups so far

demoVars == <<demoCounter, consumed, demoRun, spurious>>
demoAllVars == <<vars, demoVars>>

DemoInit ==
    /\ Init
    /\ demoCounter = 0
    /\ consumed = <<>>
    /\ demoRun = [t \in DemoThreads |-> "loop"]
    /\ spurious = 0

DemoAdvance(t, from, to) ==
    /\ pc[t] = "idle"
    /\ demoRun[t] = from
    /\ demoRun' = [demoRun EXCEPT ![t] = to]

\* bq.push(counter++)
DemoPush ==
    /\ demoCounter < Pushes
    /\ DemoAdvance(Producer, "loop", "pushing")
    /\ PushCall(Producer, demoCounter)
    /\ demoCounter' = demoCounter + 1
    /\ UNCHANGED <<consumed, spurious>>

\* The "produce" line is written outside the lock.
DemoPushPrint ==
    /\ DemoAdvance(Producer, "pushing", "loop")
    /\ UNCHANGED <<vars, demoCounter, consumed, spurious>>

\* Mutant: stop() is called before the last push.
DemoStopEarly ==
    /\ demoCounter >= Pushes - 1
    /\ \/ demoCounter = Pushes /\ DemoAdvance(Producer, "loop", "stopping")
       \/ demoCounter < Pushes /\ DemoAdvance(Producer, "loop", "pushing")
    /\ StopCall(Producer)
    /\ UNCHANGED <<demoCounter, consumed, spurious>>

\* bq.stop(), by the producer itself, after the loop.
DemoStop ==
    /\ demoCounter = Pushes
    /\ DemoAdvance(Producer, "loop", "stopping")
    /\ StopCall(Producer)
    /\ UNCHANGED <<demoCounter, consumed, spurious>>

DemoProducerExit ==
    /\ DemoAdvance(Producer, "stopping", "done")
    /\ UNCHANGED <<vars, demoCounter, consumed, spurious>>

DemoPop ==
    /\ DemoAdvance(Consumer, "loop", "popping")
    /\ PopCall(Consumer)
    /\ UNCHANGED <<demoCounter, consumed, spurious>>

DemoPopPrint ==
    /\ DemoAdvance(Consumer, "popping", "loop")
    /\ reg[Consumer] # NoItem
    /\ consumed' = Append(consumed, reg[Consumer])
    /\ UNCHANGED <<vars, demoCounter, spurious>>

DemoConsumerExit ==
    /\ DemoAdvance(Consumer, "popping", "done")
    /\ reg[Consumer] = NoItem
    /\ UNCHANGED <<vars, demoCounter, consumed, spurious>>

ProducerStep == DemoPush \/ DemoPushPrint \/ DemoStop \/ DemoProducerExit
ConsumerStep == DemoPop \/ DemoPopPrint \/ DemoConsumerExit

DemoThreadStep(t) ==
    \/ t = Producer /\ ProducerStep
    \/ t = Consumer /\ ConsumerStep
    \/ Step(t) /\ UNCHANGED demoVars

Spurious(t) ==
    /\ spurious < MaxSpurious
    /\ SpuriousWakeup(t)
    /\ spurious' = spurious + 1
    /\ UNCHANGED <<demoCounter, consumed, demoRun>>

\* Both threads have returned and demo() joins them.
DemoEnded == (\A t \in DemoThreads : demoRun[t] = "done") /\ UNCHANGED demoAllVars

DemoNext ==
    \/ \E t \in DemoThreads : DemoThreadStep(t) \/ Spurious(t)
    \/ DemoEnded

\* Either thread runs when it can; neither loops for ever, so the mutex need
\* not be fair.
DemoFairness == \A t \in DemoThreads : WF_demoAllVars(DemoThreadStep(t))

DemoSpec == DemoInit /\ [][DemoNext]_demoAllVars /\ DemoFairness

----------------------------------------------------------------------------
(* Correctness                                                             *)

\* The consumer prints 0, 1, 2, ... without a gap or a repetition, and stays
\* within the queue's capacity of the producer: besides what is stored, one
\* value can be in the hands of either thread.
InLockstep ==
    /\ consumed = [i \in 1 .. Len(consumed) |-> i - 1]
    /\ demoCounter - Len(consumed) <= Capacity + 2

\* Although the producer stops the queue while the consumer is still draining
\* it, both threads end and every value has been consumed.
DrainsAndEnds ==
    <>((\A t \in DemoThreads : demoRun[t] = "done") /\ Len(consumed) = Pushes)

----------------------------------------------------------------------------
(* The inductive invariant                                                  *)

\* The values in the hands of the two threads: what the producer has drawn and
\* not stored yet, what the consumer has popped and not printed yet.
Drawn == pc[Producer] \in {"pushLock", "pushTest", "pushWait", "pushStore"}
Taken == demoRun[Consumer] = "popping" /\ reg[Consumer] # NoItem
Count(inHand) == IF inHand THEN 1 ELSE 0

\* Nobody else uses the queue; the producer pushes only before it has stopped it,
\* and the consumer keeps what it has popped until it has printed it.
DemoRoles ==
    /\ \A t \in Threads \ DemoThreads : pc[t] = "idle"
    /\ pc[Producer] \in {"idle"} \cup PushPC \cup StopPC
    /\ pc[Producer] \in PushPC => demoRun[Producer] = "pushing"
    /\ pc[Producer] \in StopPC \/ stop => demoRun[Producer] \in {"stopping", "done"}
    /\ pc[Consumer] \in {"idle"} \cup PopPC
    /\ pc[Consumer] # "idle" => demoRun[Consumer] = "popping"
    /\ pc[Consumer] \in {"popLock", "popTest", "popWait", "popTake"} => reg[Consumer] = NoItem
    /\ pc[Consumer] = "popNotify" => reg[Consumer] # NoItem

\* The values are numbered one after the other: the printed ones, the one that
\* the consumer has popped, the stored ones, the one that the producer has drawn.
DemoValues ==
    /\ demoCounter \in 0 .. Pushes
    /\ demoCounter = Len(consumed) + Count(Taken) + Len(queue) + Count(Drawn)
    /\ \A i \in 1 .. Len(consumed) : consumed[i] = i - 1
    /\ Taken => reg[Consumer] = Len(consumed)
    /\ \A i \in 1 .. Len(queue) : queue[i] = Len(consumed) + Count(Taken) + i - 1
    /\ Drawn => reg[Producer] = demoCounter - 1

DemoIInv ==
    /\ demoRun \in [DemoThreads -> {"loop", "pushing", "stopping", "popping", "done"}]
    /\ consumed \in Seq(Nat)
    /\ IInv /\ DemoRoles /\ DemoValues
=============================================================================
