----------------------------- MODULE BlockQueue -----------------------------
(***************************************************************************)
(* BlockQueue<T> of code_2026_05_25/code1/BlockQueue.hpp: a bounded queue  *)
(* guarded by one mutex and two condition variables, closed by stop().     *)
(*                                                                         *)
(* The threads are the most general client: each of them may call any of   *)
(* the three operations whenever it is outside one.  Every point at which  *)
(* another thread can run between two accesses to the shared state is a    *)
(* step of its own: taking the mutex, evaluating the predicate of the      *)
(* wait, the critical section that follows it, and each notification,      *)
(* which the code sends after it has released the mutex.                   *)
(*                                                                         *)
(* A condition variable is represented by the threads that sleep on it.    *)
(* A notified thread leaves that set and, as std::condition_variable::wait *)
(* with a predicate requires, takes the mutex again and re-evaluates the   *)
(* predicate.                                                              *)
(***************************************************************************)
EXTENDS Naturals, Sequences, FiniteSets

CONSTANTS
    Threads,    \* the threads that share the queue
    Items,      \* the values of type T
    NoItem,     \* no value: an empty local, or pop() returned false
    NoThread,   \* the mutex is free
    Capacity    \* capacity_, fixed by the constructor

ASSUME ThreadsAssumption == IsFiniteSet(Threads) /\ NoThread \notin Threads
ASSUME ItemsAssumption == NoItem \notin Items
ASSUME CapacityAssumption == Capacity \in Nat

VARIABLES
    queue,      \* queue_: the stored items, oldest first
    stop,       \* stop_
    mtx,        \* mtx_: the thread that holds it, or NoThread
    pc,         \* per thread: where it is inside push, pop or stop
    reg         \* per thread: the parameter of its push, the result of its pop

vars == <<queue, stop, mtx, pc, reg>>

\* Where a thread holds mtx_.
Holding == {"pushTest", "pushStore", "popTest", "popTake", "stopSet"}

PushPC == {"pushLock", "pushTest", "pushWait", "pushStore", "pushNotify"}
PopPC  == {"popLock", "popTest", "popWait", "popTake", "popNotify"}
StopPC == {"stopLock", "stopSet", "stopNotifyEmpty", "stopNotifyFull"}

\* The threads asleep on not_empty_ and on not_full_.
EmptySleepers == {t \in Threads : pc[t] = "popWait"}
FullSleepers  == {t \in Threads : pc[t] = "pushWait"}

Init ==
    /\ queue = <<>>
    /\ stop = FALSE
    /\ mtx = NoThread
    /\ pc = [t \in Threads |-> "idle"]
    /\ reg = [t \in Threads |-> NoItem]

----------------------------------------------------------------------------
(* Helpers: one control transfer of a thread, with or without the mutex.   *)

Goto(t, from, to) ==
    /\ pc[t] = from
    /\ pc' = [pc EXCEPT ![t] = to]

\* unique_lock / lock_guard: blocks until the mutex is free.
Lock(t, from, to) ==
    /\ mtx = NoThread
    /\ mtx' = t
    /\ Goto(t, from, to)
    /\ UNCHANGED <<queue, stop, reg>>

\* cv.wait(lock, pred): with a true predicate the thread goes on and keeps the
\* mutex, otherwise it releases the mutex and falls asleep in the same step.
\* WaitUnlocked is the mutant that gives the mutex up either way.
WaitUnlocked(t, pred, from, asleep, to) ==
    /\ \/ pred /\ Goto(t, from, to)
       \/ ~pred /\ Goto(t, from, asleep)
    /\ mtx' = NoThread
    /\ UNCHANGED <<queue, stop, reg>>

Wait(t, pred, from, asleep, to) ==
    /\ \/ pred /\ Goto(t, from, to) /\ UNCHANGED mtx
       \/ ~pred /\ Goto(t, from, asleep) /\ mtx' = NoThread
    /\ UNCHANGED <<queue, stop, reg>>

\* notify_one: wakes one sleeper if there is one; the caller goes on.
NotifyOne(t, sleepers, from, wakeTo) ==
    /\ pc[t] = from
    /\ \/ /\ sleepers = {}
          /\ pc' = [pc EXCEPT ![t] = "idle"]
       \/ \E s \in sleepers :
             pc' = [pc EXCEPT ![t] = "idle", ![s] = wakeTo]
    /\ UNCHANGED <<queue, stop, mtx, reg>>

\* notify_all: wakes every sleeper.
NotifyAll(t, sleepers, from, wakeTo, to) ==
    /\ pc[t] = from
    /\ pc' = [s \in Threads |-> IF s = t THEN to
                                ELSE IF s \in sleepers THEN wakeTo ELSE pc[s]]
    /\ UNCHANGED <<queue, stop, mtx, reg>>

----------------------------------------------------------------------------
(* push(item)                                                              *)

PushCall(t, v) ==
    /\ Goto(t, "idle", "pushLock")
    /\ reg' = [reg EXCEPT ![t] = v]
    /\ UNCHANGED <<queue, stop, mtx>>

PushLock(t) == Lock(t, "pushLock", "pushTest")

PushWait(t) ==
    Wait(t, stop \/ Len(queue) < Capacity, "pushTest", "pushWait", "pushStore")

\* A stopped queue: the push returns and its item is gone.
PushDiscard(t) ==
    /\ stop
    /\ Goto(t, "pushStore", "idle")
    /\ reg' = [reg EXCEPT ![t] = NoItem]
    /\ mtx' = NoThread
    /\ UNCHANGED <<queue, stop>>

\* Mutant: a stack, the item is stored in front of the older ones.
PushStoreFront(t) ==
    /\ ~stop
    /\ Goto(t, "pushStore", "pushNotify")
    /\ queue' = <<reg[t]>> \o queue
    /\ reg' = [reg EXCEPT ![t] = NoItem]
    /\ mtx' = NoThread
    /\ UNCHANGED stop

PushStore(t) ==
    /\ ~stop
    /\ Goto(t, "pushStore", "pushNotify")
    /\ queue' = Append(queue, reg[t])
    /\ reg' = [reg EXCEPT ![t] = NoItem]
    /\ mtx' = NoThread
    /\ UNCHANGED stop

\* Mutant: the notification of push is forgotten.
PushReturnSilently(t) ==
    /\ Goto(t, "pushNotify", "idle")
    /\ UNCHANGED <<queue, stop, mtx, reg>>

PushNotify(t) == NotifyOne(t, EmptySleepers, "pushNotify", "popLock")

----------------------------------------------------------------------------
(* pop(item)                                                               *)

PopCall(t) ==
    /\ Goto(t, "idle", "popLock")
    /\ reg' = [reg EXCEPT ![t] = NoItem]
    /\ UNCHANGED <<queue, stop, mtx>>

PopLock(t) == Lock(t, "popLock", "popTest")

PopWait(t) ==
    Wait(t, stop \/ queue # <<>>, "popTest", "popWait", "popTake")

\* Mutant: pop returns false as soon as the queue is stopped.
PopFailEarly(t) ==
    /\ stop
    /\ Goto(t, "popTake", "idle")
    /\ mtx' = NoThread
    /\ UNCHANGED <<queue, stop, reg>>

\* Stopped and drained: pop returns false.
PopFail(t) ==
    /\ stop
    /\ queue = <<>>
    /\ Goto(t, "popTake", "idle")
    /\ mtx' = NoThread
    /\ UNCHANGED <<queue, stop, reg>>

PopTake(t) ==
    /\ ~(stop /\ queue = <<>>)
    /\ Goto(t, "popTake", "popNotify")
    /\ reg' = [reg EXCEPT ![t] = Head(queue)]
    /\ queue' = Tail(queue)
    /\ mtx' = NoThread
    /\ UNCHANGED stop

PopNotify(t) == NotifyOne(t, FullSleepers, "popNotify", "pushLock")

----------------------------------------------------------------------------
(* stop()                                                                  *)

StopCall(t) ==
    /\ Goto(t, "idle", "stopLock")
    /\ reg' = [reg EXCEPT ![t] = NoItem]
    /\ UNCHANGED <<queue, stop, mtx>>

StopLock(t) == Lock(t, "stopLock", "stopSet")

StopSet(t) ==
    /\ Goto(t, "stopSet", "stopNotifyEmpty")
    /\ stop' = TRUE
    /\ mtx' = NoThread
    /\ UNCHANGED <<queue, reg>>

\* Mutant: stop() wakes one sleeping consumer only.
StopNotifyEmptyOne(t) ==
    /\ pc[t] = "stopNotifyEmpty"
    /\ \/ /\ EmptySleepers = {}
          /\ pc' = [pc EXCEPT ![t] = "stopNotifyFull"]
       \/ \E s \in EmptySleepers :
             pc' = [pc EXCEPT ![t] = "stopNotifyFull", ![s] = "popLock"]
    /\ UNCHANGED <<queue, stop, mtx, reg>>

StopNotifyEmpty(t) ==
    NotifyAll(t, EmptySleepers, "stopNotifyEmpty", "popLock", "stopNotifyFull")

StopNotifyFull(t) ==
    NotifyAll(t, FullSleepers, "stopNotifyFull", "pushLock", "idle")

----------------------------------------------------------------------------
\* A condition variable may wake a sleeper that nobody notified.
SpuriousWakeup(t) ==
    /\ \/ Goto(t, "popWait", "popLock")
       \/ Goto(t, "pushWait", "pushLock")
    /\ UNCHANGED <<queue, stop, mtx, reg>>

\* One step of thread t inside an operation.
PushStep(t) == PushLock(t) \/ PushWait(t) \/ PushDiscard(t) \/ PushStore(t) \/ PushNotify(t)
PopStep(t)  == PopLock(t) \/ PopWait(t) \/ PopFail(t) \/ PopTake(t) \/ PopNotify(t)
StopStep(t) == StopLock(t) \/ StopSet(t) \/ StopNotifyEmpty(t) \/ StopNotifyFull(t)
Step(t) == PushStep(t) \/ PopStep(t) \/ StopStep(t)

Next == \E t \in Threads :
    \/ \E v \in Items : PushCall(t, v)
    \/ PopCall(t)
    \/ StopCall(t)
    \/ Step(t)
    \/ SpuriousWakeup(t)

Spec == Init /\ [][Next]_vars

----------------------------------------------------------------------------
(* Correctness                                                             *)

\* The variables have their types, and the queue never holds more than
\* capacity_ items (the bound that push waits for).
TypeOK ==
    /\ queue \in Seq(Items)
    /\ Len(queue) <= Capacity
    /\ stop \in BOOLEAN
    /\ mtx \in Threads \cup {NoThread}
    /\ pc \in [Threads -> {"idle"} \cup PushPC \cup PopPC \cup StopPC]
    /\ reg \in [Threads -> Items \cup {NoItem}]

\* Threads that will still send a notify_one, and threads that are awake
\* inside an operation and have not taken or stored an item yet.
EmptyNotifiers == {t \in Threads : pc[t] = "pushNotify"}
FullNotifiers  == {t \in Threads : pc[t] = "popNotify"}
Takers  == {t \in Threads : pc[t] \in {"popLock", "popTest", "popTake"}}
Storers == {t \in Threads : pc[t] \in {"pushLock", "pushTest", "pushStore"}}

\* No lost wakeup.  push and pop notify after releasing the mutex, and
\* notify_one wakes at most one of several sleepers; still, no thread sleeps
\* on a predicate that is true unless some other thread is on its way either
\* to wake a sleeper or to make the predicate false again.
NoLostWakeup ==
    /\ EmptySleepers # {} /\ (stop \/ queue # <<>>) =>
          \/ EmptyNotifiers \cup Takers # {}
          \/ \E t \in Threads : pc[t] = "stopNotifyEmpty"
    /\ FullSleepers # {} /\ (stop \/ Len(queue) < Capacity) =>
          \/ FullNotifiers \cup Storers # {}
          \/ \E t \in Threads : pc[t] \in {"stopNotifyEmpty", "stopNotifyFull"}

\* Why: while the queue is open and somebody sleeps, every item has a thread
\* of its own that will take it or wake a taker, and every free place has one
\* that will fill it or wake a storer.
WakeupsCoverItems ==
    ~stop /\ EmptySleepers # {} =>
        Len(queue) <= Cardinality(EmptyNotifiers \cup Takers)
WakeupsCoverPlaces ==
    ~stop /\ FullSleepers # {} =>
        Capacity - Len(queue) <= Cardinality(FullNotifiers \cup Storers)

\* ... and once it is stopped, whoever still sleeps is about to be woken by
\* the notify_all that stop() sends.
StopWakesSleepers ==
    stop => /\ EmptySleepers # {} => \E t \in Threads : pc[t] = "stopNotifyEmpty"
            /\ FullSleepers # {} =>
                  \E t \in Threads : pc[t] \in {"stopNotifyEmpty", "stopNotifyFull"}

\* A thread between its lock and its unlock is the one that holds the mutex,
\* and what it learned from the predicate of its wait still holds.
CriticalSections ==
    /\ \A t \in Threads : pc[t] \in Holding <=> mtx = t
    /\ \A t \in Threads : pc[t] = "pushStore" => stop \/ Len(queue) < Capacity
    /\ \A t \in Threads : pc[t] = "popTake" => stop \/ queue # <<>>
    /\ \A t \in Threads : pc[t] \in {"pushLock", "pushTest", "pushWait", "pushStore"}
                            => reg[t] \in Items

\* The inductive invariant of the proofs.
IInv ==
    /\ TypeOK
    /\ CriticalSections
    /\ WakeupsCoverItems
    /\ WakeupsCoverPlaces
    /\ StopWakesSleepers

\* Every operation takes effect at one instant: storing an item, taking the
\* oldest one, setting stop_.  Before it the operation is pending, after it
\* the operation only has notifications to send.
Operation(loc) ==
    CASE loc \in PushPC \ {"pushNotify"} -> "push"
      [] loc \in PopPC \ {"popNotify"} -> "pop"
      [] loc \in {"stopLock", "stopSet"} -> "stop"
      [] loc \in {"pushNotify", "popNotify", "stopNotifyEmpty", "stopNotifyFull"} -> "done"
      [] OTHER -> "idle"

Fifo == INSTANCE BoundedFifo
            WITH items <- queue, closed <- stop,
                 op <- [t \in Threads |-> Operation(pc[t])], val <- reg

\* BlockQueue implements the bounded FIFO queue: nothing is lost, duplicated
\* or reordered, a full queue accepts nothing, a stopped one is drained before
\* pop() returns false.
ImplementsFifo == Fifo!Spec
=============================================================================
