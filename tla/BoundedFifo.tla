---------------------------- MODULE BoundedFifo ----------------------------
(***************************************************************************)
(* What BlockQueue<T> promises to the threads that share one: a bounded    *)
(* first-in first-out queue whose operations take effect in one instant    *)
(* between their call and their return, and which can be closed once.  A   *)
(* closed queue discards what is pushed and can still be drained.          *)
(***************************************************************************)
EXTENDS Naturals, Sequences

CONSTANTS
    Threads,    \* the threads that share the queue
    Items,      \* the values of type T
    NoItem,     \* no value: the result of a pop() that returned false
    Capacity    \* the bound given to the constructor

VARIABLES
    items,      \* the stored values, oldest first
    closed,     \* stop() has taken effect
    op,         \* per thread: the operation in progress and whether it took effect
    val         \* per thread: the argument of its push, the result of its pop

fifoVars == <<items, closed, op, val>>

Init ==
    /\ items = <<>>
    /\ closed = FALSE
    /\ op = [t \in Threads |-> "idle"]
    /\ val = [t \in Threads |-> NoItem]

\* A call records the operation and its argument; nothing is stored yet.
Call(t, o, v) ==
    /\ op[t] = "idle"
    /\ op' = [op EXCEPT ![t] = o]
    /\ val' = [val EXCEPT ![t] = v]
    /\ UNCHANGED <<items, closed>>

\* An open queue with room stores the pushed value at its end.
Put(t) ==
    /\ op[t] = "push"
    /\ ~closed
    /\ Len(items) < Capacity
    /\ items' = Append(items, val[t])
    /\ val' = [val EXCEPT ![t] = NoItem]
    /\ op' = [op EXCEPT ![t] = "done"]
    /\ UNCHANGED closed

\* A closed queue discards the pushed value and the push returns.
Discard(t) ==
    /\ op[t] = "push"
    /\ closed
    /\ val' = [val EXCEPT ![t] = NoItem]
    /\ op' = [op EXCEPT ![t] = "idle"]
    /\ UNCHANGED <<items, closed>>

\* The oldest value leaves the queue, closed or not.
Get(t) ==
    /\ op[t] = "pop"
    /\ items # <<>>
    /\ val' = [val EXCEPT ![t] = Head(items)]
    /\ items' = Tail(items)
    /\ op' = [op EXCEPT ![t] = "done"]
    /\ UNCHANGED closed

\* pop() gives up only on a queue that is closed and drained.
Fail(t) ==
    /\ op[t] = "pop"
    /\ closed
    /\ items = <<>>
    /\ op' = [op EXCEPT ![t] = "idle"]
    /\ UNCHANGED <<items, closed, val>>

Close(t) ==
    /\ op[t] = "stop"
    /\ closed' = TRUE
    /\ op' = [op EXCEPT ![t] = "done"]
    /\ UNCHANGED <<items, val>>

Return(t) ==
    /\ op[t] = "done"
    /\ op' = [op EXCEPT ![t] = "idle"]
    /\ UNCHANGED <<items, closed, val>>

Next == \E t \in Threads :
    \/ \E v \in Items : Call(t, "push", v)
    \/ Call(t, "pop", NoItem)
    \/ Call(t, "stop", NoItem)
    \/ Put(t) \/ Discard(t) \/ Get(t) \/ Fail(t) \/ Close(t) \/ Return(t)

Spec == Init /\ [][Next]_fifoVars
============================================================================
