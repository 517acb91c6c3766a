------------------------------ MODULE HeapSort ------------------------------
(***************************************************************************)
(* HeapSort, AdjustUp and AdjustDown of code_2026_05_28/code1/Sort.h: one  *)
(* action per turn of a loop.                                              *)
(***************************************************************************)
EXTENDS SortArray

VARIABLES
    i,          \* the loop variable of HeapSort
    at          \* child in AdjustUp, parent in AdjustDown

heapVars == <<i, at>>

Parent(child) == (child - 1) \div 2

HeapInit ==
    /\ i = 0
    /\ at = 0

\* The element at the position is above its parent.
Rises == at > 0 /\ arr[at] > arr[Parent(at)]

AdjustUpSwap ==
    /\ pc = "heapify"
    /\ i < size
    /\ Rises
    /\ arr' = Swap(arr, at, Parent(at))
    /\ at' = Parent(at)
    /\ UNCHANGED <<size, input, pc, i>>

AdjustUpEnd ==
    /\ pc = "heapify"
    /\ i < size
    /\ ~Rises
    /\ i' = i + 1
    /\ at' = i + 1
    /\ UNCHANGED arrayVars

\* The first loop has ended; the second starts from the last element.
Heapified ==
    /\ pc = "heapify"
    /\ i = size
    /\ i' = LastIndex
    /\ at' = 0
    /\ pc' = "pop"
    /\ UNCHANGED <<arr, size, input>>

\* The top of the heap goes behind it; AdjustDown starts from the new top.
Pop ==
    /\ pc = "pop"
    /\ i >= 0
    /\ arr' = Swap(arr, i, 0)
    /\ at' = 0
    /\ pc' = "down"
    /\ UNCHANGED <<size, input, i>>

\* The larger child, of those inside the heap.
LargerChild ==
    LET child == at * 2 + 1
    IN  IF child + 1 < i /\ arr[child] < arr[child + 1] THEN child + 1 ELSE child

Sinks == at * 2 + 1 < i /\ arr[at] < arr[LargerChild]

AdjustDownSwap ==
    /\ pc = "down"
    /\ Sinks
    /\ arr' = Swap(arr, at, LargerChild)
    /\ at' = LargerChild
    /\ UNCHANGED <<size, input, pc, i>>

AdjustDownEnd ==
    /\ pc = "down"
    /\ ~Sinks
    /\ i' = i - 1
    /\ pc' = "pop"
    /\ UNCHANGED <<arr, size, input, at>>

HeapReturn ==
    /\ pc = "pop"
    /\ i < 0
    /\ pc' = "done"
    /\ UNCHANGED <<arr, size, input, heapVars>>

HeapStep ==
    \/ AdjustUpSwap \/ AdjustUpEnd \/ Heapified
    \/ Pop \/ AdjustDownSwap \/ AdjustDownEnd \/ HeapReturn

----------------------------------------------------------------------------
(* The invariant                                                           *)

HeapTypes ==
    /\ pc \in {"heapify", "pop", "down"}
    /\ i \in -1 .. size
    /\ at \in 0 .. size

\* No child in 1 .. last is above its parent, but for the children in S.
HeapBut(S, last) == \A c \in (1 .. last) \ S : arr[c] <= arr[Parent(c)]

ChildrenOf(p) == {c \in 1 .. size - 1 : Parent(c) = p}

\* While one position is out of order, its children fit below its parent.
FitsBelowParent(last) ==
    at > 0 => \A c \in ChildrenOf(at) : c <= last => arr[c] <= arr[Parent(at)]

\* What is behind the heap is in its place.
SortedFrom(first) ==
    \A p, q \in 0 .. size - 1 : p < q /\ q >= first => arr[p] <= arr[q]

\* The heap grows from the left, with the risen element at most out of order;
\* later it shrinks from the right, with the sinking one.
HeapInv ==
    pc \in {"heapify", "pop", "down"} =>
        /\ HeapTypes
        /\ pc = "heapify" =>
              /\ at <= i /\ i >= 0
              /\ IF i < size
                 THEN HeapBut({at}, i) /\ FitsBelowParent(i)
                 ELSE HeapBut({}, size - 1)
        /\ pc = "pop" =>
              /\ i < size
              /\ HeapBut({}, i)
              /\ SortedFrom(i + 1)
        /\ pc = "down" =>
              /\ i >= 0 /\ i < size
              /\ at <= i
              /\ HeapBut(ChildrenOf(at), i - 1)
              /\ FitsBelowParent(i - 1)
              /\ SortedFrom(i)
=============================================================================
