-------------------------------- MODULE Sort --------------------------------
(***************************************************************************)
(* A caller of code_2026_05_28/code1/Sort.h: one of the three functions    *)
(* is called with an array of the caller's and runs until it returns.      *)
(***************************************************************************)
EXTENDS HeapSort, QuickSort, MergeSort

vars == <<arrayVars, heapVars, quickVars, mergeVars>>

\* The locals of the functions that are not called are never looked at.
Init ==
    /\ ArrayInit /\ HeapInit /\ QuickInit /\ MergeInit
    /\ pc \in {"heapify", "call", "split"}

Returned == pc = "done" /\ UNCHANGED vars

Next ==
    \/ HeapStep /\ UNCHANGED <<quickVars, mergeVars>>
    \/ QuickStep /\ UNCHANGED <<heapVars, mergeVars>>
    \/ MergeStep /\ UNCHANGED <<heapVars, quickVars>>
    \/ Returned

Spec == Init /\ [][Next]_vars /\ WF_vars(Next)

----------------------------------------------------------------------------
(* Correctness                                                             *)

\* Every loop keeps what it is there for: every index is inside the array, the
\* heap is a heap but for one element, the partition has its three parts, the
\* halves of a merge are in order, and no element is lost or doubled.  With
\* Sorts, this is inductive.
IInv == ArrayInv /\ HeapInv /\ QuickInv /\ MergeInv /\ Sorts

\* Every call returns: the ranges of the recursion get shorter, whichever
\* element rand() picks.
Terminates == <>(pc = "done")
=============================================================================
