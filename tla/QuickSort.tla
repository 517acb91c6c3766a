----------------------------- MODULE QuickSort -----------------------------
(***************************************************************************)
(* QuickSort of code_2026_05_28/code1/Sort.h: a three-way partition around *)
(* a random element, then both outer parts.  The calls that have not begun *)
(* are a stack, the next one on top; an action is a turn of the partition  *)
(* loop, or the beginning or the end of a call.                            *)
(***************************************************************************)
EXTENDS SortArray, Sequences

VARIABLES
    calls,                  \* the arguments <<left, right>> of the calls to come
    begin, end,             \* the range being partitioned
    left, cur, right,       \* below left: less; above right: greater; cur moves
    key

quickVars == <<calls, begin, end, left, cur, right, key>>
partitionVars == <<begin, end, left, cur, right, key>>

\* The caller asks for the whole array.
QuickInit ==
    /\ calls = <<<<0, LastIndex>>>>
    /\ begin = 0 /\ end = 0 /\ left = 0 /\ cur = 0 /\ right = 0 /\ key = 0

QuickTrivial ==
    /\ pc = "call"
    /\ calls # <<>>
    /\ calls[1][1] >= calls[1][2]
    /\ calls' = Tail(calls)
    /\ UNCHANGED <<arrayVars, partitionVars>>

\* rand() may pick any position of the range.
QuickPivot ==
    /\ pc = "call"
    /\ calls # <<>>
    /\ calls[1][1] < calls[1][2]
    /\ \E p \in calls[1][1] .. calls[1][2] : key' = arr[p]
    /\ begin' = calls[1][1] /\ left' = calls[1][1] /\ cur' = calls[1][1]
    /\ end' = calls[1][2] /\ right' = calls[1][2]
    /\ calls' = Tail(calls)
    /\ pc' = "partition"
    /\ UNCHANGED <<arr, size, input>>

Less ==
    /\ pc = "partition"
    /\ cur <= right
    /\ arr[cur] < key
    /\ arr' = Swap(arr, cur, left)
    /\ cur' = cur + 1
    /\ left' = left + 1
    /\ UNCHANGED <<size, input, pc, calls, begin, end, right, key>>

\* Mutant: the element that came from the right is passed over unseen.
GreaterAdvances ==
    /\ pc = "partition"
    /\ cur <= right
    /\ arr[cur] > key
    /\ arr' = Swap(arr, cur, right)
    /\ right' = right - 1
    /\ cur' = cur + 1
    /\ UNCHANGED <<size, input, pc, calls, begin, end, left, key>>

Greater ==
    /\ pc = "partition"
    /\ cur <= right
    /\ arr[cur] > key
    /\ arr' = Swap(arr, cur, right)
    /\ right' = right - 1
    /\ UNCHANGED <<size, input, pc, calls, begin, end, left, cur, key>>

\* Mutant: the branch for elements equal to the key forgets to move on.
EqualStays ==
    /\ pc = "partition"
    /\ cur <= right
    /\ arr[cur] = key
    /\ UNCHANGED <<arrayVars, quickVars>>

Equal ==
    /\ pc = "partition"
    /\ cur <= right
    /\ arr[cur] = key
    /\ cur' = cur + 1
    /\ UNCHANGED <<arrayVars, calls, begin, end, left, right, key>>

Partitioned ==
    /\ pc = "partition"
    /\ cur > right
    /\ calls' = <<<<begin, left - 1>>, <<right + 1, end>>>> \o calls
    /\ pc' = "call"
    /\ UNCHANGED <<arr, size, input, partitionVars>>

QuickReturn ==
    /\ pc = "call"
    /\ calls = <<>>
    /\ pc' = "done"
    /\ UNCHANGED <<arr, size, input, quickVars>>

QuickStep ==
    \/ QuickTrivial \/ QuickPivot
    \/ Less \/ Greater \/ Equal \/ Partitioned \/ QuickReturn

----------------------------------------------------------------------------
(* The invariant                                                           *)

QuickTypes ==
    /\ calls \in Seq((0 .. size) \X (-1 .. size - 1))
    /\ pc = "partition" =>
          /\ begin \in 0 .. size - 1 /\ end \in 0 .. size - 1
          /\ left \in Int /\ cur \in Int /\ right \in Int /\ key \in Int

\* The calls to come concern disjoint ranges, from left to right.
CallsAscend ==
    /\ \A m \in 1 .. Len(calls) : calls[m][1] <= calls[m][2] + 1
    /\ \A m, n \in 1 .. Len(calls) : m < n => calls[m][2] < calls[n][1]
    /\ pc = "partition" => \A n \in 1 .. Len(calls) : end < calls[n][1]

\* A range that will still be sorted holds both positions.
StillToSort(p, q) ==
    \/ \E n \in 1 .. Len(calls) : calls[n][1] <= p /\ q <= calls[n][2]
    \/ pc = "partition" /\ begin <= p /\ q <= end

SortedElsewhere ==
    \A p, q \in 0 .. size - 1 : p < q => arr[p] <= arr[q] \/ StillToSort(p, q)

\* The partition: less than the key, equal to it, not yet seen, greater.  The
\* key itself is still in the middle, so that both outer parts get shorter.
PartitionInv ==
    pc = "partition" =>
        /\ begin <= left /\ left <= cur /\ cur <= right + 1 /\ right <= end
        /\ \A p \in begin .. left - 1 : arr[p] < key
        /\ \A p \in left .. cur - 1 : arr[p] = key
        /\ \A p \in right + 1 .. end : arr[p] > key
        /\ \E p \in left .. right : arr[p] = key

QuickInv ==
    pc \in {"call", "partition"} =>
        QuickTypes /\ CallsAscend /\ SortedElsewhere /\ PartitionInv
=============================================================================
