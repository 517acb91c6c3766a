----------------------------- MODULE MergeSort -----------------------------
(***************************************************************************)
(* MergeSort and _MergeSort of code_2026_05_28/code1/Sort.h.  What is left *)
(* to do is a stack with the next task on top: a call that has not begun,  *)
(* or the merge at the end of a call, below the two calls it waits for.    *)
(***************************************************************************)
EXTENDS SortArray, Sequences

VARIABLES
    tasks,              \* <<left, right, "sort" or "merge">>
    begin1, begin2,     \* the next elements of both halves
    index,              \* the next place in tmp
    tmp

mergeVars == <<tasks, begin1, begin2, index, tmp>>

MergeInit ==
    /\ tasks = <<<<0, LastIndex, "sort">>>>
    /\ begin1 = 0 /\ begin2 = 0 /\ index = 0
    /\ tmp = arr

Mid(lo, hi) == lo + (hi - lo) \div 2

\* The range of the task on top.
Left == tasks[1][1]
Right == tasks[1][2]
End1 == Mid(Left, Right)

Split ==
    /\ pc = "split"
    /\ tasks # <<>>
    /\ tasks[1][3] = "sort"
    /\ tasks' = IF Left >= Right
                THEN Tail(tasks)
                ELSE <<<<Left, End1, "sort">>, <<End1 + 1, Right, "sort">>,
                       <<Left, Right, "merge">>>> \o Tail(tasks)
    /\ UNCHANGED <<arrayVars, begin1, begin2, index, tmp>>

MergeBegin ==
    /\ pc = "split"
    /\ tasks # <<>>
    /\ tasks[1][3] = "merge"
    /\ begin1' = Left
    /\ begin2' = End1 + 1
    /\ index' = Left
    /\ pc' = "merge"
    /\ UNCHANGED <<arr, size, input, tasks, tmp>>

\* The first half has the smaller element, or the second has none left.
TakeFirst ==
    /\ pc = "merge"
    /\ begin1 <= End1
    /\ begin2 <= Right => arr[begin1] <= arr[begin2]
    /\ tmp' = [tmp EXCEPT ![index] = arr[begin1]]
    /\ index' = index + 1
    /\ begin1' = begin1 + 1
    /\ UNCHANGED <<arrayVars, tasks, begin2>>

TakeSecond ==
    /\ pc = "merge"
    /\ begin2 <= Right
    /\ begin1 <= End1 => arr[begin1] > arr[begin2]
    /\ tmp' = [tmp EXCEPT ![index] = arr[begin2]]
    /\ index' = index + 1
    /\ begin2' = begin2 + 1
    /\ UNCHANGED <<arrayVars, tasks, begin1>>

\* Mutant: the loop over the rest of the first half is missing.
CopyBackEarly ==
    /\ pc = "merge"
    /\ begin2 > Right
    /\ arr' = [p \in 0 .. size - 1 |-> IF p \in Left .. Right THEN tmp[p] ELSE arr[p]]
    /\ tasks' = Tail(tasks)
    /\ pc' = "split"
    /\ UNCHANGED <<size, input, begin1, begin2, index, tmp>>

CopyBack ==
    /\ pc = "merge"
    /\ begin1 > End1 /\ begin2 > Right
    /\ arr' = [p \in 0 .. size - 1 |-> IF p \in Left .. Right THEN tmp[p] ELSE arr[p]]
    /\ tasks' = Tail(tasks)
    /\ pc' = "split"
    /\ UNCHANGED <<size, input, begin1, begin2, index, tmp>>

MergeReturn ==
    /\ pc = "split"
    /\ tasks = <<>>
    /\ pc' = "done"
    /\ UNCHANGED <<arr, size, input, mergeVars>>

MergeStep ==
    \/ Split \/ MergeBegin
    \/ TakeFirst \/ TakeSecond \/ CopyBack \/ MergeReturn

----------------------------------------------------------------------------
(* The invariant                                                           *)

MergeTypes ==
    /\ tasks \in Seq((0 .. size) \X (-1 .. size - 1) \X {"sort", "merge"})
    /\ tmp \in [0 .. size - 1 -> Values]
    /\ begin1 \in Int /\ begin2 \in Int /\ index \in Int

\* lo .. hi is inside one half of what the n-th task will merge.
InOneHalf(n, lo, hi) ==
    \/ tasks[n][1] <= lo /\ hi <= Mid(tasks[n][1], tasks[n][2])
    \/ Mid(tasks[n][1], tasks[n][2]) < lo /\ hi <= tasks[n][2]

\* A task comes before those to its right and before the merge it prepares.
TasksNest ==
    /\ \A n \in 1 .. Len(tasks) : tasks[n][3] = "merge" => tasks[n][1] < tasks[n][2]
    /\ \A m, n \in 1 .. Len(tasks) : m < n =>
          \/ tasks[m][2] < tasks[n][1]
          \/ tasks[n][3] = "merge" /\ InOneHalf(n, tasks[m][1], tasks[m][2])

\* One of the first n tasks will put both positions in order.
PendingBefore(n, p, q) ==
    \E m \in 1 .. n : m <= Len(tasks) /\ tasks[m][1] <= p /\ q <= tasks[m][2]

\* When a task's turn to merge comes, each of its halves is in order; when
\* there is no task left, so is the array.
HalvesSorted ==
    \A n \in 1 .. Len(tasks), p, q \in 0 .. size - 1 :
        (tasks[n][3] = "merge" /\ p < q /\ InOneHalf(n, p, q)) =>
            arr[p] <= arr[q] \/ PendingBefore(n - 1, p, q)

RestSorted ==
    \A p, q \in 0 .. size - 1 :
        p < q => arr[p] <= arr[q] \/ PendingBefore(Len(tasks), p, q)

\* What has been merged is in order and not above what has not; together they
\* are the elements of both halves.
Merging ==
    pc = "merge" =>
        /\ tasks # <<>> /\ tasks[1][3] = "merge"
        /\ Left <= begin1 /\ begin1 <= End1 + 1
        /\ End1 < begin2 /\ begin2 <= Right + 1
        /\ index = begin1 + begin2 - End1 - 1
        /\ SortedOn(tmp, Left .. index - 1)
        /\ \A p \in Left .. index - 1 :
              \A q \in (begin1 .. End1) \cup (begin2 .. Right) : tmp[p] <= arr[q]
        /\ \A p \in Left .. index - 1 : \E q \in Left .. Right : tmp[p] = arr[q]
        /\ \A v \in Values :
              Count(tmp, Left .. index - 1, v)
                = Count(arr, Left .. begin1 - 1, v) + Count(arr, End1 + 1 .. begin2 - 1, v)

MergeInv ==
    pc \in {"split", "merge"} =>
        MergeTypes /\ TasksNest /\ HalvesSorted /\ RestSorted /\ Merging
=============================================================================
