----------------------------- MODULE SortArray -----------------------------
(***************************************************************************)
(* What the sorting functions of code_2026_05_28/code1/Sort.h share: the   *)
(* array they work on and what their callers expect of them.               *)
(*                                                                         *)
(* A vector of n integers is a function on 0 .. n - 1.                     *)
(***************************************************************************)
EXTENDS Integers, FiniteSets

CONSTANTS
    Values,     \* the integers an array may hold
    Sizes,      \* the sizes of the arrays
    IntMax,     \* the largest int
    SizeMax     \* the largest size_t

ASSUME ValuesAssumption == Values \subseteq Int

\* An int and a size_t have whole numbers of bits, and an int has fewer.
ASSUME WidthAssumption ==
    /\ IntMax \in Nat /\ SizeMax \in Nat /\ IntMax < SizeMax
    /\ (SizeMax + 1) % (2 * (IntMax + 1)) = 0

\* The children of every position of a heap have an int for an index.
ASSUME SizesAssumption == Sizes \subseteq {n \in Nat : 2 * n <= IntMax}

VARIABLES
    arr,        \* the array
    size,       \* its number of elements
    input,      \* the array as the caller passed it
    pc          \* the loop that runs, "done" when the call has returned

arrayVars == <<arr, size, input, pc>>

\* The caller passes any array.
ArrayInit ==
    /\ size \in Sizes
    /\ arr \in [0 .. size - 1 -> Values]
    /\ input = arr

\* arr.size() - 1 is unsigned: for an empty vector it is the largest size_t.
SizeLess1 == IF size = 0 THEN SizeMax ELSE size - 1

\* A size_t as an int: the bits that an int has, the highest of them the sign.
ToInt(n) ==
    LET low == n % (2 * (IntMax + 1))
    IN  IF low <= IntMax THEN low ELSE low - 2 * (IntMax + 1)

LastIndex == ToInt(SizeLess1)

Swap(a, p, q) == [a EXCEPT ![p] = a[q], ![q] = a[p]]

\* Where v occurs among the positions S of an array, and how often.
Positions(a, S, v) == {p \in S : a[p] = v}
Count(a, S, v) == Cardinality(Positions(a, S, v))

SortedOn(a, S) == \A p, q \in S : p < q => a[p] <= a[q]

SameElements == \A v \in Values : Count(arr, 0 .. size - 1, v) = Count(input, 0 .. size - 1, v)

----------------------------------------------------------------------------

\* The array keeps its type, its size and its elements.
ArrayInv ==
    /\ size \in Sizes
    /\ arr \in [0 .. size - 1 -> Values] /\ input \in [0 .. size - 1 -> Values]
    /\ pc \in {"heapify", "pop", "down", "call", "partition", "split", "merge", "done"}
    /\ SameElements

\* What a caller gets from each of the three functions: the elements of his
\* array, each as often as before, in ascending order.
Sorts == pc = "done" => SortedOn(arr, 0 .. size - 1) /\ SameElements
=============================================================================
