---------------------------- MODULE Sort_proofs ----------------------------
(***************************************************************************)
(* The three functions sort, for arrays of every size and with every       *)
(* choice rand() may make.  First come lemmas about the operators of       *)
(* SortArray; then each function keeps its own invariant; last, those of   *)
(* the two functions that were not called say nothing.                     *)
(***************************************************************************)
EXTENDS Sort, FiniteSetTheorems, WellFoundedInduction, TLAPS

\* A swap inside the array exchanges two elements and leaves the others alone.
LEMMA SwapValues ==
    ASSUME NEW n \in Nat, NEW a \in [0 .. n - 1 -> Values],
           NEW p \in 0 .. n - 1, NEW q \in 0 .. n - 1
    PROVE  /\ Swap(a, p, q) \in [0 .. n - 1 -> Values]
           /\ Swap(a, p, q)[p] = a[q] /\ Swap(a, p, q)[q] = a[p]
           /\ \A r \in 0 .. n - 1 : r # p /\ r # q => Swap(a, p, q)[r] = a[r]
BY DEF Swap

\* There are finitely many positions to count.
LEMMA PositionsFinite ==
    ASSUME NEW a, NEW lo \in Int, NEW hi \in Int, NEW v
    PROVE  IsFiniteSet(Positions(a, lo .. hi, v))
<1>1. IsFiniteSet(lo .. hi)
  BY FS_Interval
<1>2. Positions(a, lo .. hi, v) \in SUBSET (lo .. hi)
  BY DEF Positions
<1>3. QED
  BY <1>1, <1>2, FS_Subset

\* A swap changes no count.
LEMMA SwapCount ==
    ASSUME NEW n \in Nat, NEW a \in [0 .. n - 1 -> Values],
           NEW p \in 0 .. n - 1, NEW q \in 0 .. n - 1, NEW v
    PROVE  Count(Swap(a, p, q), 0 .. n - 1, v) = Count(a, 0 .. n - 1, v)
<1> DEFINE S == 0 .. n - 1
           b == Swap(a, p, q)
           T == Positions(a, S, v)
           U == Positions(b, S, v)
           g == [r \in T |-> IF r = p THEN q ELSE IF r = q THEN p ELSE r]
<1>1. b[p] = a[q] /\ b[q] = a[p] /\ \A r \in S : r # p /\ r # q => b[r] = a[r]
  BY SwapValues
<1>2. IsFiniteSet(T)
  BY PositionsFinite
<1> HIDE DEF b
<1>3. g \in [T -> U]
  BY <1>1 DEF Positions
<1>4. \A r, s \in T : g[r] = g[s] => r = s
  BY DEF Positions
<1>5. \A u \in U : \E r \in T : g[r] = u
  <2> SUFFICES ASSUME NEW u \in U PROVE \E r \in T : g[r] = u
    OBVIOUS
  <2> DEFINE r == IF u = p THEN q ELSE IF u = q THEN p ELSE u
  <2>1. r \in T
    BY <1>1 DEF Positions
  <2>2. g[r] = u
    BY <2>1
  <2>3. QED
    BY <2>1, <2>2
<1>6. g \in Bijection(T, U)
  BY <1>3, <1>4, <1>5 DEF Bijection, Injection, Surjection, IsInjective
<1>7. Cardinality(U) = Cardinality(T)
  BY <1>2, <1>6, FS_Bijection DEF ExistsBijection
<1>8. QED
  BY <1>7 DEF Count, b

\* A swap keeps the type of the array and its elements.
LEMMA SwapSame ==
    ASSUME size \in Nat, arr \in [0 .. size - 1 -> Values], SameElements,
           NEW p \in 0 .. size - 1, NEW q \in 0 .. size - 1,
           arr' = Swap(arr, p, q), size' = size, input' = input
    PROVE  arr' \in [0 .. size - 1 -> Values] /\ SameElements'
<1>1. arr' \in [0 .. size - 1 -> Values]
  BY SwapValues
<1>2. \A v \in Values : Count(arr', 0 .. size - 1, v) = Count(arr, 0 .. size - 1, v)
  BY SwapCount
<1>3. QED
  BY <1>1, <1>2 DEF SameElements

\* A set of naturals that is not empty has a least element.
LEMMA LeastNatural ==
    ASSUME NEW T \in SUBSET Nat, T # {}
    PROVE  \E m \in T : \A x \in T : m <= x
<1>1. PICK m \in T : \A x \in T : ~(<<x, m>> \in OpToRel(<, Nat))
  BY NatLessThanWellFounded, WFMin
<1>2. \A x \in T : ~(x < m)
  BY <1>1 DEF OpToRel
<1>3. QED
  BY <1>2

\* Counting over two disjoint intervals.
LEMMA CountSplit ==
    ASSUME NEW a, NEW lo \in Int, NEW mid \in Int, NEW hi \in Int, NEW v,
           lo <= mid + 1, mid <= hi
    PROVE  /\ Count(a, lo .. hi, v) = Count(a, lo .. mid, v) + Count(a, mid + 1 .. hi, v)
           /\ Count(a, lo .. mid, v) \in Nat /\ Count(a, mid + 1 .. hi, v) \in Nat
<1> DEFINE P == Positions(a, lo .. mid, v)
           Q == Positions(a, mid + 1 .. hi, v)
           R == Positions(a, lo .. hi, v)
<1>1. IsFiniteSet(P) /\ IsFiniteSet(Q)
  BY PositionsFinite
<1>2. P \cap Q = {} /\ P \cup Q = R
  BY DEF Positions
<1>3. Cardinality(R) = Cardinality(P) + Cardinality(Q)
  <2> HIDE DEF P, Q, R
  <2>1. Cardinality(P \cup Q) = Cardinality(P) + Cardinality(Q) - Cardinality(P \cap Q)
    BY <1>1, FS_Union
  <2>2. Cardinality(P) \in Nat /\ Cardinality(Q) \in Nat /\ Cardinality(P \cap Q) = 0
    BY <1>1, <1>2, FS_EmptySet, FS_CardinalityType
  <2>3. QED
    BY <1>2, <2>1, <2>2
<1>4. QED
  BY <1>1, <1>3, FS_CardinalityType DEF Count

\* The count over an interval is a natural number, 0 if the interval is empty.
LEMMA CountType ==
    ASSUME NEW a, NEW lo \in Int, NEW hi \in Int, NEW v
    PROVE  /\ Count(a, lo .. hi, v) \in Nat
           /\ lo > hi => Count(a, lo .. hi, v) = 0
<1> DEFINE P == Positions(a, lo .. hi, v)
<1>1. IsFiniteSet(P)
  BY PositionsFinite
<1>2. lo > hi => P = {}
  BY DEF Positions
<1>3. QED
  BY <1>1, <1>2, FS_CardinalityType, FS_EmptySet DEF Count

\* The count over an interval of one position.
LEMMA CountOne ==
    ASSUME NEW a, NEW p \in Int, NEW v
    PROVE  Count(a, p .. p, v) = IF a[p] = v THEN 1 ELSE 0
<1>1. CASE a[p] = v
  <2>1. Positions(a, p .. p, v) = {p}
    BY <1>1 DEF Positions
  <2>2. QED
    BY <1>1, <2>1, FS_Singleton DEF Count
<1>2. CASE a[p] # v
  <2>1. Positions(a, p .. p, v) = {}
    BY <1>2 DEF Positions
  <2>2. QED
    BY <1>2, <2>1, FS_EmptySet DEF Count
<1>3. QED
  BY <1>1, <1>2

\* Counts depend only on what the array holds at the positions counted.
LEMMA CountSame ==
    ASSUME NEW a, NEW b, NEW S, NEW v, \A p \in S : a[p] = b[p]
    PROVE  Count(a, S, v) = Count(b, S, v)
<1>1. Positions(a, S, v) = Positions(b, S, v)
  BY DEF Positions
<1>2. QED
  BY <1>1 DEF Count

----------------------------------------------------------------------------
(* HeapSort                                                                *)

\* Sizes are not negative.
LEMMA SizesNat == Sizes \subseteq Nat
BY SizesAssumption

\* The number before a multiple of w is w - 1, modulo w: its lower bits are all set.
LEMMA AllBits ==
    ASSUME NEW w \in Nat, w > 1, NEW s \in Nat, (s + 1) % w = 0
    PROVE  s % w = w - 1
<1>1. PICK q, r : q = s \div w /\ r = s % w
  OBVIOUS
<1>2. r \in 0 .. w - 1 /\ s = q * w + r /\ q \in Int
  BY <1>1
<1>3. PICK k : k = (s + 1) \div w
  OBVIOUS
<1>4. s + 1 = k * w /\ k \in Int
  BY <1>3
<1>5. (k - q) * w = r + 1
  BY ONLY <1>2, <1>4, w \in Nat, s \in Nat
<1>6. PICK d \in Int : d = k - q
  BY <1>2, <1>4
<1>7. d * w = r + 1
  BY <1>5, <1>6
<1>8. (d >= 2 => d * w >= 2 * w) /\ (d <= 0 => d * w <= 0)
  BY <1>6
<1>9. d = 1
  BY <1>2, <1>6, <1>7, <1>8
<1>10. QED
  BY <1>1, <1>2, <1>7, <1>9

\* The size of an array, less one, is what it should be as an int, also that of an empty
\* array, whose size less one is the largest size_t: -1.
LEMMA LastIndexFacts == size \in Sizes => LastIndex = size - 1
<1> SUFFICES ASSUME size \in Sizes PROVE LastIndex = size - 1
  OBVIOUS
<1>1. /\ IntMax \in Nat /\ SizeMax \in Nat /\ IntMax < SizeMax
      /\ (SizeMax + 1) % (2 * (IntMax + 1)) = 0
      /\ size \in Nat /\ size <= IntMax
  BY WidthAssumption, SizesAssumption
<1>2. CASE size = 0
  <2>1. PICK w \in Nat : w = 2 * (IntMax + 1) /\ w > 1
    BY <1>1
  <2>2. SizeMax % w = w - 1
    BY <1>1, <2>1, AllBits
  <2>3. LastIndex = w - 1 - w
    BY <1>1, <1>2, <2>1, <2>2 DEF LastIndex, ToInt, SizeLess1
  <2>4. QED
    BY <1>2, <2>1, <2>3
<1>3. CASE size # 0
  <2>1. size - 1 \in 0 .. IntMax
    BY <1>1, <1>3
  <2>2. (size - 1) % (2 * (IntMax + 1)) = size - 1
    BY <1>1, <2>1
  <2>3. QED
    BY <1>1, <1>3, <2>1, <2>2 DEF LastIndex, ToInt, SizeLess1
<1>4. QED
  BY <1>2, <1>3

USE SizesNat, ValuesAssumption

\* A parent is in front of its child.
LEMMA ParentBelow ==
    ASSUME NEW c \in Int, c >= 1 PROVE Parent(c) \in Nat /\ Parent(c) < c
BY DEF Parent

\* The children of p are 2p + 1 and 2p + 2.
LEMMA ParentChild ==
    ASSUME NEW c \in Int, NEW p \in Nat
    PROVE  c >= 1 /\ Parent(c) = p <=> c = 2 * p + 1 \/ c = 2 * p + 2
BY DEF Parent

\* The top of a heap is its largest element: the least position with a larger
\* one would have a parent that is larger, too.
LEMMA TopIsLargest ==
    ASSUME NEW last \in Int, last < size, size \in Nat,
           arr \in [0 .. size - 1 -> Values], HeapBut({}, last)
    PROVE  \A c \in 0 .. last : arr[c] <= arr[0]
<1> DEFINE T == {c \in 0 .. last : arr[c] > arr[0]}
<1>1. \A c \in 0 .. size - 1 : arr[c] \in Int
  OBVIOUS
<1>2. \A c \in 1 .. last : arr[c] <= arr[Parent(c)]
  BY DEF HeapBut
<1>3. T = {}
  <2> SUFFICES ASSUME T # {} PROVE FALSE
    OBVIOUS
  <2>1. T \in SUBSET Nat
    OBVIOUS
  <2>2. PICK m \in T : \A x \in T : m <= x
    BY <2>1, LeastNatural
  <2>3. m \in 0 .. last /\ arr[m] > arr[0]
    OBVIOUS
  <2>4. m \in 1 .. last
    BY <2>3, <1>1
  <2>5. Parent(m) \in 0 .. last /\ Parent(m) < m
    BY <2>4, ParentBelow
  <2>6. Parent(m) \notin T
    BY <2>2, <2>4, <2>5
  <2>7. arr[Parent(m)] <= arr[0]
    BY <1>1, <2>4, <2>5, <2>6
  <2>8. QED
    BY <1>1, <1>2, <2>3, <2>4, <2>5, <2>7
<1>4. QED
  BY <1>1, <1>3

\* What every step of HeapSort needs of the array.
LEMMA ArrayFacts ==
    ArrayInv => /\ size \in Nat
                /\ arr \in [0 .. size - 1 -> Values]
                /\ \A p \in 0 .. size - 1 : arr[p] \in Int
BY DEF ArrayInv

\* A turn of the loop of AdjustUp.
LEMMA AdjustUpSwapKeeps == ArrayInv /\ HeapInv /\ AdjustUpSwap => ArrayInv' /\ HeapInv' /\ Sorts'
<1> SUFFICES ASSUME ArrayInv, HeapInv, AdjustUpSwap PROVE ArrayInv' /\ HeapInv' /\ Sorts'
  OBVIOUS
<1> DEFINE p == Parent(at)
<1>1. size \in Nat /\ arr \in [0 .. size - 1 -> Values] /\ \A q \in 0 .. size - 1 : arr[q] \in Int
  BY ArrayFacts
<1>2. /\ pc = "heapify" /\ i \in 0 .. size - 1 /\ at \in 1 .. i /\ arr[at] > arr[p]
      /\ HeapBut({at}, i) /\ FitsBelowParent(i)
  BY <1>1 DEF AdjustUpSwap, HeapInv, HeapTypes, Rises
<1>3. p \in Nat /\ p < at /\ at' = p /\ arr' = Swap(arr, at, p)
  BY <1>2, ParentBelow DEF AdjustUpSwap
<1>4. size' = size /\ input' = input /\ pc' = pc /\ i' = i
  BY DEF AdjustUpSwap
<1>5. ArrayInv'
  BY <1>1, <1>2, <1>3, <1>4, SwapSame DEF ArrayInv
<1>6. arr'[at] = arr[p] /\ arr'[p] = arr[at] /\ \A q \in 0 .. size - 1 : q # at /\ q # p => arr'[q] = arr[q]
  BY <1>1, <1>2, <1>3, SwapValues
<1>7. \A c \in 1 .. i : Parent(c) \in 0 .. size - 1 /\ Parent(c) < c
  BY <1>1, <1>2, ParentBelow
<1>8. \A c \in (1 .. i) \ {at} : arr[c] <= arr[Parent(c)]
  BY <1>2 DEF HeapBut
<1>9. \A c \in 1 .. i : Parent(c) = at => arr[c] <= arr[p]
  BY <1>1, <1>2 DEF FitsBelowParent, ChildrenOf
<1> HIDE DEF p
<1>10. HeapBut({at}, i)'
  <2> SUFFICES ASSUME NEW c \in (1 .. i) \ {p} PROVE arr'[c] <= arr'[Parent(c)]
    BY <1>3, <1>4 DEF HeapBut
  <2>1. CASE c = at
    BY <2>1, <1>1, <1>2, <1>3, <1>6, <1>7 DEF p
  <2>2. CASE c # at /\ Parent(c) = at
    BY <2>2, <1>1, <1>2, <1>3, <1>6, <1>7, <1>9
  <2>3. CASE c # at /\ Parent(c) = p
    BY <2>3, <1>1, <1>2, <1>3, <1>6, <1>7, <1>8
  <2>4. CASE c # at /\ Parent(c) # at /\ Parent(c) # p
    <3>1. c \in 0 .. size - 1 /\ Parent(c) \in 0 .. size - 1
      BY <1>2, <1>7, <1>1
    <3>2. arr'[c] = arr[c] /\ arr'[Parent(c)] = arr[Parent(c)]
      BY <2>4, <3>1, <1>6
    <3>3. QED
      BY <2>4, <3>2, <1>8
  <2>5. QED
    BY <2>1, <2>2, <2>3, <2>4
<1>11. FitsBelowParent(i)'
  <2> SUFFICES ASSUME p > 0, NEW c \in 1 .. i, Parent(c) = p PROVE arr'[c] <= arr'[Parent(p)]
    BY <1>1, <1>3, <1>4 DEF FitsBelowParent, ChildrenOf
  <2>1. arr'[Parent(p)] = arr[Parent(p)] /\ arr[p] <= arr[Parent(p)]
    BY <1>2, <1>3, <1>6, <1>7, <1>8
  <2>2. arr'[c] <= arr[p]
    BY <1>1, <1>2, <1>3, <1>6, <1>7, <1>8
  <2>3. QED
    BY <2>1, <2>2, <1>1, <1>2, <1>3, <1>6, <1>7
<1>12. HeapInv'
  BY <1>1, <1>2, <1>3, <1>4, <1>10, <1>11 DEF HeapInv, HeapTypes
<1>13. QED
  BY <1>2, <1>4, <1>5, <1>12 DEF Sorts

\* The element has found its place; the next one follows.
LEMMA AdjustUpEndKeeps == ArrayInv /\ HeapInv /\ AdjustUpEnd => ArrayInv' /\ HeapInv' /\ Sorts'
<1> SUFFICES ASSUME ArrayInv, HeapInv, AdjustUpEnd PROVE ArrayInv' /\ HeapInv' /\ Sorts'
  OBVIOUS
<1>1. size \in Nat /\ \A q \in 0 .. size - 1 : arr[q] \in Int
  BY ArrayFacts
<1>2. /\ pc = "heapify" /\ i \in 0 .. size - 1 /\ at \in 0 .. i
      /\ at > 0 => ~(arr[at] > arr[Parent(at)])
      /\ HeapBut({at}, i)
  BY <1>1 DEF AdjustUpEnd, HeapInv, HeapTypes, Rises
<1>3. UNCHANGED arrayVars /\ i' = i + 1 /\ at' = i + 1
  BY DEF AdjustUpEnd
<1>4. \A c \in 1 .. i : Parent(c) \in 0 .. size - 1 /\ Parent(c) < c
  BY <1>1, <1>2, ParentBelow
<1>5. \A c \in 1 .. i : arr[c] <= arr[Parent(c)]
  BY <1>1, <1>2, <1>4 DEF HeapBut
<1>6. \A c \in 1 .. i + 1 : Parent(c) # i + 1
  BY <1>2, ParentBelow
<1>7. i' < size' => HeapBut({at}, i)' /\ FitsBelowParent(i)'
  BY <1>1, <1>2, <1>3, <1>5, <1>6 DEF arrayVars, HeapBut, FitsBelowParent, ChildrenOf
<1>8. ~(i' < size') => HeapBut({}, size - 1)'
  BY <1>1, <1>2, <1>3, <1>5 DEF arrayVars, HeapBut
<1>9. HeapInv'
  BY <1>1, <1>2, <1>3, <1>7, <1>8 DEF arrayVars, HeapInv, HeapTypes
<1>10. QED
  BY <1>2, <1>3, <1>9 DEF arrayVars, ArrayInv, SameElements, Sorts

\* Between the loops the whole array is a heap.
LEMMA HeapifiedKeeps == ArrayInv /\ HeapInv /\ Heapified => ArrayInv' /\ HeapInv' /\ Sorts'
<1> SUFFICES ASSUME ArrayInv, HeapInv, Heapified PROVE ArrayInv' /\ HeapInv' /\ Sorts'
  OBVIOUS
<1>1. size \in Nat /\ LastIndex = size - 1
  BY ArrayFacts, LastIndexFacts DEF ArrayInv
<1>2. HeapBut({}, size - 1) /\ UNCHANGED <<arr, size, input>> /\ i' = size - 1 /\ pc' = "pop" /\ at' = 0
  BY <1>1 DEF Heapified, HeapInv, HeapTypes
<1>3. HeapBut({}, i)' /\ SortedFrom(i + 1)'
  BY <1>1, <1>2 DEF HeapBut, SortedFrom
<1>4. HeapInv'
  BY <1>1, <1>2, <1>3 DEF HeapInv, HeapTypes
<1>5. QED
  BY <1>2, <1>4 DEF ArrayInv, SameElements, Sorts

\* The largest element goes behind the heap, and one that may be too small
\* comes to its top.
LEMMA PopKeeps == ArrayInv /\ HeapInv /\ Pop => ArrayInv' /\ HeapInv' /\ Sorts'
<1> SUFFICES ASSUME ArrayInv, HeapInv, Pop PROVE ArrayInv' /\ HeapInv' /\ Sorts'
  OBVIOUS
<1>1. size \in Nat /\ arr \in [0 .. size - 1 -> Values] /\ \A q \in 0 .. size - 1 : arr[q] \in Int
  BY ArrayFacts
<1>2. pc = "pop" /\ i \in 0 .. size - 1 /\ HeapBut({}, i) /\ SortedFrom(i + 1)
  BY <1>1 DEF Pop, HeapInv, HeapTypes
<1>3. /\ arr' = Swap(arr, i, 0) /\ at' = 0 /\ pc' = "down"
      /\ size' = size /\ input' = input /\ i' = i
  BY DEF Pop
<1>4. ArrayInv'
  BY <1>1, <1>2, <1>3, SwapSame DEF ArrayInv
<1>5. arr'[i] = arr[0] /\ arr'[0] = arr[i] /\ \A q \in 0 .. size - 1 : q # i /\ q # 0 => arr'[q] = arr[q]
  BY <1>1, <1>2, <1>3, SwapValues
<1>6. \A c \in 0 .. i : arr[c] <= arr[0]
  BY <1>1, <1>2, TopIsLargest
<1>7. \A c \in 1 .. i : Parent(c) \in Nat /\ Parent(c) < c
  BY <1>2, ParentBelow
<1>8. HeapBut(ChildrenOf(at), i - 1)'
  <2> SUFFICES ASSUME NEW c \in 1 .. i - 1, Parent(c) # 0 PROVE arr'[c] <= arr'[Parent(c)]
    BY <1>2, <1>3, <1>1 DEF HeapBut, ChildrenOf
  <2>1. c \in 1 .. i /\ c \in 0 .. size - 1 /\ Parent(c) \in 0 .. size - 1 /\ Parent(c) # i
    BY <1>2, <1>7, <1>1
  <2>2. arr'[c] = arr[c] /\ arr'[Parent(c)] = arr[Parent(c)]
    BY <2>1, <1>5
  <2>3. QED
    BY <2>1, <2>2, <1>2 DEF HeapBut
<1>9. SortedFrom(i)'
  <2> SUFFICES ASSUME NEW p \in 0 .. size - 1, NEW q \in 0 .. size - 1, p < q, q >= i
               PROVE  arr'[p] <= arr'[q]
    BY <1>3 DEF SortedFrom
  <2>1. \A r \in 0 .. i : arr'[r] <= arr[0]
    BY <1>1, <1>2, <1>5, <1>6
  <2>2. CASE q = i
    BY <2>1, <2>2, <1>2, <1>5
  <2>3. CASE q > i
    <3>1. arr'[q] = arr[q] /\ \A r \in 0 .. q - 1 : arr[r] <= arr[q]
      BY <2>3, <1>2, <1>5, <1>1 DEF SortedFrom
    <3>2. CASE p <= i
      <4>1. PICK r \in 0 .. i : arr'[p] = arr[r]
        BY <3>2, <1>2, <1>5
      <4>2. r \in 0 .. q - 1
        BY <2>3, <1>2
      <4>3. QED
        BY <3>1, <4>1, <4>2
    <3>3. CASE p > i
      BY <3>1, <3>3, <1>2, <1>5
    <3>4. QED
      BY <3>2, <3>3, <1>2
  <2>4. QED
    BY <2>2, <2>3, <1>2
<1>10. FitsBelowParent(i - 1)'
  BY <1>3 DEF FitsBelowParent
<1>11. HeapInv'
  BY <1>1, <1>2, <1>3, <1>8, <1>9, <1>10 DEF HeapInv, HeapTypes
<1>12. QED
  BY <1>3, <1>4, <1>11 DEF Sorts

\* The larger child is a child inside the heap, and no child is larger.
LEMMA LargerChildIs ==
    ASSUME ArrayInv, HeapInv, pc = "down", at * 2 + 1 < i
    PROVE  /\ LargerChild \in 1 .. i - 1 /\ Parent(LargerChild) = at
           /\ \A c \in 1 .. i - 1 : Parent(c) = at => arr[c] <= arr[LargerChild]
<1>1. size \in Nat /\ \A q \in 0 .. size - 1 : arr[q] \in Int
  BY ArrayFacts
<1>2. i \in 0 .. size - 1 /\ at \in Nat
  BY <1>1 DEF HeapInv, HeapTypes
<1>3. \A c \in 1 .. i - 1 : Parent(c) = at <=> c = 2 * at + 1 \/ c = 2 * at + 2
  BY <1>2, ParentChild
<1>4. CASE LargerChild = 2 * at + 1
  BY <1>1, <1>2, <1>3, <1>4 DEF LargerChild
<1>5. CASE LargerChild = 2 * at + 2 /\ 2 * at + 2 < i /\ arr[2 * at + 1] < arr[2 * at + 2]
  BY <1>1, <1>2, <1>3, <1>5
<1>6. QED
  BY <1>2, <1>4, <1>5 DEF LargerChild

\* A turn of the loop of AdjustDown.
LEMMA AdjustDownSwapKeeps == ArrayInv /\ HeapInv /\ AdjustDownSwap => ArrayInv' /\ HeapInv' /\ Sorts'
<1> SUFFICES ASSUME ArrayInv, HeapInv, AdjustDownSwap PROVE ArrayInv' /\ HeapInv' /\ Sorts'
  OBVIOUS
<1> DEFINE d == LargerChild
<1>1. size \in Nat /\ arr \in [0 .. size - 1 -> Values] /\ \A q \in 0 .. size - 1 : arr[q] \in Int
  BY ArrayFacts
<1>2. /\ pc = "down" /\ i \in 0 .. size - 1 /\ at \in 0 .. size - 1 /\ at <= i
      /\ at * 2 + 1 < i /\ arr[at] < arr[d]
      /\ HeapBut(ChildrenOf(at), i - 1) /\ FitsBelowParent(i - 1) /\ SortedFrom(i)
  BY <1>1 DEF AdjustDownSwap, Sinks, HeapInv, HeapTypes
<1>3. /\ d \in 1 .. i - 1 /\ Parent(d) = at
      /\ \A c \in 1 .. i - 1 : Parent(c) = at => arr[c] <= arr[d]
  BY <1>2, LargerChildIs
<1>4. /\ arr' = Swap(arr, at, d) /\ at' = d
      /\ size' = size /\ input' = input /\ pc' = pc /\ i' = i
  BY DEF AdjustDownSwap
<1> HIDE DEF d
<1>5. ArrayInv'
  BY <1>1, <1>2, <1>3, <1>4, SwapSame DEF ArrayInv
<1>6. arr'[at] = arr[d] /\ arr'[d] = arr[at] /\ \A q \in 0 .. size - 1 : q # at /\ q # d => arr'[q] = arr[q]
  BY <1>1, <1>2, <1>3, <1>4, SwapValues
<1>7. \A c \in 1 .. i - 1 : Parent(c) \in 0 .. i - 1 /\ Parent(c) < c
  BY <1>2, ParentBelow
<1>8. \A c \in 1 .. i - 1 : Parent(c) # at => arr[c] <= arr[Parent(c)]
  BY <1>1, <1>2 DEF HeapBut, ChildrenOf
<1>9. at > 0 => \A c \in 1 .. i - 1 : Parent(c) = at => arr[c] <= arr[Parent(at)]
  BY <1>1, <1>2 DEF FitsBelowParent, ChildrenOf
<1>10. HeapBut(ChildrenOf(at), i - 1)'
  <2> SUFFICES ASSUME NEW c \in 1 .. i - 1, Parent(c) # d PROVE arr'[c] <= arr'[Parent(c)]
    BY <1>1, <1>2, <1>4 DEF HeapBut, ChildrenOf
  <2>1. c \in 0 .. size - 1 /\ Parent(c) \in 0 .. size - 1
    BY <1>2, <1>7, <1>1
  <2>2. CASE c = at
    <3>1. arr'[Parent(c)] = arr[Parent(c)]
      BY <2>1, <2>2, <1>3, <1>6, <1>7
    <3>2. QED
      BY <2>2, <3>1, <1>2, <1>3, <1>6, <1>9
  <2>3. CASE c # at /\ Parent(c) = at
    BY <2>3, <2>1, <1>1, <1>2, <1>3, <1>6
  <2>4. CASE c # at /\ Parent(c) # at
    <3>1. c # d
      BY <2>4, <1>3
    <3>2. arr'[c] = arr[c] /\ arr'[Parent(c)] = arr[Parent(c)]
      BY <2>1, <2>4, <3>1, <1>6
    <3>3. QED
      BY <2>4, <3>2, <1>8
  <2>5. QED
    BY <2>2, <2>3, <2>4
<1>11. FitsBelowParent(i - 1)'
  <2> SUFFICES ASSUME NEW c \in 1 .. i - 1, Parent(c) = d PROVE arr'[c] <= arr'[at]
    BY <1>1, <1>2, <1>3, <1>4 DEF FitsBelowParent, ChildrenOf
  <2>1. c \in 0 .. size - 1 /\ c # at /\ c # d
    BY <1>2, <1>3, <1>7, <1>1
  <2>2. arr[c] <= arr[d]
    BY <1>2, <1>3, <1>8
  <2>3. QED
    BY <2>1, <2>2, <1>6
<1>12. SortedFrom(i)'
  <2> SUFFICES ASSUME NEW p \in 0 .. size - 1, NEW q \in 0 .. size - 1, p < q, q >= i
               PROVE  arr'[p] <= arr'[q]
    BY <1>4 DEF SortedFrom
  <2>1. arr'[q] = arr[q]
    BY <1>2, <1>3, <1>6
  <2>2. \A r \in 0 .. q - 1 : arr[r] <= arr[q]
    BY <1>2, <1>1 DEF SortedFrom
  <2>3. PICK r \in 0 .. q - 1 : arr'[p] = arr[r]
    BY <1>2, <1>3, <1>6
  <2>4. QED
    BY <2>1, <2>2, <2>3
<1>13. HeapInv'
  BY <1>1, <1>2, <1>3, <1>4, <1>10, <1>11, <1>12 DEF HeapInv, HeapTypes
<1>14. QED
  BY <1>2, <1>4, <1>5, <1>13 DEF Sorts

\* The sinking element has found its place.
LEMMA AdjustDownEndKeeps == ArrayInv /\ HeapInv /\ AdjustDownEnd => ArrayInv' /\ HeapInv' /\ Sorts'
<1> SUFFICES ASSUME ArrayInv, HeapInv, AdjustDownEnd PROVE ArrayInv' /\ HeapInv' /\ Sorts'
  OBVIOUS
<1>1. size \in Nat /\ \A q \in 0 .. size - 1 : arr[q] \in Int
  BY ArrayFacts
<1>2. /\ pc = "down" /\ i \in 0 .. size - 1 /\ at \in 0 .. i /\ ~Sinks
      /\ HeapBut(ChildrenOf(at), i - 1) /\ SortedFrom(i)
  BY <1>1 DEF AdjustDownEnd, HeapInv, HeapTypes
<1>3. UNCHANGED <<arr, size, input, at>> /\ i' = i - 1 /\ pc' = "pop"
  BY DEF AdjustDownEnd
<1>4. \A c \in 1 .. i - 1 : arr[c] <= arr[Parent(c)]
  <2> SUFFICES ASSUME NEW c \in 1 .. i - 1 PROVE arr[c] <= arr[Parent(c)]
    OBVIOUS
  <2>1. CASE Parent(c) # at
    BY <2>1, <1>1, <1>2 DEF HeapBut, ChildrenOf
  <2>2. CASE Parent(c) = at
    <3>1. at * 2 + 1 < i
      BY <2>2, <1>2, ParentChild
    <3>2. LargerChild \in 1 .. i - 1 /\ arr[c] <= arr[LargerChild]
      BY <2>2, <3>1, <1>2, LargerChildIs
    <3>3. ~(arr[at] < arr[LargerChild])
      BY <3>1, <1>2 DEF Sinks
    <3>4. arr[at] \in Int /\ arr[c] \in Int /\ arr[LargerChild] \in Int
      BY <3>2, <1>1, <1>2
    <3>5. QED
      BY <2>2, <3>2, <3>3, <3>4
  <2>3. QED
    BY <2>1, <2>2
<1>5. HeapBut({}, i)' /\ SortedFrom(i + 1)'
  BY <1>1, <1>2, <1>3, <1>4 DEF HeapBut, SortedFrom
<1>6. HeapInv'
  BY <1>1, <1>2, <1>3, <1>5 DEF HeapInv, HeapTypes
<1>7. QED
  BY <1>3, <1>6 DEF ArrayInv, SameElements, Sorts

\* The heap is empty, and what is behind it is the whole array.
LEMMA HeapReturnKeeps == ArrayInv /\ HeapInv /\ HeapReturn => ArrayInv' /\ HeapInv' /\ Sorts'
<1> SUFFICES ASSUME ArrayInv, HeapInv, HeapReturn PROVE ArrayInv' /\ HeapInv' /\ Sorts'
  OBVIOUS
<1>1. UNCHANGED <<arr, size, input>> /\ pc' = "done" /\ SortedFrom(0)
  BY DEF HeapReturn, HeapInv, HeapTypes
<1>2. SortedOn(arr, 0 .. size - 1)
  BY <1>1 DEF SortedFrom, SortedOn
<1>3. QED
  BY <1>1, <1>2 DEF ArrayInv, HeapInv, SameElements, Sorts, SortedOn

\* A call of HeapSort starts with a heap of one element.
LEMMA HeapInitially == ArrayInit /\ HeapInit /\ pc = "heapify" => HeapInv
BY DEF ArrayInit, HeapInit, HeapInv, HeapTypes, HeapBut, FitsBelowParent

\* HeapSort keeps its invariant, and when it returns the array is sorted.
LEMMA HeapKeeps == ArrayInv /\ HeapInv /\ HeapStep => ArrayInv' /\ HeapInv' /\ Sorts'
BY AdjustUpSwapKeeps, AdjustUpEndKeeps, HeapifiedKeeps, PopKeeps, AdjustDownSwapKeeps,
   AdjustDownEndKeeps, HeapReturnKeeps DEF HeapStep

----------------------------------------------------------------------------
(* QuickSort: whatever pivot rand() picks                                  *)

Ranges == (0 .. size) \X (-1 .. size - 1)

\* What every step of QuickSort needs of the array and of the stack of calls.
LEMMA QuickFacts ==
    ASSUME ArrayInv, QuickInv, pc \in {"call", "partition"}
    PROVE  /\ size \in Nat
           /\ arr \in [0 .. size - 1 -> Values]
           /\ \A p \in 0 .. size - 1 : arr[p] \in Int
           /\ calls \in Seq(Ranges)
           /\ Len(calls) \in Nat
           /\ \A n \in 1 .. Len(calls) : /\ calls[n] \in Ranges
                                         /\ calls[n][1] \in 0 .. size
                                         /\ calls[n][2] \in -1 .. size - 1
<1>1. size \in Nat /\ arr \in [0 .. size - 1 -> Values]
  BY DEF ArrayInv
<1>2. calls \in Seq(Ranges)
  BY DEF QuickInv, QuickTypes, Ranges
<1>3. \A n \in 1 .. Len(calls) : calls[n] \in Ranges
  BY <1>2
<1>4. Len(calls) \in Nat
  BY <1>2
<1>5. QED
  BY <1>1, <1>2, <1>3, <1>4 DEF Ranges

\* The stack without its top.
LEMMA TailFacts ==
    ASSUME ArrayInv, QuickInv, pc = "call", calls # <<>>
    PROVE  /\ Tail(calls) \in Seq(Ranges)
           /\ Len(Tail(calls)) = Len(calls) - 1
           /\ \A n \in 1 .. Len(calls) - 1 : Tail(calls)[n] = calls[n + 1]
           /\ 1 \in 1 .. Len(calls)
<1>1. calls \in Seq(Ranges)
  BY QuickFacts
<1>2. QED
  BY <1>1

\* A call for one element or none returns at once.
LEMMA QuickTrivialKeeps == ArrayInv /\ QuickInv /\ QuickTrivial => ArrayInv' /\ QuickInv' /\ Sorts'
<1> SUFFICES ASSUME ArrayInv, QuickInv, QuickTrivial PROVE ArrayInv' /\ QuickInv' /\ Sorts'
  OBVIOUS
<1>1. pc = "call" /\ calls # <<>> /\ calls[1][1] >= calls[1][2] /\ calls' = Tail(calls)
  BY DEF QuickTrivial
<1>2. arr' = arr /\ size' = size /\ input' = input /\ pc' = pc
  BY DEF QuickTrivial, arrayVars
<1>3. /\ size \in Nat /\ Len(calls) \in Nat /\ 1 \in 1 .. Len(calls)
      /\ calls' \in Seq(Ranges) /\ Len(calls') = Len(calls) - 1
      /\ \A n \in 1 .. Len(calls) - 1 : calls'[n] = calls[n + 1]
      /\ \A n \in 1 .. Len(calls) : calls[n][1] \in Int /\ calls[n][2] \in Int
  BY <1>1, QuickFacts, TailFacts
<1>4. CallsAscend'
  BY <1>1, <1>2, <1>3 DEF QuickInv, CallsAscend
<1>5. SortedElsewhere'
  <2> SUFFICES ASSUME NEW p \in 0 .. size - 1, NEW q \in 0 .. size - 1, p < q, ~(arr[p] <= arr[q])
               PROVE  StillToSort(p, q)'
    BY <1>2 DEF SortedElsewhere
  <2>1. PICK n \in 1 .. Len(calls) : calls[n][1] <= p /\ q <= calls[n][2]
    BY <1>1 DEF QuickInv, SortedElsewhere, StillToSort
  <2>2. n # 1
    BY <2>1, <1>1, <1>3
  <2>3. n - 1 \in 1 .. Len(calls') /\ calls'[n - 1] = calls[n]
    BY <2>2, <1>3
  <2>4. QED
    BY <2>1, <2>3 DEF StillToSort
<1>6. QuickInv'
  BY <1>1, <1>2, <1>3, <1>4, <1>5 DEF QuickInv, QuickTypes, PartitionInv, Ranges
<1>7. QED
  BY <1>1, <1>2, <1>6 DEF ArrayInv, SameElements, Sorts

\* The partition of a range begins.
LEMMA QuickPivotKeeps == ArrayInv /\ QuickInv /\ QuickPivot => ArrayInv' /\ QuickInv' /\ Sorts'
<1> SUFFICES ASSUME ArrayInv, QuickInv, QuickPivot PROVE ArrayInv' /\ QuickInv' /\ Sorts'
  OBVIOUS
<1> DEFINE lo == calls[1][1]
           hi == calls[1][2]
<1>1. pc = "call" /\ calls # <<>> /\ lo < hi /\ calls' = Tail(calls) /\ pc' = "partition"
  BY DEF QuickPivot
<1>2. arr' = arr /\ size' = size /\ input' = input
  BY DEF QuickPivot
<1>3. /\ size \in Nat /\ Len(calls) \in Nat /\ 1 \in 1 .. Len(calls)
      /\ calls' \in Seq(Ranges) /\ Len(calls') = Len(calls) - 1
      /\ \A n \in 1 .. Len(calls) - 1 : calls'[n] = calls[n + 1]
      /\ \A n \in 1 .. Len(calls) : calls[n][1] \in Int /\ calls[n][2] \in Int
      /\ lo \in 0 .. size - 1 /\ hi \in 0 .. size - 1
      /\ \A p \in 0 .. size - 1 : arr[p] \in Int
  BY <1>1, QuickFacts, TailFacts
<1>4. begin' = lo /\ left' = lo /\ cur' = lo /\ end' = hi /\ right' = hi /\ \E p \in lo .. hi : key' = arr[p]
  BY DEF QuickPivot
<1> HIDE DEF lo, hi
<1>5. CallsAscend'
  <2>1. \A n \in 1 .. Len(calls) - 1 : hi < calls[n + 1][1]
    BY <1>1, <1>3 DEF QuickInv, CallsAscend, hi
  <2>2. QED
    BY <2>1, <1>1, <1>3, <1>4 DEF QuickInv, CallsAscend
<1>6. SortedElsewhere'
  <2> SUFFICES ASSUME NEW p \in 0 .. size - 1, NEW q \in 0 .. size - 1, p < q, ~(arr[p] <= arr[q])
               PROVE  StillToSort(p, q)'
    BY <1>2 DEF SortedElsewhere
  <2>1. PICK n \in 1 .. Len(calls) : calls[n][1] <= p /\ q <= calls[n][2]
    BY <1>1 DEF QuickInv, SortedElsewhere, StillToSort
  <2>2. CASE n = 1
    BY <2>1, <2>2, <1>1, <1>4 DEF StillToSort, lo, hi
  <2>3. CASE n # 1
    <3>1. n - 1 \in 1 .. Len(calls') /\ calls'[n - 1] = calls[n]
      BY <2>3, <1>3
    <3>2. QED
      BY <2>1, <3>1 DEF StillToSort
  <2>4. QED
    BY <2>2, <2>3
<1>7. PartitionInv'
  BY <1>1, <1>2, <1>3, <1>4 DEF PartitionInv
<1>8. key' \in Int
  BY <1>3, <1>4
<1>9. QuickInv'
  BY <1>1, <1>2, <1>3, <1>4, <1>5, <1>6, <1>7, <1>8 DEF QuickInv, QuickTypes, Ranges
<1>10. QED
  BY <1>1, <1>2, <1>9 DEF ArrayInv, SameElements, Sorts

\* A swap inside the range being partitioned leaves the order of everything
\* else as it is: what is outside is not below, or not above, all of it.
LEMMA SwapInside ==
    ASSUME ArrayInv, QuickInv, pc = "partition",
           NEW a \in begin .. end, NEW b \in begin .. end,
           arr' = Swap(arr, a, b),
           UNCHANGED <<size, input, pc, calls, begin, end>>
    PROVE  ArrayInv' /\ CallsAscend' /\ SortedElsewhere'
<1>1. /\ size \in Nat /\ arr \in [0 .. size - 1 -> Values]
      /\ \A p \in 0 .. size - 1 : arr[p] \in Int
      /\ Len(calls) \in Nat
      /\ \A n \in 1 .. Len(calls) : calls[n][1] \in Int /\ calls[n][2] \in Int
  BY QuickFacts
<1>2. begin \in 0 .. size - 1 /\ end \in 0 .. size - 1
  BY DEF QuickInv, QuickTypes
<1>3. a \in 0 .. size - 1 /\ b \in 0 .. size - 1
  BY <1>1, <1>2
<1>4. ArrayInv'
  BY <1>1, <1>3, SwapSame DEF ArrayInv
<1>5. CallsAscend'
  BY DEF QuickInv, CallsAscend
<1>6. arr'[a] = arr[b] /\ arr'[b] = arr[a] /\ \A p \in 0 .. size - 1 : p # a /\ p # b => arr'[p] = arr[p]
  BY <1>1, <1>3, SwapValues
<1>7. \A n \in 1 .. Len(calls) : end < calls[n][1]
  BY DEF QuickInv, CallsAscend
<1>8. SortedElsewhere'
  <2> SUFFICES ASSUME NEW p \in 0 .. size - 1, NEW q \in 0 .. size - 1, p < q, ~StillToSort(p, q)
               PROVE  arr'[p] <= arr'[q]
    BY DEF SortedElsewhere, StillToSort
  <2>1. ~(begin <= p /\ q <= end)
    BY DEF StillToSort
  <2>2. CASE p \in begin .. end
    <3>1. q > end /\ arr'[q] = arr[q]
      BY <2>1, <2>2, <1>1, <1>2, <1>6
    <3>2. ASSUME NEW r \in begin .. end PROVE arr[r] <= arr[q]
      <4>1. r \in 0 .. size - 1 /\ r < q
        BY <3>1, <1>1, <1>2
      <4>2. ~StillToSort(r, q)
        BY <3>1, <1>1, <1>2, <1>7 DEF StillToSort
      <4>3. QED
        BY <4>1, <4>2 DEF QuickInv, SortedElsewhere
    <3>3. PICK r \in begin .. end : arr'[p] = arr[r]
      BY <2>2, <1>6
    <3>4. QED
      BY <3>1, <3>2, <3>3
  <2>3. CASE q \in begin .. end
    <3>1. p < begin /\ arr'[p] = arr[p]
      BY <2>1, <2>3, <1>1, <1>2, <1>6
    <3>2. ASSUME NEW r \in begin .. end PROVE arr[p] <= arr[r]
      <4>1. r \in 0 .. size - 1 /\ p < r
        BY <3>1, <1>1, <1>2
      <4>2. ~StillToSort(p, r)
        BY SMTT(30), <3>1, <1>1, <1>2, <1>7 DEF StillToSort
      <4>3. QED
        BY <4>1, <4>2 DEF QuickInv, SortedElsewhere
    <3>3. PICK r \in begin .. end : arr'[q] = arr[r]
      BY <2>3, <1>6
    <3>4. QED
      BY <3>1, <3>2, <3>3
  <2>4. CASE p \notin begin .. end /\ q \notin begin .. end
    BY <2>4, <1>6 DEF QuickInv, SortedElsewhere
  <2>5. QED
    BY <2>2, <2>3, <2>4
<1>9. QED
  BY <1>4, <1>5, <1>8

\* What a turn of the partition loop starts from.
LEMMA PartitionFacts ==
    ASSUME ArrayInv, QuickInv, pc = "partition"
    PROVE  /\ size \in Nat /\ \A p \in 0 .. size - 1 : arr[p] \in Int
           /\ begin \in 0 .. size - 1 /\ end \in 0 .. size - 1
           /\ left \in Int /\ cur \in Int /\ right \in Int /\ key \in Int
           /\ begin <= left /\ left <= cur /\ cur <= right + 1 /\ right <= end
           /\ \A p \in begin .. left - 1 : arr[p] < key
           /\ \A p \in left .. cur - 1 : arr[p] = key
           /\ \A p \in right + 1 .. end : arr[p] > key
           /\ \E p \in left .. right : arr[p] = key
<1>1. size \in Nat /\ \A p \in 0 .. size - 1 : arr[p] \in Int
  BY QuickFacts
<1>2. QED
  BY <1>1 DEF QuickInv, QuickTypes, PartitionInv

\* A smaller element goes to the end of the smaller ones.
LEMMA LessKeeps == ArrayInv /\ QuickInv /\ Less => ArrayInv' /\ QuickInv' /\ Sorts'
<1> SUFFICES ASSUME ArrayInv, QuickInv, Less PROVE ArrayInv' /\ QuickInv' /\ Sorts'
  OBVIOUS
<1>1. /\ pc = "partition" /\ cur <= right /\ arr[cur] < key
      /\ arr' = Swap(arr, cur, left) /\ cur' = cur + 1 /\ left' = left + 1
      /\ UNCHANGED <<size, input, pc, calls, begin, end, right, key>>
  BY DEF Less
<1>2. /\ size \in Nat /\ \A p \in 0 .. size - 1 : arr[p] \in Int
      /\ begin \in 0 .. size - 1 /\ end \in 0 .. size - 1
      /\ left \in Int /\ cur \in Int /\ right \in Int /\ key \in Int
      /\ begin <= left /\ left <= cur /\ cur <= right + 1 /\ right <= end
      /\ \A p \in begin .. left - 1 : arr[p] < key
      /\ \A p \in left .. cur - 1 : arr[p] = key
      /\ \A p \in right + 1 .. end : arr[p] > key
  BY <1>1, PartitionFacts
<1>3. PICK k \in left .. right : arr[k] = key
  BY <1>1, PartitionFacts
<1>4. cur \in begin .. end /\ left \in begin .. end
  BY <1>1, <1>2
<1>5. ArrayInv' /\ CallsAscend' /\ SortedElsewhere'
  BY <1>1, <1>4, SwapInside
<1>6. arr'[cur] = arr[left] /\ arr'[left] = arr[cur] /\ \A p \in 0 .. size - 1 : p # cur /\ p # left => arr'[p] = arr[p]
  BY <1>1, <1>2, <1>4, SwapValues DEF ArrayInv
<1>7. \A p \in begin .. left : arr'[p] < key
  BY <1>1, <1>2, <1>4, <1>6
<1>8. \A p \in left + 1 .. cur : arr'[p] = key
  BY <1>1, <1>2, <1>4, <1>6
<1>9. \A p \in right + 1 .. end : arr'[p] > key
  BY <1>1, <1>2, <1>4, <1>6
<1>10. \E p \in left + 1 .. right : arr'[p] = key
  <2>1. CASE k = left
    <3>1. cur # left /\ arr'[cur] = key /\ cur \in left + 1 .. right
      BY <2>1, <1>1, <1>2, <1>3, <1>6
    <3>2. QED
      BY <3>1
  <2>2. CASE k # left
    <3>1. k # cur /\ k \in 0 .. size - 1 /\ k \in left + 1 .. right
      BY <2>2, <1>1, <1>2, <1>3
    <3>2. QED
      BY <2>2, <3>1, <1>3, <1>6
  <2>3. QED
    BY <2>1, <2>2
<1>11. PartitionInv'
  BY <1>1, <1>2, <1>7, <1>8, <1>9, <1>10 DEF PartitionInv
<1>12. QuickInv'
  BY <1>1, <1>2, <1>5, <1>11 DEF QuickInv, QuickTypes
<1>13. QED
  BY <1>1, <1>5, <1>12 DEF Sorts

\* A greater element goes to the front of the greater ones; what it changes
\* places with has not been looked at.
LEMMA GreaterKeeps == ArrayInv /\ QuickInv /\ Greater => ArrayInv' /\ QuickInv' /\ Sorts'
<1> SUFFICES ASSUME ArrayInv, QuickInv, Greater PROVE ArrayInv' /\ QuickInv' /\ Sorts'
  OBVIOUS
<1>1. /\ pc = "partition" /\ cur <= right /\ arr[cur] > key
      /\ arr' = Swap(arr, cur, right) /\ right' = right - 1
      /\ UNCHANGED <<size, input, pc, calls, begin, end, left, cur, key>>
  BY DEF Greater
<1>2. /\ size \in Nat /\ \A p \in 0 .. size - 1 : arr[p] \in Int
      /\ begin \in 0 .. size - 1 /\ end \in 0 .. size - 1
      /\ left \in Int /\ cur \in Int /\ right \in Int /\ key \in Int
      /\ begin <= left /\ left <= cur /\ cur <= right + 1 /\ right <= end
      /\ \A p \in begin .. left - 1 : arr[p] < key
      /\ \A p \in left .. cur - 1 : arr[p] = key
      /\ \A p \in right + 1 .. end : arr[p] > key
  BY <1>1, PartitionFacts
<1>3. PICK k \in left .. right : arr[k] = key
  BY <1>1, PartitionFacts
<1>4. cur \in begin .. end /\ right \in begin .. end
  BY <1>1, <1>2
<1>5. ArrayInv' /\ CallsAscend' /\ SortedElsewhere'
  BY <1>1, <1>4, SwapInside
<1>6. arr'[cur] = arr[right] /\ arr'[right] = arr[cur] /\ \A p \in 0 .. size - 1 : p # cur /\ p # right => arr'[p] = arr[p]
  BY <1>1, <1>2, <1>4, SwapValues DEF ArrayInv
<1>7. \A p \in begin .. left - 1 : arr'[p] < key
  BY <1>1, <1>2, <1>4, <1>6
<1>8. \A p \in left .. cur - 1 : arr'[p] = key
  BY <1>1, <1>2, <1>4, <1>6
<1>9. \A p \in right .. end : arr'[p] > key
  BY <1>1, <1>2, <1>4, <1>6
<1>10. \E p \in left .. right - 1 : arr'[p] = key
  <2>1. CASE k = right
    <3>1. cur # right /\ arr'[cur] = key /\ cur \in left .. right - 1
      BY <2>1, <1>1, <1>2, <1>3, <1>6
    <3>2. QED
      BY <3>1
  <2>2. CASE k # right
    <3>1. k # cur /\ k \in 0 .. size - 1 /\ k \in left .. right - 1
      BY <2>2, <1>1, <1>2, <1>3
    <3>2. QED
      BY <2>2, <3>1, <1>3, <1>6
  <2>3. QED
    BY <2>1, <2>2
<1>11. PartitionInv'
  BY <1>1, <1>2, <1>7, <1>8, <1>9, <1>10 DEF PartitionInv
<1>12. QuickInv'
  BY <1>1, <1>2, <1>5, <1>11 DEF QuickInv, QuickTypes
<1>13. QED
  BY <1>1, <1>5, <1>12 DEF Sorts

\* An element equal to the key stays where it is.
LEMMA EqualKeeps == ArrayInv /\ QuickInv /\ Equal => ArrayInv' /\ QuickInv' /\ Sorts'
<1> SUFFICES ASSUME ArrayInv, QuickInv, Equal PROVE ArrayInv' /\ QuickInv' /\ Sorts'
  OBVIOUS
<1>1. /\ pc = "partition" /\ cur <= right /\ arr[cur] = key /\ cur' = cur + 1
      /\ UNCHANGED <<arr, size, input, pc, calls, begin, end, left, right, key>>
  BY DEF Equal, arrayVars
<1>2. /\ left \in Int /\ cur \in Int /\ right \in Int /\ key \in Int
      /\ \A p \in left .. cur : arr[p] = key
  BY <1>1, PartitionFacts
<1>3. PartitionInv'
  BY <1>1, <1>2 DEF QuickInv, PartitionInv
<1>4. QuickInv'
  BY <1>1, <1>2, <1>3 DEF QuickInv, QuickTypes, CallsAscend, SortedElsewhere, StillToSort
<1>5. QED
  BY <1>1, <1>4 DEF ArrayInv, SameElements, Sorts

\* The two outer parts are all that is left to sort of the range.
LEMMA PartitionedKeeps == ArrayInv /\ QuickInv /\ Partitioned => ArrayInv' /\ QuickInv' /\ Sorts'
<1> SUFFICES ASSUME ArrayInv, QuickInv, Partitioned PROVE ArrayInv' /\ QuickInv' /\ Sorts'
  OBVIOUS
<1> DEFINE new == <<<<begin, left - 1>>, <<right + 1, end>>>>
<1>1. /\ pc = "partition" /\ cur > right /\ calls' = new \o calls /\ pc' = "call"
      /\ UNCHANGED <<arr, size, input>>
  BY DEF Partitioned
<1>2. /\ size \in Nat /\ \A p \in 0 .. size - 1 : arr[p] \in Int
      /\ begin \in 0 .. size - 1 /\ end \in 0 .. size - 1
      /\ left \in Int /\ cur \in Int /\ right \in Int /\ key \in Int
      /\ begin <= left /\ left <= cur /\ cur = right + 1 /\ right <= end /\ left <= right
      /\ \A p \in begin .. left - 1 : arr[p] < key
      /\ \A p \in left .. right : arr[p] = key
      /\ \A p \in right + 1 .. end : arr[p] > key
  BY <1>1, PartitionFacts
<1>3. /\ calls \in Seq(Ranges) /\ Len(calls) \in Nat
      /\ \A n \in 1 .. Len(calls) : calls[n][1] \in Int /\ calls[n][2] \in Int
  BY <1>1, QuickFacts
<1>4. new \in Seq(Ranges)
  BY <1>2 DEF Ranges
<1>5. /\ calls' \in Seq(Ranges) /\ Len(calls') = Len(calls) + 2
      /\ calls'[1] = <<begin, left - 1>> /\ calls'[2] = <<right + 1, end>>
      /\ \A n \in 3 .. Len(calls) + 2 : calls'[n] = calls[n - 2]
  BY <1>1, <1>3, <1>4
<1> HIDE DEF new
<1>6. \A n \in 1 .. Len(calls) : end < calls[n][1]
  BY <1>1 DEF QuickInv, CallsAscend
<1>7. \A m \in 1 .. Len(calls') : calls'[m][1] <= calls'[m][2] + 1
  <2> SUFFICES ASSUME NEW m \in 1 .. Len(calls') PROVE calls'[m][1] <= calls'[m][2] + 1
    OBVIOUS
  <2>1. CASE m \in {1, 2}
    BY <2>1, <1>2, <1>5
  <2>2. CASE m \notin {1, 2}
    <3>1. m - 2 \in 1 .. Len(calls) /\ calls'[m] = calls[m - 2]
      BY <2>2, <1>3, <1>5
    <3>2. QED
      BY <1>1, <3>1 DEF QuickInv, CallsAscend
  <2>3. QED
    BY <2>1, <2>2
<1>8. \A m, n \in 1 .. Len(calls') : m < n => calls'[m][2] < calls'[n][1]
  <2> SUFFICES ASSUME NEW m \in 1 .. Len(calls'), NEW n \in 1 .. Len(calls'), m < n
               PROVE  calls'[m][2] < calls'[n][1]
    OBVIOUS
  <2>1. CASE n = 2
    BY <2>1, <1>2, <1>3, <1>5
  <2>2. CASE n > 2
    <3>1. n - 2 \in 1 .. Len(calls) /\ calls'[n] = calls[n - 2]
      BY <2>2, <1>3, <1>5
    <3>2. CASE m \in {1, 2}
      BY <3>1, <3>2, <1>2, <1>3, <1>5, <1>6
    <3>3. CASE m > 2
      <4>1. m - 2 \in 1 .. Len(calls) /\ calls'[m] = calls[m - 2] /\ m - 2 < n - 2
        BY <3>3, <1>3, <1>5
      <4>2. QED
        BY <1>1, <3>1, <4>1 DEF QuickInv, CallsAscend
    <3>4. QED
      BY <3>2, <3>3, <1>3, <1>5
  <2>3. QED
    BY <2>1, <2>2, <1>3, <1>5
<1>9. CallsAscend'
  BY <1>1, <1>7, <1>8 DEF CallsAscend
<1>10. SortedElsewhere'
  <2> SUFFICES ASSUME NEW p \in 0 .. size - 1, NEW q \in 0 .. size - 1, p < q, ~(arr[p] <= arr[q])
               PROVE  StillToSort(p, q)'
    BY <1>1 DEF SortedElsewhere
  <2>1. StillToSort(p, q)
    BY <1>1 DEF QuickInv, SortedElsewhere
  <2>2. CASE \E n \in 1 .. Len(calls) : calls[n][1] <= p /\ q <= calls[n][2]
    <3>1. PICK n \in 1 .. Len(calls) : calls[n][1] <= p /\ q <= calls[n][2]
      BY <2>2
    <3>2. n + 2 \in 1 .. Len(calls') /\ calls'[n + 2] = calls[n]
      <4>1. n + 2 \in 3 .. Len(calls) + 2 /\ (n + 2) - 2 = n /\ n + 2 \in 1 .. Len(calls')
        BY <1>3, <1>5
      <4>2. QED
        BY <4>1, <1>5
    <3>3. QED
      BY <3>1, <3>2 DEF StillToSort
  <2>3. CASE begin <= p /\ q <= end
    <3>1. q <= left - 1 \/ right + 1 <= p
      BY <2>3, <1>2
    <3>2. 1 \in 1 .. Len(calls') /\ 2 \in 1 .. Len(calls')
      BY <1>3, <1>5
    <3>3. QED
      BY <2>3, <3>1, <3>2, <1>5 DEF StillToSort
  <2>4. QED
    BY <2>1, <2>2, <2>3 DEF StillToSort
<1>11. QuickInv'
  BY <1>1, <1>5, <1>9, <1>10 DEF QuickInv, QuickTypes, PartitionInv, Ranges
<1>12. QED
  BY <1>1, <1>11 DEF ArrayInv, SameElements, Sorts

\* No call is left: nothing is still to be sorted.
LEMMA QuickReturnKeeps == ArrayInv /\ QuickInv /\ QuickReturn => ArrayInv' /\ QuickInv' /\ Sorts'
<1> SUFFICES ASSUME ArrayInv, QuickInv, QuickReturn PROVE ArrayInv' /\ QuickInv' /\ Sorts'
  OBVIOUS
<1>1. pc = "call" /\ calls = <<>> /\ pc' = "done" /\ UNCHANGED <<arr, size, input>>
  BY DEF QuickReturn
<1>2. \A p, q \in 0 .. size - 1 : ~StillToSort(p, q)
  BY <1>1 DEF StillToSort
<1>3. SortedOn(arr, 0 .. size - 1)
  BY <1>1, <1>2 DEF QuickInv, SortedElsewhere, SortedOn
<1>4. QED
  BY <1>1, <1>3 DEF ArrayInv, QuickInv, SameElements, Sorts, SortedOn

\* A call of QuickSort starts with the whole array to be sorted.
LEMMA QuickInitially == ArrayInit /\ QuickInit /\ pc = "call" => QuickInv
<1> SUFFICES ASSUME ArrayInit, QuickInit, pc = "call" PROVE QuickInv
  OBVIOUS
<1>1. size \in Nat /\ calls = <<<<0, size - 1>>>>
  BY LastIndexFacts DEF ArrayInit, QuickInit
<1>2. Len(calls) = 1 /\ calls[1][1] = 0 /\ calls[1][2] = size - 1 /\ calls \in Seq(Ranges)
  BY <1>1 DEF Ranges
<1>3. \A p, q \in 0 .. size - 1 : StillToSort(p, q)
  BY <1>1, <1>2 DEF StillToSort
<1>4. QED
  BY <1>1, <1>2, <1>3
  DEF QuickInv, QuickTypes, CallsAscend, SortedElsewhere, PartitionInv, Ranges

\* QuickSort keeps its invariant, and when it returns the array is sorted.
LEMMA QuickKeeps == ArrayInv /\ QuickInv /\ QuickStep => ArrayInv' /\ QuickInv' /\ Sorts'
BY QuickTrivialKeeps, QuickPivotKeeps, LessKeeps, GreaterKeeps, EqualKeeps,
   PartitionedKeeps, QuickReturnKeeps DEF QuickStep

----------------------------------------------------------------------------
(* MergeSort                                                               *)

Tasks == (0 .. size) \X (-1 .. size - 1) \X {"sort", "merge"}

\* The middle of a range of two elements or more is inside it, and there is
\* an element behind it.
LEMMA MidInside ==
    ASSUME NEW lo \in Int, NEW hi \in Int, lo < hi
    PROVE  Mid(lo, hi) \in Int /\ lo <= Mid(lo, hi) /\ Mid(lo, hi) < hi
BY DEF Mid

\* What every step of MergeSort needs of the array and of the stack of tasks.
LEMMA MergeFacts ==
    ASSUME ArrayInv, MergeInv, pc \in {"split", "merge"}
    PROVE  /\ size \in Nat
           /\ arr \in [0 .. size - 1 -> Values] /\ tmp \in [0 .. size - 1 -> Values]
           /\ \A p \in 0 .. size - 1 : arr[p] \in Int /\ tmp[p] \in Int
           /\ tasks \in Seq(Tasks)
           /\ Len(tasks) \in Nat
           /\ \A n \in 1 .. Len(tasks) : /\ tasks[n] \in Tasks
                                         /\ tasks[n][1] \in 0 .. size
                                         /\ tasks[n][2] \in -1 .. size - 1
                                         /\ tasks[n][3] \in {"sort", "merge"}
<1>1. size \in Nat /\ arr \in [0 .. size - 1 -> Values] /\ tmp \in [0 .. size - 1 -> Values]
  BY DEF ArrayInv, MergeInv, MergeTypes
<1>2. tasks \in Seq(Tasks)
  BY DEF MergeInv, MergeTypes, Tasks
<1>3. \A n \in 1 .. Len(tasks) : tasks[n] \in Tasks
  BY <1>2
<1>4. Len(tasks) \in Nat
  BY <1>2
<1>5. QED
  BY <1>1, <1>2, <1>3, <1>4 DEF Tasks

\* The stack without its top.
LEMMA TasksTail ==
    ASSUME ArrayInv, MergeInv, pc \in {"split", "merge"}, tasks # <<>>
    PROVE  /\ Tail(tasks) \in Seq(Tasks)
           /\ Len(Tail(tasks)) = Len(tasks) - 1
           /\ \A n \in 1 .. Len(tasks) - 1 : Tail(tasks)[n] = tasks[n + 1]
           /\ 1 \in 1 .. Len(tasks)
<1>1. tasks \in Seq(Tasks)
  BY MergeFacts
<1>2. QED
  BY <1>1

\* The elements of a sequence are still there behind a longer front.
LEMMA BelowPrefix ==
    ASSUME NEW S, NEW s \in Seq(S), NEW t \in Seq(S),
           NEW m \in Len(s) + 1 .. Len(s) + Len(t)
    PROVE  (s \o t)[m] = t[m - Len(s)]
OBVIOUS

\* Without the task on top the rest is still nested.
LEMMA TailNests ==
    ASSUME ArrayInv, MergeInv, pc \in {"split", "merge"}, tasks # <<>>,
           tasks' = Tail(tasks)
    PROVE  TasksNest'
<1>1. /\ Len(tasks) \in Nat /\ Len(tasks') = Len(tasks) - 1
      /\ \A n \in 1 .. Len(tasks') : n + 1 \in 1 .. Len(tasks) /\ tasks'[n] = tasks[n + 1]
  BY MergeFacts, TasksTail
<1>2. TasksNest
  BY DEF MergeInv
<1>3. \A n \in 1 .. Len(tasks') : tasks'[n][3] = "merge" => tasks'[n][1] < tasks'[n][2]
  BY <1>1, <1>2 DEF TasksNest
<1>4. ASSUME NEW m \in 1 .. Len(tasks'), NEW n \in 1 .. Len(tasks'), m < n
      PROVE  \/ tasks'[m][2] < tasks'[n][1]
             \/ tasks'[n][3] = "merge" /\ InOneHalf(n, tasks[m][1], tasks[m][2])'
  <2>1. \/ tasks[m + 1][2] < tasks[n + 1][1]
        \/ tasks[n + 1][3] = "merge" /\ InOneHalf(n + 1, tasks[m + 1][1], tasks[m + 1][2])
    BY <1>1, <1>2, <1>4 DEF TasksNest
  <2>2. QED
    BY <1>1, <2>1 DEF InOneHalf
<1>5. QED
  BY <1>3, <1>4 DEF TasksNest

\* A call for one element or none is over at once.
LEMMA SplitNothingKeeps ==
    ASSUME ArrayInv, MergeInv, Split, Left >= Right
    PROVE  MergeInv'
<1>1. pc = "split" /\ tasks # <<>> /\ tasks' = Tail(tasks)
  BY DEF Split
<1>2. UNCHANGED <<arr, size, input, pc, begin1, begin2, index, tmp>>
  BY DEF Split, arrayVars
<1>3. /\ Len(tasks) \in Nat /\ Len(tasks') = Len(tasks) - 1 /\ tasks' \in Seq(Tasks)
      /\ \A n \in 1 .. Len(tasks') : n + 1 \in 1 .. Len(tasks) /\ tasks'[n] = tasks[n + 1]
      /\ \A n \in 1 .. Len(tasks) : tasks[n][1] \in Int /\ tasks[n][2] \in Int
  BY <1>1, MergeFacts, TasksTail
<1>4. ASSUME NEW k \in 0 .. Len(tasks'), NEW p \in 0 .. size - 1, NEW q \in 0 .. size - 1,
             p < q, PendingBefore(k + 1, p, q)
      PROVE  PendingBefore(k, p, q)'
  <2>1. PICK m \in 1 .. k + 1 : m <= Len(tasks) /\ tasks[m][1] <= p /\ q <= tasks[m][2]
    BY <1>4 DEF PendingBefore
  <2>2. m # 1
    BY <2>1, <1>3, <1>4 DEF Left, Right
  <2>3. m - 1 \in 1 .. k /\ m - 1 <= Len(tasks') /\ tasks'[m - 1] = tasks[m]
    BY <2>1, <2>2, <1>3
  <2>4. QED
    BY <2>1, <2>3 DEF PendingBefore
<1>5. HalvesSorted'
  <2> SUFFICES ASSUME NEW n \in 1 .. Len(tasks'),
                      NEW p \in 0 .. size - 1, NEW q \in 0 .. size - 1,
                      tasks'[n][3] = "merge", p < q, InOneHalf(n, p, q)'
               PROVE  arr[p] <= arr[q] \/ PendingBefore(n - 1, p, q)'
    BY <1>2 DEF HalvesSorted
  <2>1. /\ n + 1 \in 1 .. Len(tasks) /\ tasks'[n] = tasks[n + 1]
        /\ (n + 1) - 1 = n /\ (n - 1) + 1 = n /\ n - 1 \in 0 .. Len(tasks')
    BY <1>3
  <2>2. tasks[n + 1][3] = "merge" /\ InOneHalf(n + 1, p, q)
    BY <2>1 DEF InOneHalf
  <2>3. arr[p] <= arr[q] \/ PendingBefore(n, p, q)
    BY <1>1, <2>1, <2>2 DEF MergeInv, HalvesSorted
  <2>4. QED
    BY <2>1, <2>3, <1>4
<1>6. RestSorted'
  <2> SUFFICES ASSUME NEW p \in 0 .. size - 1, NEW q \in 0 .. size - 1, p < q
               PROVE  arr[p] <= arr[q] \/ PendingBefore(Len(tasks), p, q)'
    BY <1>2 DEF RestSorted
  <2>1. arr[p] <= arr[q] \/ PendingBefore(Len(tasks), p, q)
    BY <1>1 DEF MergeInv, RestSorted
  <2>2. Len(tasks') \in 0 .. Len(tasks') /\ Len(tasks') + 1 = Len(tasks)
    BY <1>1, <1>3, TasksTail
  <2>3. ASSUME NEW k, k = Len(tasks'), PendingBefore(Len(tasks), p, q)
        PROVE  PendingBefore(k, p, q)'
    BY <2>2, <2>3, <1>4
  <2>4. QED
    BY <2>1, <2>3 DEF PendingBefore
<1>7. TasksNest'
  BY <1>1, TailNests
<1>8. QED
  BY <1>1, <1>2, <1>3, <1>5, <1>6, <1>7 DEF MergeInv, MergeTypes, Merging, Tasks

\* A call becomes three tasks: both halves, then their merge.
LEMMA SplitInTwoKeeps ==
    ASSUME ArrayInv, MergeInv, Split, Left < Right
    PROVE  MergeInv'
<1> DEFINE lo == Left
           hi == Right
           mid == End1
           new == <<<<lo, mid, "sort">>, <<mid + 1, hi, "sort">>, <<lo, hi, "merge">>>>
<1>1. /\ pc = "split" /\ tasks # <<>>
      /\ UNCHANGED <<arr, size, input, pc, begin1, begin2, index, tmp>>
  BY DEF Split, arrayVars
<1>2. /\ size \in Nat /\ Len(tasks) \in Nat /\ 1 \in 1 .. Len(tasks)
      /\ Tail(tasks) \in Seq(Tasks) /\ Len(Tail(tasks)) = Len(tasks) - 1
      /\ \A n \in 1 .. Len(tasks) - 1 : Tail(tasks)[n] = tasks[n + 1]
      /\ \A n \in 1 .. Len(tasks) : tasks[n][1] \in Int /\ tasks[n][2] \in Int
  BY <1>1, MergeFacts, TasksTail
<1>3. lo \in 0 .. size - 1 /\ hi \in 0 .. size - 1 /\ lo < hi
  <2>1. tasks[1][1] \in 0 .. size /\ tasks[1][2] \in -1 .. size - 1
    BY <1>1, <1>2, MergeFacts
  <2>2. QED
    BY <2>1, <1>2 DEF Left, Right
<1>4. mid \in 0 .. size - 1 /\ lo <= mid /\ mid < hi /\ mid = Mid(lo, hi)
  <2>1. mid = Mid(lo, hi)
    BY DEF End1
  <2> HIDE DEF lo, hi, mid
  <2>2. lo \in Int /\ hi \in Int /\ lo < hi
    BY <1>2, <1>3
  <2>3. Mid(lo, hi) \in Int /\ lo <= Mid(lo, hi) /\ Mid(lo, hi) < hi
    BY <2>2, MidInside
  <2>4. QED
    BY <1>2, <1>3, <2>1, <2>3
<1>5. tasks' = new \o Tail(tasks)
  BY <1>3 DEF Split
<1>6. tasks[1][1] = lo /\ tasks[1][2] = hi
  BY DEF Left, Right
<1> HIDE DEF lo, hi, mid
<1>7. new \in Seq(Tasks) /\ Len(new) = 3
  BY <1>2, <1>3, <1>4 DEF Tasks
<1>8. /\ tasks' \in Seq(Tasks) /\ Len(tasks') = Len(tasks) + 2
      /\ tasks'[1] = <<lo, mid, "sort">> /\ tasks'[2] = <<mid + 1, hi, "sort">>
      /\ tasks'[3] = <<lo, hi, "merge">>
  BY <1>2, <1>5, <1>7
<1>9. \A n \in 2 .. Len(tasks) : n + 2 \in 1 .. Len(tasks') /\ tasks'[n + 2] = tasks[n]
  <2> SUFFICES ASSUME NEW n \in 2 .. Len(tasks)
               PROVE  n + 2 \in 1 .. Len(tasks') /\ tasks'[n + 2] = tasks[n]
    OBVIOUS
  <2> HIDE DEF new
  <2>1. n + 2 \in 1 .. Len(tasks') /\ n + 2 \in 4 .. Len(new) + Len(Tail(tasks))
    BY <1>2, <1>7, <1>8
  <2>2. tasks'[n + 2] = Tail(tasks)[(n + 2) - 3]
    <3> DEFINE m == n + 2
               rest == Tail(tasks)
    <3>1. m \in Len(new) + 1 .. Len(new) + Len(rest) /\ Len(new) = 3
      BY <1>7, <2>1
    <3>2. rest \in Seq(Tasks)
      BY <1>2
    <3> HIDE DEF m, rest
    <3>3. (new \o rest)[m] = rest[m - Len(new)]
      BY <1>7, <3>1, <3>2, BelowPrefix
    <3>4. QED
      BY <1>5, <3>1, <3>3 DEF m, rest
  <2>3. (n + 2) - 3 = n - 1 /\ n - 1 \in 1 .. Len(tasks) - 1 /\ (n - 1) + 1 = n
    BY <1>2
  <2>4. QED
    BY <1>2, <2>1, <2>2, <2>3
<1> HIDE DEF new
<1>10. TasksNest /\ HalvesSorted /\ RestSorted
  BY <1>1 DEF MergeInv
\* The new tasks are where the old one was.
<1>11. ASSUME NEW m \in 1 .. 3
       PROVE  /\ m \in 1 .. Len(tasks')
              /\ lo <= tasks'[m][1] /\ tasks'[m][1] <= hi
              /\ lo <= tasks'[m][2] /\ tasks'[m][2] <= hi
  BY <1>2, <1>3, <1>4, <1>8
<1>12. ASSUME NEW n \in 1 .. Len(tasks'), n > 3
       PROVE  n - 2 \in 2 .. Len(tasks) /\ tasks'[n] = tasks[n - 2] /\ (n - 2) + 2 = n
  <2>1. n - 2 \in 2 .. Len(tasks) /\ (n - 2) + 2 = n
    BY <1>2, <1>8, <1>12
  <2>2. QED
    BY <2>1, <1>9
<1>13. \A n \in 1 .. Len(tasks') : tasks'[n][3] = "merge" => tasks'[n][1] < tasks'[n][2]
  <2> SUFFICES ASSUME NEW n \in 1 .. Len(tasks'), tasks'[n][3] = "merge"
               PROVE  tasks'[n][1] < tasks'[n][2]
    OBVIOUS
  <2>1. CASE n <= 3
    <3>1. n \in {1, 2, 3}
      BY <2>1
    <3>2. QED
      BY <3>1, <1>3, <1>8
  <2>2. CASE n > 3
    <3>1. n - 2 \in 1 .. Len(tasks) /\ tasks'[n] = tasks[n - 2]
      BY <2>2, <1>2, <1>12
    <3>2. QED
      BY <3>1, <1>10 DEF TasksNest
  <2>3. QED
    BY <2>1, <2>2
<1>14. ASSUME NEW m \in 1 .. Len(tasks'), NEW n \in 1 .. Len(tasks'), m < n
       PROVE  \/ tasks'[m][2] < tasks'[n][1]
              \/ tasks'[n][3] = "merge" /\ InOneHalf(n, tasks[m][1], tasks[m][2])'
  <2>1. CASE n <= 3
    <3>1. (m = 1 /\ n = 2) \/ (m = 1 /\ n = 3) \/ (m = 2 /\ n = 3)
      BY <1>14, <2>1
    <3>2. QED
      BY <3>1, <1>3, <1>4, <1>8 DEF InOneHalf
  <2>2. CASE n > 3 /\ m > 3
    <3>1. /\ n - 2 \in 1 .. Len(tasks) /\ tasks'[n] = tasks[n - 2]
          /\ m - 2 \in 1 .. Len(tasks) /\ tasks'[m] = tasks[m - 2] /\ m - 2 < n - 2
      BY <1>14, <2>2, <1>2, <1>12
    <3>2. \/ tasks[m - 2][2] < tasks[n - 2][1]
          \/ tasks[n - 2][3] = "merge" /\ InOneHalf(n - 2, tasks[m - 2][1], tasks[m - 2][2])
      BY <3>1, <1>10 DEF TasksNest
    <3>3. QED
      BY <3>1, <3>2 DEF InOneHalf
  <2>3. CASE n > 3 /\ m <= 3
    <3>1. n - 2 \in 1 .. Len(tasks) /\ tasks'[n] = tasks[n - 2] /\ 1 < n - 2
      BY <2>3, <1>2, <1>12
    <3>2. \/ hi < tasks[n - 2][1]
          \/ tasks[n - 2][3] = "merge" /\ InOneHalf(n - 2, lo, hi)
      BY <3>1, <1>2, <1>6, <1>10 DEF TasksNest
    <3>3. /\ lo <= tasks'[m][1] /\ tasks'[m][1] <= hi
          /\ lo <= tasks'[m][2] /\ tasks'[m][2] <= hi
      BY <2>3, <1>11
    <3>4. /\ tasks'[m][1] \in Int /\ tasks'[m][2] \in Int
          /\ tasks[n - 2][1] \in Int /\ tasks[n - 2][2] \in Int
          /\ tasks[n - 2][1] < tasks[n - 2][2] => Mid(tasks[n - 2][1], tasks[n - 2][2]) \in Int
      <4>1. m \in {1, 2, 3}
        BY <2>3
      <4>2. tasks'[m][1] \in Int /\ tasks'[m][2] \in Int
        BY <4>1, <1>3, <1>4, <1>8
      <4>3. tasks[n - 2][1] \in Int /\ tasks[n - 2][2] \in Int
        BY <3>1, <1>2
      <4>4. QED
        BY <4>2, <4>3, MidInside
    <3>5. tasks[n - 2][3] = "merge" => tasks[n - 2][1] < tasks[n - 2][2]
      BY <3>1, <1>10 DEF TasksNest
    <3>6. QED
      BY SMTT(30), <3>1, <3>2, <3>3, <3>4, <3>5, <1>3 DEF InOneHalf
  <2>4. QED
    BY <2>1, <2>2, <2>3
<1>15. TasksNest'
  BY <1>13, <1>14 DEF TasksNest
\* What one of the first tasks would put in order still has such a task.
<1>16. ASSUME NEW k \in 1 .. Len(tasks), NEW p \in 0 .. size - 1, NEW q \in 0 .. size - 1,
              PendingBefore(k, p, q)
       PROVE  PendingBefore(k + 2, p, q)'
  <2>1. PICK m \in 1 .. k : m <= Len(tasks) /\ tasks[m][1] <= p /\ q <= tasks[m][2]
    BY <1>16 DEF PendingBefore
  <2>2. CASE m = 1
    <3>1. 3 \in 1 .. k + 2 /\ 3 <= Len(tasks') /\ tasks'[3][1] <= p /\ q <= tasks'[3][2]
      BY <2>1, <2>2, <1>2, <1>6, <1>8
    <3>2. QED
      BY <3>1 DEF PendingBefore
  <2>3. CASE m # 1
    <3>1. m + 2 \in 1 .. k + 2 /\ m + 2 <= Len(tasks') /\ tasks'[m + 2] = tasks[m]
      BY <2>1, <2>3, <1>2, <1>8, <1>9
    <3>2. QED
      BY <2>1, <3>1 DEF PendingBefore
  <2>4. QED
    BY <2>2, <2>3
<1>17. HalvesSorted'
  <2> SUFFICES ASSUME NEW n \in 1 .. Len(tasks'),
                      NEW p \in 0 .. size - 1, NEW q \in 0 .. size - 1,
                      tasks'[n][3] = "merge", p < q, InOneHalf(n, p, q)'
               PROVE  arr[p] <= arr[q] \/ PendingBefore(n - 1, p, q)'
    BY <1>1 DEF HalvesSorted
  <2>1. CASE n <= 3
    <3>1. n = 3
      BY <2>1, <1>8
    <3>2. (lo <= p /\ q <= mid) \/ (mid + 1 <= p /\ q <= hi)
      BY <3>1, <1>3, <1>4, <1>8 DEF InOneHalf
    <3>3. 1 \in 1 .. n - 1 /\ 2 \in 1 .. n - 1 /\ 1 <= Len(tasks') /\ 2 <= Len(tasks')
      BY <3>1, <1>2, <1>8
    <3>4. QED
      BY <3>2, <3>3, <1>8 DEF PendingBefore
  <2>2. CASE n > 3
    <3>1. /\ n - 2 \in 1 .. Len(tasks) /\ tasks'[n] = tasks[n - 2]
          /\ (n - 2) - 1 = n - 3 /\ (n - 3) + 2 = n - 1 /\ n - 3 \in 1 .. Len(tasks)
      BY <2>2, <1>2, <1>12
    <3>2. tasks[n - 2][3] = "merge" /\ InOneHalf(n - 2, p, q)
      BY <3>1 DEF InOneHalf
    <3>3. arr[p] <= arr[q] \/ PendingBefore(n - 3, p, q)
      BY <3>1, <3>2, <1>10 DEF HalvesSorted
    <3>4. QED
      BY <3>1, <3>3, <1>16
  <2>3. QED
    BY <2>1, <2>2
<1>18. RestSorted'
  <2> SUFFICES ASSUME NEW p \in 0 .. size - 1, NEW q \in 0 .. size - 1, p < q,
                      ~(arr[p] <= arr[q])
               PROVE  PendingBefore(Len(tasks), p, q)'
    BY <1>1 DEF RestSorted
  <2>1. PendingBefore(Len(tasks), p, q) /\ Len(tasks) \in 1 .. Len(tasks)
    BY <1>2, <1>10 DEF RestSorted
  <2>2. ASSUME NEW k, k = Len(tasks) PROVE PendingBefore(k + 2, p, q)'
    BY <2>1, <2>2, <1>16
  <2>3. QED
    BY <2>2, <1>8 DEF PendingBefore
<1>19. QED
  BY <1>1, <1>8, <1>15, <1>17, <1>18 DEF MergeInv, MergeTypes, Merging, Tasks

\* The task on top, when it is a merge: its two halves are in order.
LEMMA TopMerge ==
    ASSUME ArrayInv, MergeInv, pc \in {"split", "merge"}, tasks # <<>>, tasks[1][3] = "merge"
    PROVE  /\ Left \in 0 .. size - 1 /\ Right \in 0 .. size - 1 /\ End1 \in 0 .. size - 1
           /\ Left <= End1 /\ End1 < Right
           /\ \A p, q \in Left .. End1 : p <= q => arr[p] <= arr[q]
           /\ \A p, q \in End1 + 1 .. Right : p <= q => arr[p] <= arr[q]
<1>1. /\ size \in Nat /\ Len(tasks) \in Nat /\ 1 \in 1 .. Len(tasks)
      /\ \A p \in 0 .. size - 1 : arr[p] \in Int
  BY MergeFacts, TasksTail
<1>2. Left \in 0 .. size /\ Right \in -1 .. size - 1
  BY <1>1, MergeFacts DEF Left, Right
<1>3. Left < Right
  BY <1>1 DEF MergeInv, TasksNest, Left, Right
<1>4. End1 \in Int /\ Left <= End1 /\ End1 < Right
  BY <1>2, <1>3, MidInside DEF End1
<1>5. \A p, q : InOneHalf(1, p, q) <=> \/ Left <= p /\ q <= End1
                                       \/ End1 < p /\ q <= Right
  BY DEF InOneHalf, Left, Right, End1
<1>6. \A p, q : ~PendingBefore(1 - 1, p, q)
  BY DEF PendingBefore
<1>7. \A p, q \in 0 .. size - 1 : p < q /\ InOneHalf(1, p, q) => arr[p] <= arr[q]
  BY <1>1, <1>6 DEF MergeInv, HalvesSorted
<1>8. ASSUME NEW p \in 0 .. size - 1, NEW q \in 0 .. size - 1, p <= q, InOneHalf(1, p, q)
      PROVE  arr[p] <= arr[q]
  BY <1>1, <1>7, <1>8
<1>9. \A p, q \in Left .. End1 : p <= q => arr[p] <= arr[q]
  BY <1>1, <1>2, <1>3, <1>4, <1>5, <1>8
<1>10. \A p, q \in End1 + 1 .. Right : p <= q => arr[p] <= arr[q]
  BY <1>1, <1>2, <1>3, <1>4, <1>5, <1>8
<1>11. QED
  BY <1>1, <1>2, <1>3, <1>4, <1>9, <1>10

\* The merge begins with nothing taken.
LEMMA MergeBeginKeeps == ArrayInv /\ MergeInv /\ MergeBegin => MergeInv'
<1> SUFFICES ASSUME ArrayInv, MergeInv, MergeBegin PROVE MergeInv'
  OBVIOUS
<1>1. /\ pc = "split" /\ tasks # <<>> /\ tasks[1][3] = "merge" /\ pc' = "merge"
      /\ begin1' = Left /\ begin2' = End1 + 1 /\ index' = Left
      /\ UNCHANGED <<arr, size, input, tasks, tmp>>
  BY DEF MergeBegin
<1>2. /\ Left \in Int /\ Right \in Int /\ End1 \in Int
      /\ Left <= End1 /\ End1 < Right /\ size \in Nat
  BY <1>1, TopMerge, MergeFacts
<1>3. Left' = Left /\ Right' = Right /\ End1' = End1
  BY <1>1 DEF Left, Right, End1
<1>4. \A p : p \notin Left .. index' - 1
  BY <1>1, <1>2
<1>5. \A v : /\ Count(tmp, Left .. index' - 1, v) = 0
             /\ Count(arr, Left .. begin1' - 1, v) = 0
             /\ Count(arr, End1 + 1 .. begin2' - 1, v) = 0
  BY <1>1, <1>2, CountType
<1>6. Merging'
  BY <1>1, <1>2, <1>3, <1>4, <1>5 DEF Merging, SortedOn
<1>7. MergeTypes' /\ TasksNest' /\ HalvesSorted' /\ RestSorted'
  BY <1>1, <1>2 DEF MergeInv, MergeTypes, TasksNest, HalvesSorted, RestSorted,
                    InOneHalf, PendingBefore
<1>8. QED
  BY <1>6, <1>7 DEF MergeInv

\* One more position to count.
LEMMA CountNext ==
    ASSUME NEW a, NEW lo \in Int, NEW p \in Int, lo <= p, NEW v
    PROVE  /\ Count(a, lo .. p, v) = Count(a, lo .. p - 1, v) + (IF a[p] = v THEN 1 ELSE 0)
           /\ Count(a, lo .. p - 1, v) \in Nat
<1> DEFINE m == p - 1
<1>1. m \in Int /\ lo <= m + 1 /\ m <= p /\ m + 1 = p
  OBVIOUS
<1> HIDE DEF m
<1>2. Count(a, lo .. p, v) = Count(a, lo .. m, v) + Count(a, m + 1 .. p, v)
  BY <1>1, CountSplit
<1>3. Count(a, m + 1 .. p, v) = IF a[p] = v THEN 1 ELSE 0
  BY ZenonT(30), <1>1, CountOne
<1>4. Count(a, lo .. m, v) \in Nat
  BY <1>1, CountType
<1>5. QED
  BY <1>2, <1>3, <1>4 DEF m

\* What both branches of the merge do: the element x = arr[from] of one half,
\* not above any other that is left, is appended to tmp.
LEMMA TakeKeeps ==
    ASSUME ArrayInv, MergeInv, pc = "merge", NEW from \in 0 .. size - 1,
           \/ from = begin1 /\ begin1 <= End1 /\ begin1' = begin1 + 1 /\ begin2' = begin2
           \/ from = begin2 /\ begin2 <= Right /\ begin2' = begin2 + 1 /\ begin1' = begin1,
           \A q \in (begin1 .. End1) \cup (begin2 .. Right) : arr[from] <= arr[q],
           tmp' = [tmp EXCEPT ![index] = arr[from]], index' = index + 1,
           UNCHANGED <<arr, size, input, pc, tasks>>
    PROVE  MergeInv'
<1>1. /\ size \in Nat /\ arr \in [0 .. size - 1 -> Values] /\ tmp \in [0 .. size - 1 -> Values]
      /\ \A p \in 0 .. size - 1 : arr[p] \in Int /\ tmp[p] \in Int
      /\ begin1 \in Int /\ begin2 \in Int /\ index \in Int
  BY MergeFacts DEF MergeInv, MergeTypes
<1>2. Merging /\ tasks # <<>> /\ tasks[1][3] = "merge"
  BY DEF MergeInv, Merging
<1>3. /\ Left \in 0 .. size - 1 /\ Right \in 0 .. size - 1 /\ End1 \in 0 .. size - 1
      /\ Left <= End1 /\ End1 < Right
  BY <1>2, TopMerge
<1>4. /\ Left <= begin1 /\ begin1 <= End1 + 1 /\ End1 < begin2 /\ begin2 <= Right + 1
      /\ index = begin1 + begin2 - End1 - 1
  BY <1>2 DEF Merging
<1>5. Left' = Left /\ Right' = Right /\ End1' = End1
  BY DEF Left, Right, End1
<1>6. index \in Left .. Right /\ index \in 0 .. size - 1 /\ from \in Left .. Right
  BY <1>1, <1>3, <1>4
<1>7. /\ tmp' \in [0 .. size - 1 -> Values] /\ tmp'[index] = arr[from]
      /\ \A p \in Left .. index - 1 : tmp'[p] = tmp[p] /\ tmp[p] \in Int
  BY <1>1, <1>3, <1>6
<1>8. /\ \A p \in Left .. index - 1 : tmp[p] <= arr[from]
      /\ \A p \in Left .. index - 1 :
            \A q \in (begin1 .. End1) \cup (begin2 .. Right) : tmp[p] <= arr[q]
  <2>1. from \in (begin1 .. End1) \cup (begin2 .. Right)
    BY <1>1, <1>3
  <2>2. QED
    BY <2>1, <1>2 DEF Merging
<1>9. \A p \in Left .. index' - 1 : p = index \/ p \in Left .. index - 1
  BY <1>1, <1>3
<1>10. SortedOn(tmp', Left .. index' - 1)
  <2> SUFFICES ASSUME NEW p \in Left .. index' - 1, NEW q \in Left .. index' - 1, p < q
               PROVE  tmp'[p] <= tmp'[q]
    BY DEF SortedOn
  <2>1. p \in Left .. index - 1
    BY <1>1, <1>3
  <2>2. CASE q = index
    BY <2>1, <2>2, <1>7, <1>8
  <2>3. CASE q # index
    BY <2>1, <2>3, <1>2, <1>7, <1>9 DEF Merging, SortedOn
  <2>4. QED
    BY <2>2, <2>3
<1>11. \A q \in (begin1' .. End1) \cup (begin2' .. Right) : q \in (begin1 .. End1) \cup (begin2 .. Right)
  BY <1>1, <1>3
<1>12. \A p \in Left .. index' - 1 :
           \A q \in (begin1' .. End1) \cup (begin2' .. Right) : tmp'[p] <= arr[q]
  BY <1>7, <1>8, <1>9, <1>11
<1>13. \A p \in Left .. index' - 1 : \E q \in Left .. Right : tmp'[p] = arr[q]
  BY <1>2, <1>6, <1>7, <1>9 DEF Merging
<1>14. ASSUME NEW v \in Values
       PROVE  Count(tmp', Left .. index' - 1, v)
                = Count(arr, Left .. begin1' - 1, v) + Count(arr, End1 + 1 .. begin2' - 1, v)
  <2>1. Count(tmp, Left .. index - 1, v)
          = Count(arr, Left .. begin1 - 1, v) + Count(arr, End1 + 1 .. begin2 - 1, v)
    BY <1>2 DEF Merging
  <2>2. Count(tmp', Left .. index - 1, v) = Count(tmp, Left .. index - 1, v)
    <3> DEFINE S == Left .. index - 1
    <3>1. \A p \in S : tmp'[p] = tmp[p]
      BY <1>7
    <3> HIDE DEF S
    <3>2. Count(tmp', S, v) = Count(tmp, S, v)
      BY ONLY <3>1, CountSame
    <3>3. QED
      BY <3>2 DEF S
  <2>3. Count(tmp', Left .. index, v)
          = Count(tmp', Left .. index - 1, v) + (IF arr[from] = v THEN 1 ELSE 0)
    <3>1. Left \in Int /\ index \in Int /\ Left <= index /\ tmp'[index] = arr[from]
      BY <1>1, <1>3, <1>6, <1>7
    <3> DEFINE t == tmp'
    <3>2. Left \in Int /\ index \in Int /\ Left <= index
      BY <3>1
    <3> HIDE DEF t
    <3>3. Count(t, Left .. index, v)
            = Count(t, Left .. index - 1, v) + (IF t[index] = v THEN 1 ELSE 0)
      BY ONLY <3>2, CountNext
    <3>4. QED
      BY ONLY <3>1, <3>3 DEF t
  <2>4. /\ Count(arr, Left .. begin1 - 1, v) \in Nat
        /\ Count(arr, End1 + 1 .. begin2 - 1, v) \in Nat
    BY <1>1, <1>3, CountType
  <2>5. index' - 1 = index
    BY <1>1
  <2>6. CASE from = begin1 /\ begin1' = begin1 + 1 /\ begin2' = begin2
    <3>1. Count(arr, Left .. begin1, v)
            = Count(arr, Left .. begin1 - 1, v) + (IF arr[from] = v THEN 1 ELSE 0)
      <4>1. Left \in Int /\ begin1 \in Int /\ Left <= begin1
        BY <1>1, <1>3, <1>4
      <4>2. QED
        BY ONLY <4>1, <2>6, CountNext
    <3>2. begin1' - 1 = begin1
      BY <2>6, <1>1
    <3>3. QED
      BY <2>1, <2>2, <2>3, <2>4, <2>5, <2>6, <3>1, <3>2
  <2>7. CASE from = begin2 /\ begin2' = begin2 + 1 /\ begin1' = begin1
    <3>1. Count(arr, End1 + 1 .. begin2, v)
            = Count(arr, End1 + 1 .. begin2 - 1, v) + (IF arr[from] = v THEN 1 ELSE 0)
      <4> DEFINE first2 == End1 + 1
      <4>1. first2 \in Int /\ begin2 \in Int /\ first2 <= begin2
        BY <1>1, <1>3, <1>4
      <4> HIDE DEF first2
      <4>2. Count(arr, first2 .. begin2, v)
              = Count(arr, first2 .. begin2 - 1, v) + (IF arr[from] = v THEN 1 ELSE 0)
        BY ONLY <4>1, <2>7, CountNext
      <4>3. QED
        BY <4>2 DEF first2
    <3>2. begin2' - 1 = begin2
      BY <2>7, <1>1
    <3>3. QED
      BY <2>1, <2>2, <2>3, <2>4, <2>5, <2>7, <3>1, <3>2
  <2>8. QED
    BY <2>6, <2>7
<1>15. Merging'
  <2>1. /\ Left <= begin1' /\ begin1' <= End1 + 1 /\ End1 < begin2' /\ begin2' <= Right + 1
        /\ index' = begin1' + begin2' - End1 - 1
    <3>1. CASE from = begin1 /\ begin1 <= End1 /\ begin1' = begin1 + 1 /\ begin2' = begin2
      BY <3>1, <1>1, <1>3, <1>4
    <3>2. CASE from = begin2 /\ begin2 <= Right /\ begin2' = begin2 + 1 /\ begin1' = begin1
      BY <3>2, <1>1, <1>3, <1>4
    <3>3. QED
      BY <3>1, <3>2
  <2>2. arr' = arr /\ tasks' # <<>> /\ tasks'[1][3] = "merge"
    BY <1>2
  <2>3. SortedOn(tmp, Left .. index - 1)'
    BY <1>5, <1>10 DEF SortedOn
  <2>4. (\A p \in Left .. index - 1 :
            \A q \in (begin1 .. End1) \cup (begin2 .. Right) : tmp[p] <= arr[q])'
    BY ONLY <2>2, <1>5, <1>12
  <2>5. (\A p \in Left .. index - 1 : \E q \in Left .. Right : tmp[p] = arr[q])'
    BY ONLY <2>2, <1>5, <1>13
  <2>6. (\A v \in Values :
            Count(tmp, Left .. index - 1, v)
              = Count(arr, Left .. begin1 - 1, v) + Count(arr, End1 + 1 .. begin2 - 1, v))'
    BY ONLY <2>2, <1>5, <1>14
  <2>7. (/\ Left <= begin1 /\ begin1 <= End1 + 1
         /\ End1 < begin2 /\ begin2 <= Right + 1
         /\ index = begin1 + begin2 - End1 - 1)'
    BY ONLY <2>1, <1>5
  <2>8. QED
    BY ONLY <2>2, <2>3, <2>4, <2>5, <2>6, <2>7 DEF Merging
<1>16. MergeTypes' /\ TasksNest' /\ HalvesSorted' /\ RestSorted'
  <2>1. /\ MergeTypes /\ TasksNest /\ HalvesSorted /\ RestSorted
        /\ arr' = arr /\ size' = size /\ tasks' = tasks
    BY DEF MergeInv
  <2>2. /\ tmp' \in [0 .. size - 1 -> Values]
        /\ begin1' \in Int /\ begin2' \in Int /\ index' \in Int
    BY <1>1, <1>7
  <2>3. MergeTypes'
    BY ONLY <2>1, <2>2 DEF MergeTypes
  <2>4. TasksNest'
    BY ONLY <2>1 DEF TasksNest, InOneHalf
  <2>5. HalvesSorted'
    BY ONLY <2>1 DEF HalvesSorted, InOneHalf, PendingBefore
  <2>6. RestSorted'
    BY ONLY <2>1 DEF RestSorted, PendingBefore
  <2>7. QED
    BY ONLY <2>3, <2>4, <2>5, <2>6
<1>17. QED
  BY <1>15, <1>16 DEF MergeInv

\* The first half's next element is taken.
LEMMA TakeFirstKeeps == ArrayInv /\ MergeInv /\ TakeFirst => MergeInv'
<1> SUFFICES ASSUME ArrayInv, MergeInv, TakeFirst PROVE MergeInv'
  OBVIOUS
<1>1. /\ pc = "merge" /\ begin1 <= End1 /\ (begin2 <= Right => arr[begin1] <= arr[begin2])
      /\ tmp' = [tmp EXCEPT ![index] = arr[begin1]] /\ index' = index + 1
      /\ begin1' = begin1 + 1 /\ begin2' = begin2
      /\ UNCHANGED <<arr, size, input, pc, tasks>>
  BY DEF TakeFirst, arrayVars
<1>2. tasks # <<>> /\ tasks[1][3] = "merge"
  BY <1>1 DEF MergeInv, Merging
<1>3. /\ Left \in 0 .. size - 1 /\ Right \in 0 .. size - 1 /\ End1 \in 0 .. size - 1
      /\ Left <= End1 /\ End1 < Right
      /\ \A p, q \in Left .. End1 : p <= q => arr[p] <= arr[q]
      /\ \A p, q \in End1 + 1 .. Right : p <= q => arr[p] <= arr[q]
  BY <1>1, <1>2, TopMerge
<1>4. /\ size \in Nat /\ begin1 \in Int /\ begin2 \in Int
      /\ Left <= begin1 /\ begin1 <= End1 + 1 /\ End1 < begin2 /\ begin2 <= Right + 1
      /\ \A p \in 0 .. size - 1 : arr[p] \in Int
  BY <1>1, MergeFacts DEF MergeInv, MergeTypes, Merging
<1>5. \A q \in begin1 .. End1 : arr[begin1] <= arr[q]
  BY <1>1, <1>3, <1>4
<1>6. \A q \in begin2 .. Right : arr[begin1] <= arr[q]
  <2> SUFFICES ASSUME NEW q \in begin2 .. Right PROVE arr[begin1] <= arr[q]
    OBVIOUS
  <2>1. arr[begin1] <= arr[begin2]
    BY <1>1, <1>3, <1>4
  <2>2. arr[begin2] <= arr[q]
    BY <1>3, <1>4
  <2>3. arr[begin1] \in Int /\ arr[begin2] \in Int /\ arr[q] \in Int
    BY <1>1, <1>3, <1>4
  <2>4. QED
    BY <2>1, <2>2, <2>3
<1>7. begin1 \in 0 .. size - 1
  BY <1>1, <1>3, <1>4
<1>8. QED
  BY <1>1, <1>5, <1>6, <1>7, TakeKeeps

\* The second half's next element is taken.
LEMMA TakeSecondKeeps == ArrayInv /\ MergeInv /\ TakeSecond => MergeInv'
<1> SUFFICES ASSUME ArrayInv, MergeInv, TakeSecond PROVE MergeInv'
  OBVIOUS
<1>1. /\ pc = "merge" /\ begin2 <= Right /\ (begin1 <= End1 => arr[begin1] > arr[begin2])
      /\ tmp' = [tmp EXCEPT ![index] = arr[begin2]] /\ index' = index + 1
      /\ begin2' = begin2 + 1 /\ begin1' = begin1
      /\ UNCHANGED <<arr, size, input, pc, tasks>>
  BY DEF TakeSecond, arrayVars
<1>2. tasks # <<>> /\ tasks[1][3] = "merge"
  BY <1>1 DEF MergeInv, Merging
<1>3. /\ Left \in 0 .. size - 1 /\ Right \in 0 .. size - 1 /\ End1 \in 0 .. size - 1
      /\ Left <= End1 /\ End1 < Right
      /\ \A p, q \in Left .. End1 : p <= q => arr[p] <= arr[q]
      /\ \A p, q \in End1 + 1 .. Right : p <= q => arr[p] <= arr[q]
  BY <1>1, <1>2, TopMerge
<1>4. /\ size \in Nat /\ begin1 \in Int /\ begin2 \in Int
      /\ Left <= begin1 /\ begin1 <= End1 + 1 /\ End1 < begin2 /\ begin2 <= Right + 1
      /\ \A p \in 0 .. size - 1 : arr[p] \in Int
  BY <1>1, MergeFacts DEF MergeInv, MergeTypes, Merging
<1>5. \A q \in begin2 .. Right : arr[begin2] <= arr[q]
  BY <1>1, <1>3, <1>4
<1>6. \A q \in begin1 .. End1 : arr[begin2] <= arr[q]
  <2> SUFFICES ASSUME NEW q \in begin1 .. End1 PROVE arr[begin2] <= arr[q]
    OBVIOUS
  <2>1. arr[begin2] < arr[begin1]
    BY <1>1, <1>3, <1>4
  <2>2. arr[begin1] <= arr[q]
    BY <1>3, <1>4
  <2>3. arr[begin1] \in Int /\ arr[begin2] \in Int /\ arr[q] \in Int
    BY <1>1, <1>3, <1>4
  <2>4. QED
    BY <2>1, <2>2, <2>3
<1>7. begin2 \in 0 .. size - 1
  BY <1>1, <1>3, <1>4
<1>8. QED
  BY <1>1, <1>5, <1>6, <1>7, TakeKeeps

\* What every step of CopyBack's proof needs.
LEMMA CopyBackFacts ==
    ASSUME ArrayInv, MergeInv, CopyBack
    PROVE  /\ size \in Nat /\ arr \in [0 .. size - 1 -> Values]
           /\ tmp \in [0 .. size - 1 -> Values] /\ size' = size
           /\ \A p \in 0 .. size - 1 : arr[p] \in Int /\ tmp[p] \in Int
           /\ Left \in 0 .. size - 1 /\ Right \in 0 .. size - 1 /\ End1 \in 0 .. size - 1
           /\ Left <= End1 /\ End1 < Right
           /\ arr' \in [0 .. size - 1 -> Values]
           /\ \A p \in Left .. Right : arr'[p] = tmp[p]
           /\ \A p \in 0 .. size - 1 : p \notin Left .. Right => arr'[p] = arr[p]
           /\ SortedOn(tmp, Left .. Right)
           /\ \A p \in Left .. Right : \E q \in Left .. Right : tmp[p] = arr[q]
           /\ \A v \in Values : Count(tmp, Left .. Right, v)
                                  = Count(arr, Left .. End1, v) + Count(arr, End1 + 1 .. Right, v)
<1>1. /\ pc = "merge" /\ begin1 > End1 /\ begin2 > Right /\ size' = size
      /\ arr' = [p \in 0 .. size - 1 |-> IF p \in Left .. Right THEN tmp[p] ELSE arr[p]]
  BY DEF CopyBack
<1>2. tasks # <<>> /\ tasks[1][3] = "merge" /\ Merging
  BY <1>1 DEF MergeInv, Merging
<1>3. /\ size \in Nat /\ arr \in [0 .. size - 1 -> Values] /\ tmp \in [0 .. size - 1 -> Values]
      /\ \A p \in 0 .. size - 1 : arr[p] \in Int /\ tmp[p] \in Int
      /\ begin1 \in Int /\ begin2 \in Int /\ index \in Int
  BY <1>1, MergeFacts DEF MergeInv, MergeTypes
<1>4. /\ Left \in 0 .. size - 1 /\ Right \in 0 .. size - 1 /\ End1 \in 0 .. size - 1
      /\ Left <= End1 /\ End1 < Right
  BY <1>1, <1>2, TopMerge
<1>5. begin1 - 1 = End1 /\ begin2 - 1 = Right /\ index - 1 = Right
  <2>1. /\ begin1 > End1 /\ begin1 <= End1 + 1 /\ begin2 > Right /\ begin2 <= Right + 1
        /\ index = begin1 + begin2 - End1 - 1
    BY <1>1, <1>2 DEF Merging
  <2>2. End1 \in Int /\ Right \in Int
    BY <1>4
  <2>3. QED
    BY ONLY <1>3, <2>1, <2>2
<1>6. /\ SortedOn(tmp, Left .. Right)
      /\ \A p \in Left .. Right : \E q \in Left .. Right : tmp[p] = arr[q]
      /\ \A v \in Values : Count(tmp, Left .. Right, v)
                             = Count(arr, Left .. End1, v) + Count(arr, End1 + 1 .. Right, v)
  BY <1>1, <1>2, <1>5 DEF Merging
<1>7. /\ arr' \in [0 .. size - 1 -> Values]
      /\ \A p \in Left .. Right : arr'[p] = tmp[p]
      /\ \A p \in 0 .. size - 1 : p \notin Left .. Right => arr'[p] = arr[p]
  BY <1>1, <1>3, <1>4
<1>8. QED
  BY <1>1, <1>3, <1>4, <1>6, <1>7

\* The merged range holds what both halves held, so the array keeps its elements.
LEMMA CopyBackSame == ASSUME ArrayInv, MergeInv, CopyBack PROVE SameElements'
<1> DEFINE last == size - 1
           before == Left - 1
           mid == End1
           first2 == End1 + 1
           after == Right + 1
<1>1. /\ last \in Int /\ before \in Int /\ mid \in Int /\ first2 \in Int /\ after \in Int
      /\ Left \in Int /\ Right \in Int
      /\ before + 1 = Left /\ mid + 1 = first2 /\ Right + 1 = after
      /\ 0 <= before + 1 /\ before <= Right /\ Right <= last /\ 0 <= Right + 1
      /\ Left <= mid + 1 /\ mid <= Right
  <2>1. /\ size \in Nat /\ Left \in 0 .. size - 1 /\ Right \in 0 .. size - 1
        /\ End1 \in 0 .. size - 1 /\ Left <= End1 /\ End1 < Right
    BY CopyBackFacts
  <2>2. QED
    BY ONLY <2>1
<1>2. /\ \A p \in 0 .. before : arr'[p] = arr[p]
      /\ \A p \in after .. last : arr'[p] = arr[p]
      /\ \A p \in Left .. Right : arr'[p] = tmp[p]
  BY CopyBackFacts
<1>3. \A v \in Values : Count(tmp, Left .. Right, v)
                          = Count(arr, Left .. mid, v) + Count(arr, first2 .. Right, v)
  BY CopyBackFacts
<1>4. size' = size /\ input' = input
  BY DEF CopyBack
<1> HIDE DEF last, before, mid, first2, after
<1>5. ASSUME NEW a, NEW v
      PROVE  /\ Count(a, 0 .. last, v) = Count(a, 0 .. before, v) + Count(a, Left .. Right, v)
                                           + Count(a, after .. last, v)
             /\ Count(a, Left .. Right, v) = Count(a, Left .. mid, v) + Count(a, first2 .. Right, v)
  <2>1. /\ Count(a, 0 .. last, v) = Count(a, 0 .. Right, v) + Count(a, after .. last, v)
        /\ Count(a, 0 .. Right, v) = Count(a, 0 .. before, v) + Count(a, Left .. Right, v)
        /\ Count(a, Left .. Right, v) = Count(a, Left .. mid, v) + Count(a, first2 .. Right, v)
    <3>1. Count(a, 0 .. last, v) = Count(a, 0 .. Right, v) + Count(a, Right + 1 .. last, v)
      BY ONLY <1>1, CountSplit
    <3>2. Count(a, 0 .. Right, v) = Count(a, 0 .. before, v) + Count(a, before + 1 .. Right, v)
      BY ONLY <1>1, CountSplit
    <3>3. Count(a, Left .. Right, v) = Count(a, Left .. mid, v) + Count(a, mid + 1 .. Right, v)
      BY ONLY <1>1, CountSplit
    <3>4. QED
      BY ONLY <1>1, <3>1, <3>2, <3>3
  <2>2. QED
    BY ONLY <2>1
<1>6. ASSUME NEW v \in Values
      PROVE  Count(arr', 0 .. last, v) = Count(arr, 0 .. last, v)
  <2>1. /\ Count(arr', 0 .. before, v) = Count(arr, 0 .. before, v)
        /\ Count(arr', after .. last, v) = Count(arr, after .. last, v)
        /\ Count(arr', Left .. Right, v) = Count(tmp, Left .. Right, v)
    <3> DEFINE b == arr'
               S == 0 .. before
               T == after .. last
               U == Left .. Right
    <3>1. /\ \A p \in S : b[p] = arr[p]
          /\ \A p \in T : b[p] = arr[p]
          /\ \A p \in U : b[p] = tmp[p]
      BY ONLY <1>2
    <3> HIDE DEF b, S, T, U
    <3>2. /\ Count(b, S, v) = Count(arr, S, v)
          /\ Count(b, T, v) = Count(arr, T, v)
          /\ Count(b, U, v) = Count(tmp, U, v)
      BY ONLY <3>1, CountSame
    <3>3. QED
      BY ONLY <3>2 DEF b, S, T, U
  <2>2. Count(tmp, Left .. Right, v) = Count(arr, Left .. Right, v)
    BY ONLY <1>3, <1>5
  <2>3. QED
    BY ONLY <1>5, <2>1, <2>2
<1>7. QED
  BY <1>4, <1>6 DEF ArrayInv, SameElements, last

\* Where what the array holds at a position after the copy was before it.
Origin(p) == IF p \in Left .. Right THEN Left .. Right ELSE {p}

\* Two positions are in order after the copy, or one of the tasks that are
\* left will put them in order, if that held before for their origins.
LEMMA CopyBackPair ==
    ASSUME ArrayInv, MergeInv, CopyBack, NEW k \in 1 .. Len(tasks),
           NEW p \in 0 .. size - 1, NEW q \in 0 .. size - 1, p < q,
           \A r \in Origin(p), s \in Origin(q) :
               r < s => arr[r] <= arr[s] \/ PendingBefore(k, r, s)
    PROVE  arr'[p] <= arr'[q] \/ PendingBefore(k - 1, p, q)'
<1>1. pc = "merge" /\ tasks # <<>> /\ tasks' = Tail(tasks) /\ TasksNest
  BY DEF CopyBack, MergeInv, Merging
<1>2. /\ size \in Nat /\ arr \in [0 .. size - 1 -> Values]
      /\ \A x \in 0 .. size - 1 : arr[x] \in Int /\ tmp[x] \in Int
      /\ Left \in 0 .. size - 1 /\ Right \in 0 .. size - 1 /\ Left < Right
      /\ \A x \in Left .. Right : arr'[x] = tmp[x]
      /\ \A x \in 0 .. size - 1 : x \notin Left .. Right => arr'[x] = arr[x]
      /\ SortedOn(tmp, Left .. Right)
      /\ \A x \in Left .. Right : \E y \in Left .. Right : tmp[x] = arr[y]
  <2>1. /\ size \in Nat /\ Left \in 0 .. size - 1 /\ Right \in 0 .. size - 1
        /\ End1 \in 0 .. size - 1 /\ Left <= End1 /\ End1 < Right
    BY CopyBackFacts
  <2>2. Left < Right
    BY ONLY <2>1
  <2>3. QED
    BY <2>2, CopyBackFacts
<1>3. /\ Len(tasks) \in Nat /\ Len(tasks') = Len(tasks) - 1
      /\ \A n \in 1 .. Len(tasks') : tasks'[n] = tasks[n + 1]
      /\ \A n \in 1 .. Len(tasks) : tasks[n][1] \in Int /\ tasks[n][2] \in Int
      /\ tasks[1][1] = Left /\ tasks[1][2] = Right
  BY <1>1, MergeFacts, TasksTail DEF Left, Right
<1>4. PICK r \in Origin(p), s \in Origin(q) :
          /\ ~(p \in Left .. Right /\ q \in Left .. Right) => arr'[p] = arr[r] /\ arr'[q] = arr[s]
  BY <1>2 DEF Origin
<1>5. CASE p \in Left .. Right /\ q \in Left .. Right
  BY <1>5, <1>2 DEF SortedOn
<1>6. CASE ~(p \in Left .. Right /\ q \in Left .. Right)
  <2>1. /\ r \in 0 .. size - 1 /\ s \in 0 .. size - 1
        /\ \/ p \in Left .. Right /\ r \in Left .. Right /\ s = q /\ q > Right
           \/ q \in Left .. Right /\ s \in Left .. Right /\ r = p /\ p < Left
           \/ p \notin Left .. Right /\ q \notin Left .. Right /\ r = p /\ s = q
    <3>1. CASE p \in Left .. Right
      BY <3>1, <1>2, <1>4, <1>6 DEF Origin
    <3>2. CASE q \in Left .. Right
      BY <3>2, <1>2, <1>4, <1>6 DEF Origin
    <3>3. CASE p \notin Left .. Right /\ q \notin Left .. Right
      BY <3>3, <1>4 DEF Origin
    <3>4. QED
      BY <3>1, <3>2, <3>3
  <2>2. /\ Left \in Int /\ Right \in Int /\ Left < Right
        /\ p \in Int /\ q \in Int /\ r \in Int /\ s \in Int /\ p < q
    BY <2>1, <1>2
  <2>3. arr[r] <= arr[s] \/ PendingBefore(k, r, s)
    <3>1. r < s
      BY <2>1, <1>2
    <3>2. QED
      BY <1>4, <3>1
  <2>4. CASE PendingBefore(k, r, s)
    <3>1. PICK m \in 1 .. k : m <= Len(tasks) /\ tasks[m][1] <= r /\ s <= tasks[m][2]
      BY <2>4 DEF PendingBefore
    <3>2. m # 1
      <4> SUFFICES ASSUME m = 1 PROVE FALSE
        OBVIOUS
      <4>1. Left <= r /\ s <= Right
        BY <3>1, <1>3
      <4>2. QED
        BY ONLY <4>1, <2>1, <2>2
    <3>3. m - 1 \in 1 .. k - 1 /\ m - 1 <= Len(tasks') /\ tasks'[m - 1] = tasks[m]
      BY <3>1, <3>2, <1>3
    <3>4. \/ Right < tasks[m][1]
          \/ tasks[m][3] = "merge" /\ InOneHalf(m, Left, Right)
      BY <3>1, <3>2, <1>1, <1>3 DEF TasksNest
    <3>5. m \in 1 .. Len(tasks) /\ tasks[m][1] \in Int /\ tasks[m][2] \in Int
      BY <3>1, <1>3
    <3>6. tasks[m][3] = "merge" => tasks[m][1] < tasks[m][2]
      BY <3>5, <1>1 DEF TasksNest
    <3>7. tasks[m][3] = "merge" => /\ tasks[m][1] <= Mid(tasks[m][1], tasks[m][2])
                                   /\ Mid(tasks[m][1], tasks[m][2]) < tasks[m][2]
                                   /\ Mid(tasks[m][1], tasks[m][2]) \in Int
      BY <3>5, <3>6, MidInside
    <3>8. Right < tasks[m][1] \/ (tasks[m][1] <= Left /\ Right <= tasks[m][2])
      BY <3>4, <3>5, <3>7, <1>2 DEF InOneHalf
    <3>9. tasks[m][1] <= p /\ q <= tasks[m][2]
      BY ONLY <3>1, <3>5, <3>8, <2>1, <2>2
    <3>10. QED
      BY <3>3, <3>9 DEF PendingBefore
  <2>5. CASE arr[r] <= arr[s]
    BY <2>5, <1>4, <1>6
  <2>6. QED
    BY <2>3, <2>4, <2>5
<1>7. QED
  BY <1>5, <1>6

\* The end of a merge.
LEMMA CopyBackKeeps == ArrayInv /\ MergeInv /\ CopyBack => MergeInv' /\ SameElements'
<1> SUFFICES ASSUME ArrayInv, MergeInv, CopyBack PROVE MergeInv' /\ SameElements'
  OBVIOUS
<1>1. /\ pc = "merge" /\ tasks # <<>> /\ tasks' = Tail(tasks) /\ pc' = "split"
      /\ begin1' = begin1 /\ begin2' = begin2 /\ index' = index /\ tmp' = tmp
      /\ size' = size
  BY DEF CopyBack, MergeInv, Merging
<1>2. /\ Len(tasks) \in Nat /\ Len(tasks) >= 1 /\ Len(tasks') = Len(tasks) - 1
      /\ tasks' \in Seq(Tasks) /\ 1 \in 1 .. Len(tasks)
      /\ \A n \in 1 .. Len(tasks') : n + 1 \in 1 .. Len(tasks) /\ tasks'[n] = tasks[n + 1]
      /\ \A n \in 1 .. Len(tasks) : tasks[n][1] \in Int /\ tasks[n][2] \in Int
      /\ tasks[1][1] = Left /\ tasks[1][2] = Right
  <2>1. /\ tasks' \in Seq(Tasks) /\ Len(tasks') = Len(tasks) - 1
        /\ \A n \in 1 .. Len(tasks) - 1 : tasks'[n] = tasks[n + 1]
        /\ 1 \in 1 .. Len(tasks) /\ Len(tasks) \in Nat
        /\ \A n \in 1 .. Len(tasks) : tasks[n][1] \in 0 .. size /\ tasks[n][2] \in -1 .. size - 1
        /\ size \in Nat
    BY <1>1, MergeFacts, TasksTail
  <2>2. QED
    BY <2>1 DEF Left, Right
<1>3. size \in Nat /\ Left \in 0 .. size - 1 /\ Right \in 0 .. size - 1
  BY CopyBackFacts
<1>4. TasksNest /\ HalvesSorted /\ RestSorted
  BY <1>1 DEF MergeInv
<1>5. HalvesSorted'
  <2> SUFFICES ASSUME NEW n \in 1 .. Len(tasks'),
                      NEW p \in 0 .. size - 1, NEW q \in 0 .. size - 1,
                      tasks'[n][3] = "merge", p < q, InOneHalf(n, p, q)'
               PROVE  arr'[p] <= arr'[q] \/ PendingBefore(n - 1, p, q)'
    BY <1>1 DEF HalvesSorted
  <2>1. /\ n + 1 \in 1 .. Len(tasks) /\ tasks'[n] = tasks[n + 1]
        /\ (n + 1) - 1 = n /\ n \in 1 .. Len(tasks) /\ 1 < n + 1
    BY <1>2
  <2>2. tasks[n + 1][3] = "merge" /\ InOneHalf(n + 1, p, q)
    BY <2>1 DEF InOneHalf
  <2>3. \/ Right < tasks[n + 1][1]
        \/ InOneHalf(n + 1, Left, Right)
    BY <2>1, <1>2, <1>4 DEF TasksNest
  <2>4. /\ tasks[n + 1][1] \in Int /\ tasks[n + 1][2] \in Int
        /\ tasks[n + 1][1] < tasks[n + 1][2]
    BY <2>1, <2>2, <1>2, <1>4 DEF TasksNest
  <2>5. /\ Mid(tasks[n + 1][1], tasks[n + 1][2]) \in Int
        /\ tasks[n + 1][1] <= Mid(tasks[n + 1][1], tasks[n + 1][2])
    BY <2>4, MidInside
  <2>6. ASSUME NEW r \in Origin(p), NEW s \in Origin(q), r < s
        PROVE  arr[r] <= arr[s] \/ PendingBefore(n, r, s)
    <3>1. r \in 0 .. size - 1 /\ s \in 0 .. size - 1
      BY <1>3 DEF Origin
    <3>2. InOneHalf(n + 1, r, s)
      <4> DEFINE mid == Mid(tasks[n + 1][1], tasks[n + 1][2])
      <4>1. /\ \/ tasks[n + 1][1] <= p /\ q <= mid
               \/ mid < p /\ q <= tasks[n + 1][2]
            /\ \/ Right < tasks[n + 1][1]
               \/ tasks[n + 1][1] <= Left /\ Right <= mid
               \/ mid < Left /\ Right <= tasks[n + 1][2]
        BY <2>2, <2>3 DEF InOneHalf
      <4>2. /\ (r = p /\ p \notin Left .. Right) \/ (r \in Left .. Right /\ p \in Left .. Right)
            /\ (s = q /\ q \notin Left .. Right) \/ (s \in Left .. Right /\ q \in Left .. Right)
        BY DEF Origin
      <4>3. /\ mid \in Int /\ tasks[n + 1][1] \in Int /\ tasks[n + 1][2] \in Int
            /\ tasks[n + 1][1] <= mid /\ Left \in Int /\ Right \in Int
            /\ p \in Int /\ q \in Int /\ r \in Int /\ s \in Int /\ p < q
        BY <2>4, <2>5, <3>1, <1>3
      <4> HIDE DEF mid
      <4>4. \/ tasks[n + 1][1] <= r /\ s <= mid
            \/ mid < r /\ s <= tasks[n + 1][2]
        BY ONLY SMTT(30), <4>1, <4>2, <4>3
      <4>5. QED
        BY ONLY <4>4 DEF InOneHalf, mid
    <3>3. QED
      BY <2>1, <2>2, <2>6, <3>1, <3>2, <1>4 DEF HalvesSorted
  <2>7. QED
    BY <2>1, <2>6, CopyBackPair
<1>6. RestSorted'
  <2> SUFFICES ASSUME NEW p \in 0 .. size - 1, NEW q \in 0 .. size - 1, p < q
               PROVE  arr'[p] <= arr'[q] \/ PendingBefore(Len(tasks), p, q)'
    BY <1>1 DEF RestSorted
  <2>1. ASSUME NEW r \in Origin(p), NEW s \in Origin(q), r < s
        PROVE  arr[r] <= arr[s] \/ PendingBefore(Len(tasks), r, s)
    <3>1. r \in 0 .. size - 1 /\ s \in 0 .. size - 1
      BY <1>3 DEF Origin
    <3>2. QED
      BY <2>1, <3>1, <1>4 DEF RestSorted
  <2>2. ASSUME NEW k \in 1 .. Len(tasks), k = Len(tasks)
        PROVE  arr'[p] <= arr'[q] \/ PendingBefore(k - 1, p, q)'
    BY <2>1, <2>2, CopyBackPair
  <2>3. Len(tasks) \in 1 .. Len(tasks) /\ Len(tasks) - 1 = Len(tasks')
    BY <1>2
  <2>4. QED
    BY <2>2, <2>3 DEF PendingBefore
<1>7. tmp' \in [0 .. size' - 1 -> Values] /\ begin1' \in Int /\ begin2' \in Int /\ index' \in Int
  BY <1>1, MergeFacts DEF MergeInv, MergeTypes
<1>8. MergeTypes'
  BY <1>1, <1>2, <1>7 DEF MergeTypes, Tasks
<1>9. TasksNest'
  BY <1>1, TailNests
<1>10. QED
  BY <1>1, <1>5, <1>6, <1>8, <1>9, CopyBackSame DEF MergeInv, Merging

\* No task is left: the array is in order.
LEMMA MergeReturnSorts ==
    ArrayInv /\ MergeInv /\ MergeReturn => SortedOn(arr, 0 .. size - 1)
<1> SUFFICES ASSUME ArrayInv, MergeInv, MergeReturn PROVE SortedOn(arr, 0 .. size - 1)
  OBVIOUS
<1>1. pc = "split" /\ tasks = <<>>
  BY DEF MergeReturn
<1>2. \A p, q : ~PendingBefore(Len(tasks), p, q)
  BY <1>1 DEF PendingBefore
<1>3. QED
  BY <1>1, <1>2 DEF MergeInv, RestSorted, SortedOn

\* A call of MergeSort starts with the whole array to be sorted.
LEMMA MergeInitially == ArrayInit /\ MergeInit /\ pc = "split" => MergeInv
<1> SUFFICES ASSUME ArrayInit, MergeInit, pc = "split" PROVE MergeInv
  OBVIOUS
<1>1. size \in Nat /\ tasks = <<<<0, size - 1, "sort">>>>
  BY LastIndexFacts DEF ArrayInit, MergeInit
<1>2. /\ Len(tasks) = 1 /\ tasks[1][1] = 0 /\ tasks[1][2] = size - 1 /\ tasks[1][3] = "sort"
      /\ tasks \in Seq(Tasks)
  BY <1>1 DEF Tasks
<1>3. \A p, q \in 0 .. size - 1 : PendingBefore(Len(tasks), p, q)
  BY <1>1, <1>2 DEF PendingBefore
<1>4. MergeTypes
  BY <1>2 DEF ArrayInit, MergeInit, MergeTypes, Tasks
<1>5. QED
  BY <1>1, <1>2, <1>3, <1>4
  DEF MergeInv, TasksNest, HalvesSorted, RestSorted, Merging

\* MergeSort keeps its invariant, and when it returns the array is sorted.
LEMMA MergeKeeps == ArrayInv /\ MergeInv /\ MergeStep => ArrayInv' /\ MergeInv' /\ Sorts'
<1> SUFFICES ASSUME ArrayInv, MergeInv, MergeStep PROVE ArrayInv' /\ MergeInv' /\ Sorts'
  OBVIOUS
<1>1. ASSUME Split \/ MergeBegin \/ TakeFirst \/ TakeSecond
      PROVE  ArrayInv' /\ MergeInv' /\ Sorts'
  <2>1. UNCHANGED <<arr, size, input>> /\ pc' \in {"split", "merge"}
    BY <1>1 DEF Split, MergeBegin, TakeFirst, TakeSecond, arrayVars
  <2>2. ArrayInv' /\ Sorts'
    BY <2>1 DEF ArrayInv, SameElements, Sorts
  <2>3. CASE Split
    <3>1. pc \in {"split", "merge"} /\ tasks # <<>>
      BY <2>3 DEF Split
    <3>2. Left \in Int /\ Right \in Int
      BY <3>1, MergeFacts, TasksTail DEF Left, Right
    <3>3. QED
      BY <2>2, <2>3, <3>2, SplitNothingKeeps, SplitInTwoKeeps
  <2>4. CASE MergeBegin \/ TakeFirst \/ TakeSecond
    BY <2>2, <2>4, MergeBeginKeeps, TakeFirstKeeps, TakeSecondKeeps
  <2>5. QED
    BY <1>1, <2>3, <2>4
<1>2. CASE CopyBack
  <2>1. arr' \in [0 .. size - 1 -> Values]
    BY <1>2, CopyBackFacts
  <2>2. QED
    BY <1>2, <2>1, CopyBackKeeps DEF ArrayInv, Sorts, CopyBack
<1>3. CASE MergeReturn
  <2>1. pc' = "done" /\ UNCHANGED <<arr, size, input>>
    BY <1>3 DEF MergeReturn
  <2>2. QED
    BY <1>3, <2>1, MergeReturnSorts DEF ArrayInv, MergeInv, SameElements, Sorts, SortedOn
<1>4. QED
  BY <1>1, <1>2, <1>3 DEF MergeStep

----------------------------------------------------------------------------
(* The three together                                                      *)

\* A call starts with the array its caller passed.
LEMMA Initially == Init => IInv
<1> SUFFICES ASSUME Init PROVE IInv
  OBVIOUS
<1>1. ArrayInit /\ HeapInit /\ QuickInit /\ MergeInit /\ pc \in {"heapify", "call", "split"}
  BY DEF Init
<1>2. ArrayInv /\ Sorts
  BY <1>1 DEF ArrayInit, ArrayInv, SameElements, Sorts
<1>3. HeapInv
  BY <1>1, HeapInitially DEF HeapInv
<1>4. QuickInv
  BY <1>1, QuickInitially DEF QuickInv
<1>5. MergeInv
  BY <1>1, MergeInitially DEF MergeInv
<1>6. QED
  BY <1>2, <1>3, <1>4, <1>5 DEF IInv

\* Every step of the function that was called keeps the invariant.
LEMMA Keeps == IInv /\ [Next]_vars => IInv'
<1> SUFFICES ASSUME IInv, [Next]_vars PROVE IInv'
  OBVIOUS
<1>1. ArrayInv /\ HeapInv /\ QuickInv /\ MergeInv /\ Sorts
  BY DEF IInv
<1>2. CASE HeapStep
  <2>1. pc' \in {"heapify", "pop", "down", "done"}
    BY <1>2 DEF HeapStep, AdjustUpSwap, AdjustUpEnd, Heapified, Pop, AdjustDownSwap,
                AdjustDownEnd, HeapReturn, arrayVars
  <2>2. QuickInv' /\ MergeInv'
    BY <2>1 DEF QuickInv, MergeInv
  <2>3. QED
    BY <1>1, <1>2, <2>2, HeapKeeps DEF IInv
<1>3. CASE QuickStep
  <2>1. pc' \in {"call", "partition", "done"}
    BY <1>3 DEF QuickStep, QuickTrivial, QuickPivot, Less, Greater, Equal, Partitioned,
                QuickReturn, arrayVars
  <2>2. HeapInv' /\ MergeInv'
    BY <2>1 DEF HeapInv, MergeInv
  <2>3. QED
    BY <1>1, <1>3, <2>2, QuickKeeps DEF IInv
<1>4. CASE MergeStep
  <2>1. pc' \in {"split", "merge", "done"}
    BY <1>4 DEF MergeStep, Split, MergeBegin, TakeFirst, TakeSecond, CopyBack, MergeReturn,
                arrayVars
  <2>2. HeapInv' /\ QuickInv'
    BY <2>1 DEF HeapInv, QuickInv
  <2>3. QED
    BY <1>1, <1>4, <2>2, MergeKeeps DEF IInv
<1>5. CASE UNCHANGED vars
  <2>1. UNCHANGED <<arr, size, input, pc>>
    BY <1>5 DEF vars, arrayVars
  <2>2. UNCHANGED <<heapVars, quickVars, mergeVars>>
    BY <1>5 DEF vars
  <2>3. ArrayInv' /\ Sorts'
    BY <1>1, <2>1 DEF ArrayInv, SameElements, Sorts
  <2>4. HeapInv'
    BY <1>1, <2>1, <2>2 DEF HeapInv, HeapTypes, HeapBut, SortedFrom, FitsBelowParent,
                            ChildrenOf, heapVars
  <2>5. QuickInv'
    BY <1>1, <2>1, <2>2 DEF QuickInv, QuickTypes, CallsAscend, SortedElsewhere, StillToSort,
                            PartitionInv, quickVars
  <2>6. MergeInv'
    <3>1. UNCHANGED <<tasks, begin1, begin2, index, tmp>>
      BY <2>2 DEF mergeVars
    <3>2. Left' = Left /\ Right' = Right /\ End1' = End1
      BY <3>1 DEF Left, Right, End1
    <3>3. MergeTypes => MergeTypes'
      BY <2>1, <3>1 DEF MergeTypes
    <3>4. TasksNest => TasksNest'
      BY <3>1 DEF TasksNest, InOneHalf
    <3>5. HalvesSorted /\ RestSorted => HalvesSorted' /\ RestSorted'
      BY <2>1, <3>1 DEF HalvesSorted, RestSorted, InOneHalf, PendingBefore
    <3>6. Merging => Merging'
      BY <2>1, <3>1, <3>2 DEF Merging, SortedOn
    <3>7. QED
      BY <1>1, <2>1, <3>3, <3>4, <3>5, <3>6 DEF MergeInv
  <2>7. QED
    BY <2>3, <2>4, <2>5, <2>6 DEF IInv
<1>6. QED
  BY <1>2, <1>3, <1>4, <1>5 DEF Next, Returned

\* Every index the three functions use is inside the array, whatever its size,
\* and no loop loses or doubles an element.
THEOREM Inductive == Spec => []IInv
BY Initially, Keeps, PTL DEF Spec

\* What the caller gets: his elements, each as often as before, in ascending
\* order.
THEOREM Correct == Spec => []Sorts
<1>1. IInv => Sorts
  BY DEF IInv
<1>2. QED
  BY <1>1, Inductive, PTL
=============================================================================
