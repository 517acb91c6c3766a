------------------------- MODULE SharedPtr_proofs ---------------------------
(***************************************************************************)
(* Theorems about SharedPtr for every finite set of threads and of handles *)
(* and every set of objects.                                               *)
(***************************************************************************)
EXTENDS SharedPtr, FiniteSetTheorems, TLAPS

USE SlotsAssumption, NamesAssumption, RangeAssumption

\* The types without the bound on the counters, and the client's discipline.
Typed ==
    /\ ref \in [Slots -> Objects \cup {Null, Absent}]
    /\ obj \in [Objects -> {"unborn", "alive", "leaked", "deleted"}]
    /\ counter \in [Objects -> {"none", "alive", "deleted"}]
    /\ count \in [Objects -> Nat]
    /\ pc \in [Threads -> {"idle", "increment", "swap", "release", "deleteObject", "deleteCounter"}]
    /\ slot \in [Threads -> Slots]
    /\ from \in [Threads -> Handles \cup {Null}]
    /\ target \in [Threads -> Handles \cup {Null}]
Base == Typed /\ OneWriter

\* The program starts without handles, all threads outside an operation.
LEMMA BaseInit == Init => Base
BY DEF Init, Base, Typed, OneWriter, Slots, Built

\* There are finitely many slots, fewer than an unsigned counter has values.
LEMMA CountRangePositive == CountRange \in Nat /\ CountRange > 0 /\ Cardinality(Slots) \in Nat
<1>1. IsFiniteSet(Slots)
  BY FS_Union DEF Slots
<1>2. Cardinality(Slots) \in Nat
  BY <1>1, FS_CardinalityType
<1>3. QED
  BY <1>2

\* Every operation keeps the types of the variables.
LEMMA TypedStep == Typed /\ OneWriter /\ [Next]_vars => Typed'
<1> SUFFICES ASSUME Typed, OneWriter, [Next]_vars PROVE Typed'
  OBVIOUS
<1> USE DEF Typed, OneWriter, Slots, Built, Enter, Leave, local
<1>1. ASSUME NEW t \in Threads, NEW h \in Handles, NEW o \in Objects, Construct(t, h, o) PROVE Typed'
  BY <1>1 DEF Construct
<1>2. ASSUME NEW t \in Threads, NEW h \in Handles, NEW o \in Objects, ConstructThrows(t, h, o) PROVE Typed'
  BY <1>2 DEF ConstructThrows
<1>3. ASSUME NEW t \in Threads, NEW h \in Handles, ConstructNull(t, h) PROVE Typed'
  BY <1>3 DEF ConstructNull
<1>4. ASSUME NEW t \in Threads, NEW h \in Handles, Destroy(t, h) PROVE Typed'
  BY <1>4 DEF Destroy
<1>5. ASSUME NEW t \in Threads, NEW h \in Handles, NEW p \in Handles, CopyConstruct(t, h, p) PROVE Typed'
  BY <1>5 DEF CopyConstruct
<1>6. ASSUME NEW t \in Threads, NEW h \in Handles, NEW p \in Handles, MoveConstruct(t, h, p) PROVE Typed'
  BY <1>6 DEF MoveConstruct
<1>7. ASSUME NEW t \in Threads, NEW h \in Handles, NEW p \in Handles, AssignCopy(t, h, p) PROVE Typed'
  BY <1>7 DEF AssignCopy
<1>8. ASSUME NEW t \in Threads, NEW h \in Handles, NEW p \in Handles, AssignMove(t, h, p) PROVE Typed'
  BY <1>8 DEF AssignMove
<1>9. ASSUME NEW t \in Threads, NEW h \in Handles, NEW p \in Handles, Swap(t, h, p) PROVE Typed'
  BY <1>9 DEF Swap
<1>10. ASSUME NEW t \in Threads, Increment(t) PROVE Typed'
  <2>1. (count[ref[slot[t]]] + 1) % CountRange \in Nat
    BY <1>10, CountRangePositive DEF Increment
  <2>2. QED
    BY <1>10, <2>1 DEF Increment
<1>11. ASSUME NEW t \in Threads, AssignSwap(t) PROVE Typed'
  BY <1>11 DEF AssignSwap
<1>12. ASSUME NEW t \in Threads, ReleaseNull(t) PROVE Typed'
  BY <1>12 DEF ReleaseNull
<1>13. ASSUME NEW t \in Threads, Release(t) PROVE Typed'
  <2>1. ref[slot[t]] \in Objects
    BY <1>13 DEF Release
  <2>2. (count[ref[slot[t]]] + CountRange - 1) % CountRange \in Nat
    BY <2>1, CountRangePositive
  <2>3. CASE (count[ref[slot[t]]] + CountRange - 1) % CountRange = 0
    BY <1>13, <2>2, <2>3 DEF Release
  <2>4. CASE (count[ref[slot[t]]] + CountRange - 1) % CountRange # 0
    BY <1>13, <2>2, <2>4 DEF Release
  <2>5. QED
    BY <2>3, <2>4
<1>14. ASSUME NEW t \in Threads, DeleteObject(t) PROVE Typed'
  BY <1>14 DEF DeleteObject
<1>15. ASSUME NEW t \in Threads, DeleteCounter(t) PROVE Typed'
  BY <1>15 DEF DeleteCounter
<1>16. CASE UNCHANGED vars
  BY <1>16 DEF vars
<1>17. QED
  BY <1>1, <1>2, <1>3, <1>4, <1>5, <1>6, <1>7, <1>8, <1>9, <1>10, <1>11, <1>12,
     <1>13, <1>14, <1>15, <1>16
  DEF Next, Begin, Continue

\* Every operation keeps the discipline its guards ask of the client.
LEMMA OneWriterStep == Typed /\ OneWriter /\ [Next]_vars => OneWriter'
<1> SUFFICES ASSUME Typed, OneWriter, [Next]_vars PROVE OneWriter'
  OBVIOUS
<1> USE DEF Typed, OneWriter, Slots, Built, Readable, Writable, Enter, Leave, local
<1>1. ASSUME NEW t \in Threads, NEW h \in Handles, NEW o \in Objects, Construct(t, h, o) PROVE OneWriter'
  BY <1>1 DEF Construct
<1>2. ASSUME NEW t \in Threads, NEW h \in Handles, NEW o \in Objects, ConstructThrows(t, h, o) PROVE OneWriter'
  BY <1>2 DEF ConstructThrows
<1>3. ASSUME NEW t \in Threads, NEW h \in Handles, ConstructNull(t, h) PROVE OneWriter'
  BY <1>3 DEF ConstructNull
<1>4. ASSUME NEW t \in Threads, NEW h \in Handles, Destroy(t, h) PROVE OneWriter'
  BY <1>4 DEF Destroy
<1>5. ASSUME NEW t \in Threads, NEW h \in Handles, NEW p \in Handles, CopyConstruct(t, h, p) PROVE OneWriter'
  BY <1>5 DEF CopyConstruct
<1>6. ASSUME NEW t \in Threads, NEW h \in Handles, NEW p \in Handles, MoveConstruct(t, h, p) PROVE OneWriter'
  BY <1>6 DEF MoveConstruct
<1>7. ASSUME NEW t \in Threads, NEW h \in Handles, NEW p \in Handles, AssignCopy(t, h, p) PROVE OneWriter'
  <2>1. CASE ref[p] = Null
    BY <1>7, <2>1 DEF AssignCopy
  <2>2. CASE ref[p] # Null
    BY <1>7, <2>2 DEF AssignCopy
  <2>3. QED
    BY <2>1, <2>2
<1>8. ASSUME NEW t \in Threads, NEW h \in Handles, NEW p \in Handles, AssignMove(t, h, p) PROVE OneWriter'
  BY <1>8 DEF AssignMove
<1>9. ASSUME NEW t \in Threads, NEW h \in Handles, NEW p \in Handles, Swap(t, h, p) PROVE OneWriter'
  BY <1>9 DEF Swap
<1>10. ASSUME NEW t \in Threads, Increment(t) PROVE OneWriter'
  BY <1>10 DEF Increment
<1>11. ASSUME NEW t \in Threads, AssignSwap(t) PROVE OneWriter'
  BY <1>11 DEF AssignSwap
<1>12. ASSUME NEW t \in Threads, ReleaseNull(t) PROVE OneWriter'
  BY <1>12 DEF ReleaseNull
<1>13. ASSUME NEW t \in Threads, Release(t) PROVE OneWriter'
  BY <1>13 DEF Release
<1>14. ASSUME NEW t \in Threads, DeleteObject(t) PROVE OneWriter'
  BY <1>14 DEF DeleteObject
<1>15. ASSUME NEW t \in Threads, DeleteCounter(t) PROVE OneWriter'
  BY <1>15 DEF DeleteCounter
<1>16. CASE UNCHANGED vars
  BY <1>16 DEF vars
<1>17. QED
  BY <1>1, <1>2, <1>3, <1>4, <1>5, <1>6, <1>7, <1>8, <1>9, <1>10, <1>11, <1>12,
     <1>13, <1>14, <1>15, <1>16
  DEF Next, Begin, Continue
----------------------------------------------------------------------------
(* The handles an object has, and its counter.                             *)

Owned == NoUseAfterFree /\ CountExact /\ NoLeak /\ LastHandle

\* The handles that a counter counts are some of finitely many slots.
LEMMA CountedFinite ==
    ASSUME NEW o \in Objects
    PROVE  /\ IsFiniteSet(Counted(o))
           /\ Cardinality(Counted(o)) \in Nat
           /\ Cardinality(Counted(o)) <= Cardinality(Slots)
<1>1. IsFiniteSet(Slots)
  BY FS_Union DEF Slots
<1>2. Counted(o) \subseteq Slots
  BY DEF Counted
<1>3. IsFiniteSet(Counted(o)) /\ Cardinality(Counted(o)) <= Cardinality(Slots)
  BY <1>1, <1>2, FS_Subset
<1>4. QED
  BY <1>3, FS_CardinalityType

\* A set of slots in which one slot takes the place of another has the same size.
LEMMA Replaces ==
    ASSUME NEW A \in SUBSET Slots, NEW x \in A, NEW y \in Slots \ A
    PROVE  Cardinality((A \ {x}) \cup {y}) = Cardinality(A)
<1>1. IsFiniteSet(Slots)
  BY FS_Union DEF Slots
<1>2. IsFiniteSet(A)
  BY <1>1, FS_Subset
<1>3. IsFiniteSet(A \ {x}) /\ Cardinality(A \ {x}) = Cardinality(A) - 1
  BY <1>2, FS_RemoveElement
<1>4. Cardinality((A \ {x}) \cup {y}) = Cardinality(A \ {x}) + 1
  BY <1>3, FS_AddElement
<1>5. Cardinality(A) \in Nat
  BY <1>2, FS_CardinalityType
<1>6. QED
  BY <1>3, <1>4, <1>5

\* Subtracting one from a counter that is not zero does not wrap around.
LEMMA Decrement ==
    ASSUME NEW n \in Nat, n > 0, n < CountRange
    PROVE  (n + CountRange - 1) % CountRange = n - 1
<1>1. CountRange \in Nat /\ CountRange > 0
  BY CountRangePositive
<1>2. QED
  BY <1>1

\* A counter below its largest value is incremented without wrapping around.
LEMMA IncrementFits ==
    ASSUME NEW n \in Nat, n + 1 < CountRange
    PROVE  (n + 1) % CountRange = n + 1
<1>1. CountRange \in Nat /\ CountRange > 0
  BY CountRangePositive
<1>2. QED
  BY <1>1

\* What a release finds: the counter counts the handle it releases, and becomes
\* zero exactly if there is no other handle, counted or not.
LEMMA ReleaseFinds ==
    ASSUME Base, NoUseAfterFree, CountExact, LastHandle, NEW t \in Threads, Release(t)
    PROVE  LET o == ref[slot[t]]
               left == (count[o] + CountRange - 1) % CountRange
           IN  /\ o \in Objects
               /\ slot[t] \in Counted(o)
               /\ left = Cardinality(Counted(o)) - 1
               /\ left = 0 => \A s \in Slots : ref[s] = o => s = slot[t]
               /\ left # 0 => \E s \in Slots : s # slot[t] /\ ref[s] = o
<1> DEFINE o == ref[slot[t]]
<1>1. o \in Objects /\ slot[t] \in Slots /\ pc[t] = "release"
  BY DEF Release, Base, Typed, OneWriter, Built
<1>2. slot[t] \in Counted(o)
  BY <1>1 DEF Counted, Uncounted, Base, OneWriter
<1>3. count[o] = Cardinality(Counted(o))
  BY <1>1 DEF NoUseAfterFree, CountExact
<1>4. /\ Cardinality(Counted(o)) \in Nat
      /\ Cardinality(Counted(o)) < CountRange
      /\ IsFiniteSet(Counted(o))
  BY <1>1, CountedFinite, CountRangePositive
<1>5. Cardinality(Counted(o)) > 0
  BY <1>2, <1>4, FS_EmptySet
<1>6. (count[o] + CountRange - 1) % CountRange = Cardinality(Counted(o)) - 1
  BY <1>3, <1>4, <1>5, Decrement
<1>7. ASSUME Cardinality(Counted(o)) - 1 = 0, NEW s \in Slots, ref[s] = o
      PROVE  s = slot[t]
  <2>1. \A r \in Counted(o) : r = slot[t]
    <3>1. IsFiniteSet(Counted(o) \ {slot[t]}) /\ Cardinality(Counted(o) \ {slot[t]}) = 0
      BY <1>2, <1>4, <1>7, FS_RemoveElement
    <3>2. Counted(o) \ {slot[t]} = {}
      BY <3>1, FS_EmptySet
    <3>3. QED
      BY <3>2
  <2>2. CASE ~Uncounted(s)
    BY <1>7, <2>1, <2>2 DEF Counted
  <2>3. CASE Uncounted(s)
    <3>1. PICK u \in Threads : slot[u] = s /\ pc[u] \in {"increment", "deleteObject", "deleteCounter"}
      BY <2>3 DEF Uncounted
    <3>2. CASE pc[u] = "increment"
      <4>1. from[u] \in Slots /\ ref[from[u]] = o /\ from[u] # slot[t] /\ ~Uncounted(from[u])
        BY <1>7, <3>1, <3>2 DEF Uncounted, Base, Typed, OneWriter, Slots
      <4>2. QED
        BY <2>1, <4>1 DEF Counted
    <3>3. CASE pc[u] \in {"deleteObject", "deleteCounter"}
      BY <1>1, <1>7, <3>1, <3>3 DEF LastHandle
    <3>4. QED
      BY <3>1, <3>2, <3>3
  <2>4. QED
    BY <2>2, <2>3
<1>8. ASSUME Cardinality(Counted(o)) - 1 # 0
      PROVE  \E s \in Slots : s # slot[t] /\ ref[s] = o
  <2>1. Cardinality(Counted(o) \ {slot[t]}) = Cardinality(Counted(o)) - 1
    BY <1>2, <1>4, FS_RemoveElement
  <2>2. Counted(o) \ {slot[t]} # {}
    BY <1>8, <2>1, FS_EmptySet
  <2>3. QED
    BY <2>2 DEF Counted
<1>9. QED
  BY <1>1, <1>2, <1>6, <1>7, <1>8

\* Only a thread with the last handle deletes anything.
LEMMA NoUseAfterFreeStep == Base /\ Base' /\ Owned /\ [Next]_vars => NoUseAfterFree'
<1> SUFFICES ASSUME Base, Base', Owned, [Next]_vars PROVE NoUseAfterFree'
  OBVIOUS
<1> USE DEF Base, Typed, OneWriter, Slots, Built, Readable, Writable, Enter, Leave, local, Owned, NoUseAfterFree, LastHandle
<1>1. ASSUME NEW t \in Threads, NEW h \in Handles, NEW b \in Objects, Construct(t, h, b)
      PROVE  NoUseAfterFree'
  BY <1>1 DEF Construct
<1>2. ASSUME NEW t \in Threads, NEW h \in Handles, NEW b \in Objects, ConstructThrows(t, h, b)
      PROVE  NoUseAfterFree'
  BY <1>2 DEF ConstructThrows
<1>3. ASSUME NEW t \in Threads, NEW h \in Handles, ConstructNull(t, h)
      PROVE  NoUseAfterFree'
  BY <1>3 DEF ConstructNull
<1>4. ASSUME NEW t \in Threads, NEW h \in Handles, Destroy(t, h)
      PROVE  NoUseAfterFree'
  BY <1>4 DEF Destroy
<1>5. ASSUME NEW t \in Threads, NEW h \in Handles, NEW p \in Handles, CopyConstruct(t, h, p)
      PROVE  NoUseAfterFree'
  BY <1>5 DEF CopyConstruct
<1>6. ASSUME NEW t \in Threads, NEW h \in Handles, NEW p \in Handles, MoveConstruct(t, h, p)
      PROVE  NoUseAfterFree'
  BY <1>6 DEF MoveConstruct
<1>7. ASSUME NEW t \in Threads, NEW h \in Handles, NEW p \in Handles, AssignCopy(t, h, p)
      PROVE  NoUseAfterFree'
  BY SMTT(30), <1>7 DEF AssignCopy
<1>8. ASSUME NEW t \in Threads, NEW h \in Handles, NEW p \in Handles, AssignMove(t, h, p)
      PROVE  NoUseAfterFree'
  BY <1>8 DEF AssignMove
<1>9. ASSUME NEW t \in Threads, NEW h \in Handles, NEW p \in Handles, Swap(t, h, p)
      PROVE  NoUseAfterFree'
  BY <1>9 DEF Swap
<1>10. ASSUME NEW t \in Threads, Increment(t)
      PROVE  NoUseAfterFree'
  BY <1>10 DEF Increment
<1>11. ASSUME NEW t \in Threads, AssignSwap(t)
      PROVE  NoUseAfterFree'
  BY <1>11 DEF AssignSwap
<1>12. ASSUME NEW t \in Threads, ReleaseNull(t)
      PROVE  NoUseAfterFree'
  BY <1>12 DEF ReleaseNull
<1>13. ASSUME NEW t \in Threads, Release(t)
      PROVE  NoUseAfterFree'
  BY <1>13 DEF Release
<1>14. ASSUME NEW t \in Threads, DeleteObject(t)
      PROVE  NoUseAfterFree'
  BY <1>14 DEF DeleteObject
<1>15. ASSUME NEW t \in Threads, DeleteCounter(t)
      PROVE  NoUseAfterFree'
  BY <1>15 DEF DeleteCounter
<1>16. CASE UNCHANGED vars
  BY <1>16 DEF vars
<1>17. QED
  BY <1>1, <1>2, <1>3, <1>4, <1>5, <1>6, <1>7, <1>8, <1>9, <1>10, <1>11, <1>12,
     <1>13, <1>14, <1>15, <1>16
  DEF Next, Begin, Continue

\* Nobody can copy the last handle once it has been released.
LEMMA LastHandleStep == Base /\ Base' /\ Owned /\ [Next]_vars => LastHandle'
<1> SUFFICES ASSUME Base, Base', Owned, [Next]_vars PROVE LastHandle'
  OBVIOUS
<1> USE DEF Base, Typed, OneWriter, Slots, Built, Readable, Writable, Enter, Leave, local, Owned, NoUseAfterFree, LastHandle
<1>1. ASSUME NEW t \in Threads, NEW h \in Handles, NEW b \in Objects, Construct(t, h, b)
      PROVE  LastHandle'
  BY <1>1 DEF Construct
<1>2. ASSUME NEW t \in Threads, NEW h \in Handles, NEW b \in Objects, ConstructThrows(t, h, b)
      PROVE  LastHandle'
  BY <1>2 DEF ConstructThrows
<1>3. ASSUME NEW t \in Threads, NEW h \in Handles, ConstructNull(t, h)
      PROVE  LastHandle'
  BY <1>3 DEF ConstructNull
<1>4. ASSUME NEW t \in Threads, NEW h \in Handles, Destroy(t, h)
      PROVE  LastHandle'
  BY <1>4 DEF Destroy
<1>5. ASSUME NEW t \in Threads, NEW h \in Handles, NEW p \in Handles, CopyConstruct(t, h, p)
      PROVE  LastHandle'
  BY <1>5 DEF CopyConstruct
<1>6. ASSUME NEW t \in Threads, NEW h \in Handles, NEW p \in Handles, MoveConstruct(t, h, p)
      PROVE  LastHandle'
  BY <1>6 DEF MoveConstruct
<1>7. ASSUME NEW t \in Threads, NEW h \in Handles, NEW p \in Handles, AssignCopy(t, h, p)
      PROVE  LastHandle'
  BY <1>7 DEF AssignCopy
<1>8. ASSUME NEW t \in Threads, NEW h \in Handles, NEW p \in Handles, AssignMove(t, h, p)
      PROVE  LastHandle'
  BY <1>8 DEF AssignMove
<1>9. ASSUME NEW t \in Threads, NEW h \in Handles, NEW p \in Handles, Swap(t, h, p)
      PROVE  LastHandle'
  BY <1>9 DEF Swap
<1>10. ASSUME NEW t \in Threads, Increment(t)
      PROVE  LastHandle'
  BY <1>10 DEF Increment
<1>11. ASSUME NEW t \in Threads, AssignSwap(t)
      PROVE  LastHandle'
  BY <1>11 DEF AssignSwap
<1>12. ASSUME NEW t \in Threads, ReleaseNull(t)
      PROVE  LastHandle'
  BY <1>12 DEF ReleaseNull
<1>13. ASSUME NEW t \in Threads, Release(t)
      PROVE  LastHandle'
  <2> DEFINE o == ref[slot[t]]
  <2>1. /\ o \in Objects
        /\ (count[o] + CountRange - 1) % CountRange = 0 => \A s \in Slots : ref[s] = o => s = slot[t]
    BY <1>13, ReleaseFinds
  <2>2. CASE (count[o] + CountRange - 1) % CountRange = 0
    BY <1>13, <2>1, <2>2 DEF Release
  <2>3. CASE (count[o] + CountRange - 1) % CountRange # 0
    BY <1>13, <2>3 DEF Release
  <2>4. QED
    BY <2>2, <2>3
<1>14. ASSUME NEW t \in Threads, DeleteObject(t)
      PROVE  LastHandle'
  BY <1>14 DEF DeleteObject
<1>15. ASSUME NEW t \in Threads, DeleteCounter(t)
      PROVE  LastHandle'
  BY <1>15 DEF DeleteCounter
<1>16. CASE UNCHANGED vars
  BY <1>16 DEF vars
<1>17. QED
  BY <1>1, <1>2, <1>3, <1>4, <1>5, <1>6, <1>7, <1>8, <1>9, <1>10, <1>11, <1>12,
     <1>13, <1>14, <1>15, <1>16
  DEF Next, Begin, Continue

\* The last handle goes only after the object and the counter.
LEMMA NoLeakStep == Base /\ Base' /\ Owned /\ [Next]_vars => NoLeak'
<1> SUFFICES ASSUME Base, Base', Owned, [Next]_vars PROVE NoLeak'
  OBVIOUS
<1> USE DEF Base, Typed, OneWriter, Slots, Built, Readable, Writable, Enter, Leave, local, Owned, NoUseAfterFree, LastHandle, NoLeak
<1>1. ASSUME NEW t \in Threads, NEW h \in Handles, NEW b \in Objects, Construct(t, h, b)
      PROVE  NoLeak'
  BY <1>1 DEF Construct
<1>2. ASSUME NEW t \in Threads, NEW h \in Handles, NEW b \in Objects, ConstructThrows(t, h, b)
      PROVE  NoLeak'
  BY <1>2 DEF ConstructThrows
<1>3. ASSUME NEW t \in Threads, NEW h \in Handles, ConstructNull(t, h)
      PROVE  NoLeak'
  BY <1>3 DEF ConstructNull
<1>4. ASSUME NEW t \in Threads, NEW h \in Handles, Destroy(t, h)
      PROVE  NoLeak'
  BY <1>4 DEF Destroy
<1>5. ASSUME NEW t \in Threads, NEW h \in Handles, NEW p \in Handles, CopyConstruct(t, h, p)
      PROVE  NoLeak'
  BY <1>5 DEF CopyConstruct
<1>6. ASSUME NEW t \in Threads, NEW h \in Handles, NEW p \in Handles, MoveConstruct(t, h, p)
      PROVE  NoLeak'
  BY <1>6 DEF MoveConstruct
<1>7. ASSUME NEW t \in Threads, NEW h \in Handles, NEW p \in Handles, AssignCopy(t, h, p)
      PROVE  NoLeak'
  BY <1>7 DEF AssignCopy
<1>8. ASSUME NEW t \in Threads, NEW h \in Handles, NEW p \in Handles, AssignMove(t, h, p)
      PROVE  NoLeak'
  <2> SUFFICES ASSUME NEW o \in Objects, obj'[o] = "alive" \/ counter'[o] = "alive"
               PROVE  \E s \in Slots : ref'[s] = o
    OBVIOUS
  <2>1. PICK s \in Slots : ref[s] = o
    BY <1>8 DEF AssignMove
  <2>2. ref[t] = Absent /\ t \in Slots /\ p \in Slots /\ p # t
    BY <1>8 DEF AssignMove
  <2>3. ref' = [ref EXCEPT ![t] = ref[p], ![p] = Null]
    BY <1>8 DEF AssignMove
  <2>4. CASE s = p
    <3>1. ref'[t] = o
      BY <2>1, <2>2, <2>3, <2>4
    <3>2. QED
      BY <2>2, <3>1
  <2>5. CASE s # p
    <3>1. ref'[s] = o
      BY <2>1, <2>2, <2>3, <2>5
    <3>2. QED
      BY <3>1
  <2>6. QED
    BY <2>4, <2>5
<1>9. ASSUME NEW t \in Threads, NEW h \in Handles, NEW p \in Handles, Swap(t, h, p)
      PROVE  NoLeak'
  BY <1>9 DEF Swap
<1>10. ASSUME NEW t \in Threads, Increment(t)
      PROVE  NoLeak'
  BY <1>10 DEF Increment
<1>11. ASSUME NEW t \in Threads, AssignSwap(t)
      PROVE  NoLeak'
  BY <1>11 DEF AssignSwap
<1>12. ASSUME NEW t \in Threads, ReleaseNull(t)
      PROVE  NoLeak'
  BY <1>12 DEF ReleaseNull
<1>13. ASSUME NEW t \in Threads, Release(t)
      PROVE  NoLeak'
  <2> DEFINE o == ref[slot[t]]
  <2>1. /\ o \in Objects
        /\ (count[o] + CountRange - 1) % CountRange # 0 => \E s \in Slots : s # slot[t] /\ ref[s] = o
    BY <1>13, ReleaseFinds
  <2>2. CASE (count[o] + CountRange - 1) % CountRange = 0
    BY <1>13, <2>1, <2>2 DEF Release
  <2>3. CASE (count[o] + CountRange - 1) % CountRange # 0
    BY <1>13, <2>1, <2>3 DEF Release
  <2>4. QED
    BY <2>2, <2>3
<1>14. ASSUME NEW t \in Threads, DeleteObject(t)
      PROVE  NoLeak'
  BY <1>14 DEF DeleteObject
<1>15. ASSUME NEW t \in Threads, DeleteCounter(t)
      PROVE  NoLeak'
  BY <1>15 DEF DeleteCounter
<1>16. CASE UNCHANGED vars
  BY <1>16 DEF vars
<1>17. QED
  BY <1>1, <1>2, <1>3, <1>4, <1>5, <1>6, <1>7, <1>8, <1>9, <1>10, <1>11, <1>12,
     <1>13, <1>14, <1>15, <1>16
  DEF Next, Begin, Continue

\* Every change of a counter is a change of the set it counts.
LEMMA CountExactStep == Base /\ Base' /\ Owned /\ [Next]_vars => CountExact'
<1> SUFFICES ASSUME Base, Base', Owned, [Next]_vars,
                    NEW o \in Objects, counter'[o] = "alive"
             PROVE  count'[o] = Cardinality(Counted(o)')
  BY DEF CountExact
<1>a. counter[o] = "alive" => count[o] = Cardinality(Counted(o))
  BY DEF Owned, CountExact
<1>b. ASSUME NEW t \in Threads, Release(t)
      PROVE  /\ slot[t] \in Counted(ref[slot[t]])
             /\ (count[ref[slot[t]]] + CountRange - 1) % CountRange = Cardinality(Counted(ref[slot[t]])) - 1
  BY <1>b, ReleaseFinds DEF Owned
<1> USE DEF Base, Typed, OneWriter, Slots, Built, Readable, Writable, Enter, Leave, local, Owned, NoUseAfterFree, LastHandle, Counted, Uncounted
<1>1. ASSUME NEW t \in Threads, NEW h \in Handles, NEW b \in Objects, Construct(t, h, b)
      PROVE  count'[o] = Cardinality(Counted(o)')
  <2>1. CASE o = b
    <3>1. \A s \in Slots : ref[s] # o
      BY <1>1, <2>1 DEF Construct
    <3>2. Counted(o)' = {h}
      BY <1>1, <2>1, <3>1 DEF Construct
    <3>3. count'[o] = 1
      BY <1>1, <2>1 DEF Construct
    <3>4. Cardinality({h}) = 1
      BY FS_Singleton
    <3> HIDE DEF Counted
    <3>5. QED
      BY <3>2, <3>3, <3>4
  <2>2. CASE o # b
    <3>1. Counted(o)' = Counted(o)
      BY <1>1, <2>2 DEF Construct
    <3>2. counter[o] = "alive" /\ count'[o] = count[o]
      BY <1>1, <2>2 DEF Construct
    <3> HIDE DEF Counted
    <3>3. QED
      BY <1>a, <3>1, <3>2
  <2> HIDE DEF Counted
  <2>3. QED
    BY <1>a, <2>1, <2>2
<1>2. ASSUME NEW t \in Threads, NEW h \in Handles, NEW b \in Objects, ConstructThrows(t, h, b)
      PROVE  count'[o] = Cardinality(Counted(o)')
  <2>1. Counted(o)' = Counted(o)
    BY <1>2 DEF ConstructThrows
  <2>2. counter[o] = "alive" /\ count'[o] = count[o]
    BY <1>2 DEF ConstructThrows
  <2> HIDE DEF Counted
  <2>3. QED
    BY <1>a, <2>1, <2>2
<1>3. ASSUME NEW t \in Threads, NEW h \in Handles, ConstructNull(t, h)
      PROVE  count'[o] = Cardinality(Counted(o)')
  <2>1. Counted(o)' = Counted(o)
    BY <1>3 DEF ConstructNull
  <2>2. counter[o] = "alive" /\ count'[o] = count[o]
    BY <1>3 DEF ConstructNull
  <2> HIDE DEF Counted
  <2>3. QED
    BY <1>a, <2>1, <2>2
<1>4. ASSUME NEW t \in Threads, NEW h \in Handles, Destroy(t, h)
      PROVE  count'[o] = Cardinality(Counted(o)')
  <2>1. Counted(o)' = Counted(o)
    BY <1>4 DEF Destroy
  <2>2. counter[o] = "alive" /\ count'[o] = count[o]
    BY <1>4 DEF Destroy
  <2> HIDE DEF Counted
  <2>3. QED
    BY <1>a, <2>1, <2>2
<1>5. ASSUME NEW t \in Threads, NEW h \in Handles, NEW p \in Handles, CopyConstruct(t, h, p)
      PROVE  count'[o] = Cardinality(Counted(o)')
  <2>1. Counted(o)' = Counted(o)
    <3>1. CASE ref[p] = Null
      BY <1>5, <3>1 DEF CopyConstruct
    <3>2. CASE ref[p] # Null
      BY <1>5, <3>2 DEF CopyConstruct
    <3> HIDE DEF Counted
    <3>3. QED
      BY <1>a, <3>1, <3>2
  <2>2. counter[o] = "alive" /\ count'[o] = count[o]
    BY <1>5 DEF CopyConstruct
  <2> HIDE DEF Counted
  <2>3. QED
    BY <1>a, <2>1, <2>2
<1>6. ASSUME NEW t \in Threads, NEW h \in Handles, NEW p \in Handles, MoveConstruct(t, h, p)
      PROVE  count'[o] = Cardinality(Counted(o)')
  <2>1. counter[o] = "alive" /\ count'[o] = count[o]
    BY <1>6 DEF MoveConstruct
  <2>2. CASE ref[p] = o
    <3>1. p \in Counted(o) /\ h \in Slots \ Counted(o)
      BY <1>6, <2>2 DEF MoveConstruct
    <3>2. Counted(o)' = (Counted(o) \ {p}) \cup {h}
      BY <1>6, <2>2 DEF MoveConstruct
    <3>3. Counted(o) \in SUBSET Slots
      BY DEF Counted
    <3> HIDE DEF Counted
    <3>4. QED
      BY <1>a, <2>1, <3>1, <3>2, <3>3, Replaces
  <2>3. CASE ref[p] # o
    <3>1. Counted(o)' = Counted(o)
      BY <1>6, <2>3 DEF MoveConstruct
    <3> HIDE DEF Counted
    <3>2. QED
      BY <1>a, <2>1, <3>1
  <2>4. QED
    BY <2>2, <2>3
<1>7. ASSUME NEW t \in Threads, NEW h \in Handles, NEW p \in Handles, AssignCopy(t, h, p)
      PROVE  count'[o] = Cardinality(Counted(o)')
  <2>1. Counted(o)' = Counted(o)
    <3>1. CASE ref[p] = Null
      BY <1>7, <3>1 DEF AssignCopy
    <3>2. CASE ref[p] # Null
      BY <1>7, <3>2 DEF AssignCopy
    <3> HIDE DEF Counted
    <3>3. QED
      BY <1>a, <3>1, <3>2
  <2>2. counter[o] = "alive" /\ count'[o] = count[o]
    BY <1>7 DEF AssignCopy
  <2> HIDE DEF Counted
  <2>3. QED
    BY <1>a, <2>1, <2>2
<1>8. ASSUME NEW t \in Threads, NEW h \in Handles, NEW p \in Handles, AssignMove(t, h, p)
      PROVE  count'[o] = Cardinality(Counted(o)')
  <2>1. counter[o] = "alive" /\ count'[o] = count[o]
    BY <1>8 DEF AssignMove
  <2>2. CASE ref[p] = o
    <3>1. p \in Counted(o) /\ t \in Slots \ Counted(o)
      BY <1>8, <2>2 DEF AssignMove
    <3>2. Counted(o)' = (Counted(o) \ {p}) \cup {t}
      BY <1>8, <2>2 DEF AssignMove
    <3>3. Counted(o) \in SUBSET Slots
      BY DEF Counted
    <3> HIDE DEF Counted
    <3>4. QED
      BY <1>a, <2>1, <3>1, <3>2, <3>3, Replaces
  <2>3. CASE ref[p] # o
    <3>1. Counted(o)' = Counted(o)
      BY <1>8, <2>3 DEF AssignMove
    <3> HIDE DEF Counted
    <3>2. QED
      BY <1>a, <2>1, <3>1
  <2>4. QED
    BY <2>2, <2>3
<1>9. ASSUME NEW t \in Threads, NEW h \in Handles, NEW p \in Handles, Swap(t, h, p)
      PROVE  count'[o] = Cardinality(Counted(o)')
  <2>1. counter[o] = "alive" /\ count'[o] = count[o]
    BY <1>9 DEF Swap
  <2>2. Counted(o) \in SUBSET Slots
    BY DEF Counted
  <2>3. CASE ref[h] = o /\ ref[p] # o
    <3>1. h \in Counted(o) /\ p \in Slots \ Counted(o)
      BY <1>9, <2>3 DEF Swap
    <3>2. Counted(o)' = (Counted(o) \ {h}) \cup {p}
      BY <1>9, <2>3 DEF Swap
    <3> HIDE DEF Counted
    <3>3. QED
      BY <1>a, <2>1, <2>2, <3>1, <3>2, Replaces
  <2>4. CASE ref[p] = o /\ ref[h] # o
    <3>1. p \in Counted(o) /\ h \in Slots \ Counted(o)
      BY <1>9, <2>4 DEF Swap
    <3>2. Counted(o)' = (Counted(o) \ {p}) \cup {h}
      BY <1>9, <2>4 DEF Swap
    <3> HIDE DEF Counted
    <3>3. QED
      BY <1>a, <2>1, <2>2, <3>1, <3>2, Replaces
  <2>5. CASE ref[h] = o <=> ref[p] = o
    <3>1. Counted(o)' = Counted(o)
      BY <1>9, <2>5 DEF Swap
    <3> HIDE DEF Counted
    <3>2. QED
      BY <1>a, <2>1, <3>1
  <2>6. QED
    BY <2>3, <2>4, <2>5
<1>10. ASSUME NEW t \in Threads, Increment(t)
      PROVE  count'[o] = Cardinality(Counted(o)')
  <2>1. counter[o] = "alive"
    BY <1>10 DEF Increment
  <2>2. CASE ref[slot[t]] = o
    <3>1. slot[t] \in Slots \ Counted(o)
      BY <1>10 DEF Increment
    <3>2. Counted(o)' = Counted(o) \cup {slot[t]}
      <4>1. CASE target[t] = Null
        BY <1>10, <2>2, <4>1 DEF Increment
      <4>2. CASE target[t] # Null
        BY <1>10, <2>2, <4>2 DEF Increment
      <4>3. QED
        BY <4>1, <4>2
    <3>3. \A S : S \subseteq Slots => IsFiniteSet(S) /\ Cardinality(S) <= Cardinality(Slots)
      BY FS_Union, FS_Subset, SlotsAssumption DEF Slots
    <3>4. Counted(o) \subseteq Slots /\ slot[t] \in Slots
      BY <3>1 DEF Counted
    <3> HIDE DEF Counted, Slots
    <3>5. /\ Cardinality(Counted(o)) \in Nat
          /\ Cardinality(Counted(o) \cup {slot[t]}) = Cardinality(Counted(o)) + 1
          /\ Cardinality(Counted(o) \cup {slot[t]}) <= Cardinality(Slots)
      BY <3>1, <3>3, <3>4, FS_AddElement, FS_CardinalityType
    <3>6. count'[o] = (count[o] + 1) % CountRange
      BY <1>10, <2>2 DEF Increment
    <3>7. count[o] = Cardinality(Counted(o)) /\ count[o] + 1 < CountRange
      BY <1>a, <2>1, <3>5, RangeAssumption, CountRangePositive
    <3>8. (count[o] + 1) % CountRange = count[o] + 1
      BY <3>5, <3>7, IncrementFits
    <3>9. count'[o] = Cardinality(Counted(o) \cup {slot[t]})
      BY <3>5, <3>6, <3>7, <3>8
    <3>10. QED
      BY <3>2, <3>9
  <2>3. CASE ref[slot[t]] # o
    <3>1. Counted(o)' = Counted(o)
      <4>1. CASE target[t] = Null
        BY <1>10, <2>3, <4>1 DEF Increment
      <4>2. CASE target[t] # Null
        BY <1>10, <2>3, <4>2 DEF Increment
      <4>3. QED
        BY <4>1, <4>2
    <3>2. count'[o] = count[o]
      BY <1>10, <2>3 DEF Increment
    <3> HIDE DEF Counted
    <3>3. QED
      BY <1>a, <2>1, <3>1, <3>2
  <2>4. QED
    BY <2>2, <2>3
<1>11. ASSUME NEW t \in Threads, AssignSwap(t)
      PROVE  count'[o] = Cardinality(Counted(o)')
  <2>1. counter[o] = "alive" /\ count'[o] = count[o]
    BY <1>11 DEF AssignSwap
  <2>2. Counted(o) \in SUBSET Slots
    BY DEF Counted
  <2>3. CASE ref[t] = o /\ ref[target[t]] # o
    <3>1. t \in Counted(o) /\ target[t] \in Slots \ Counted(o)
      BY <1>11, <2>3 DEF AssignSwap
    <3>2. Counted(o)' = (Counted(o) \ {t}) \cup {target[t]}
      BY <1>11, <2>3 DEF AssignSwap
    <3> HIDE DEF Counted
    <3>3. QED
      BY <1>a, <2>1, <2>2, <3>1, <3>2, Replaces
  <2>4. CASE ref[target[t]] = o /\ ref[t] # o
    <3>1. target[t] \in Counted(o) /\ t \in Slots \ Counted(o)
      BY <1>11, <2>4 DEF AssignSwap
    <3>2. Counted(o)' = (Counted(o) \ {target[t]}) \cup {t}
      BY <1>11, <2>4 DEF AssignSwap
    <3> HIDE DEF Counted
    <3>3. QED
      BY <1>a, <2>1, <2>2, <3>1, <3>2, Replaces
  <2>5. CASE ref[t] = o <=> ref[target[t]] = o
    <3>1. Counted(o)' = Counted(o)
      BY <1>11, <2>5 DEF AssignSwap
    <3> HIDE DEF Counted
    <3>2. QED
      BY <1>a, <2>1, <3>1
  <2>6. QED
    BY <2>3, <2>4, <2>5
<1>12. ASSUME NEW t \in Threads, ReleaseNull(t)
      PROVE  count'[o] = Cardinality(Counted(o)')
  <2>1. Counted(o)' = Counted(o)
    BY <1>12 DEF ReleaseNull
  <2>2. counter[o] = "alive" /\ count'[o] = count[o]
    BY <1>12 DEF ReleaseNull
  <2> HIDE DEF Counted
  <2>3. QED
    BY <1>a, <2>1, <2>2
<1>13. ASSUME NEW t \in Threads, Release(t)
      PROVE  count'[o] = Cardinality(Counted(o)')
  <2> DEFINE left == (count[ref[slot[t]]] + CountRange - 1) % CountRange
  <2>1. counter[o] = "alive"
    BY <1>13 DEF Release
  <2>2. CASE ref[slot[t]] = o
    <3>1. slot[t] \in Counted(o) /\ left = Cardinality(Counted(o)) - 1
      <4> HIDE DEF Counted
      <4>1. QED
        BY <1>13, <1>b, <2>2
    <3>2. Counted(o)' = Counted(o) \ {slot[t]}
      <4>1. CASE left = 0
        BY <1>13, <2>2, <4>1 DEF Release
      <4>2. CASE left # 0
        BY <1>13, <2>2, <4>2 DEF Release
      <4>3. QED
        BY <4>1, <4>2
    <3> HIDE DEF Counted
    <3>3. Cardinality(Counted(o)') = Cardinality(Counted(o)) - 1
      <4>1. Cardinality(Counted(o) \ {slot[t]}) = Cardinality(Counted(o)) - 1
        BY ZenonT(30), <3>1, CountedFinite, FS_RemoveElement
      <4>2. QED
        BY <3>2, <4>1
    <3>4. count'[o] = left
      BY <1>13, <2>2 DEF Release
    <3>5. QED
      BY <3>1, <3>3, <3>4
  <2>3. CASE ref[slot[t]] # o
    <3>1. Counted(o)' = Counted(o)
      <4>1. CASE left = 0
        BY <1>13, <2>3, <4>1 DEF Release
      <4>2. CASE left # 0
        BY SMTT(30), <1>13, <2>3, <4>2 DEF Release
      <4>3. QED
        BY <4>1, <4>2
    <3>2. count'[o] = count[o]
      BY <1>13, <2>3 DEF Release
    <3> HIDE DEF Counted
    <3>3. QED
      BY <1>a, <2>1, <3>1, <3>2
  <2>4. QED
    BY <2>2, <2>3
<1>14. ASSUME NEW t \in Threads, DeleteObject(t)
      PROVE  count'[o] = Cardinality(Counted(o)')
  <2>1. Counted(o)' = Counted(o)
    BY <1>14 DEF DeleteObject
  <2>2. counter[o] = "alive" /\ count'[o] = count[o]
    BY <1>14 DEF DeleteObject
  <2> HIDE DEF Counted
  <2>3. QED
    BY <1>a, <2>1, <2>2
<1>15. ASSUME NEW t \in Threads, DeleteCounter(t)
      PROVE  count'[o] = Cardinality(Counted(o)')
  <2>1. Counted(o)' = Counted(o)
    BY <1>15 DEF DeleteCounter
  <2>2. counter[o] = "alive" /\ count'[o] = count[o]
    BY <1>15 DEF DeleteCounter
  <2> HIDE DEF Counted
  <2>3. QED
    BY <1>a, <2>1, <2>2
<1>16. CASE UNCHANGED vars
  <2>1. Counted(o)' = Counted(o)
    BY <1>16 DEF vars
  <2> HIDE DEF Counted
  <2>2. QED
    BY <1>a, <1>16, <2>1 DEF vars
<1>17. QED
  BY <1>1, <1>2, <1>3, <1>4, <1>5, <1>6, <1>7, <1>8, <1>9, <1>10, <1>11, <1>12,
     <1>13, <1>14, <1>15, <1>16
  DEF Next, Begin, Continue

----------------------------------------------------------------------------
(* The theorems.                                                           *)

\* A counter that is exact is in range; the other counters do not move.
LEMMA CountsInRange ==
    TypeOK /\ Base /\ Base' /\ Owned /\ CountExact' /\ [Next]_vars => TypeOK'
<1> SUFFICES ASSUME TypeOK, Base, Base', Owned, CountExact', [Next]_vars
             PROVE  TypeOK'
  OBVIOUS
<1>1. \A o \in Objects : counter'[o] = "alive" => count'[o] \in 0 .. Cardinality(Slots)
  <2> SUFFICES ASSUME NEW o \in Objects, counter'[o] = "alive"
               PROVE  count'[o] \in 0 .. Cardinality(Slots)
    OBVIOUS
  <2>1. count'[o] = Cardinality(Counted(o)')
    BY DEF CountExact
  <2>2. IsFiniteSet(Slots)
    BY FS_Union DEF Slots
  <2>3. Counted(o)' \subseteq Slots
    BY DEF Counted
  <2>4. Cardinality(Counted(o)') <= Cardinality(Slots)
    BY <2>2, <2>3, FS_Subset
  <2>5. count'[o] \in Nat
    BY DEF Base, Typed
  <2>6. QED
    BY <2>1, <2>4, <2>5, CountRangePositive
<1>2. \A o \in Objects : counter'[o] # "alive" => count'[o] = count[o]
  BY DEF Next, Begin, Continue, Base, Typed, OneWriter, Slots, Built, Enter, Leave, local, vars,
         Owned, NoUseAfterFree,
         Construct, ConstructThrows, ConstructNull, CopyConstruct, MoveConstruct, Increment,
         AssignCopy, AssignMove, AssignSwap, Swap, Destroy, ReleaseNull, Release,
         DeleteObject, DeleteCounter
<1>3. count' \in [Objects -> 0 .. Cardinality(Slots)]
  BY <1>1, <1>2 DEF TypeOK, Base, Typed
<1>4. QED
  BY <1>3 DEF TypeOK, Base, Typed

\* The inductive invariant holds before the first handle is made.
LEMMA InvInit == Init => IInv
<1> SUFFICES ASSUME Init PROVE IInv
  OBVIOUS
<1>1. Base
  BY BaseInit
<1>2. TypeOK
  <2>1. count \in [Objects -> 0 .. Cardinality(Slots)]
    BY CountRangePositive DEF Init
  <2>2. QED
    BY <1>1, <2>1 DEF TypeOK, Base, Typed
<1>3. NoUseAfterFree /\ NoLeak /\ LastHandle
  BY DEF Init, NoUseAfterFree, NoLeak, LastHandle
<1>4. CountExact
  BY DEF Init, CountExact
<1>5. QED
  BY <1>1, <1>2, <1>3, <1>4 DEF IInv, Base

\* Every step of every operation keeps the inductive invariant.
LEMMA InvStep == IInv /\ [Next]_vars => IInv'
<1> SUFFICES ASSUME IInv, [Next]_vars PROVE IInv'
  OBVIOUS
<1>1. TypeOK /\ Base /\ Owned
  <2>1. count \in [Objects -> Nat]
    BY CountRangePositive DEF IInv, TypeOK
  <2>2. QED
    BY <2>1 DEF IInv, TypeOK, Base, Typed, Owned
<1>2. Base'
  BY <1>1, TypedStep, OneWriterStep DEF Base
<1>3. NoUseAfterFree' /\ LastHandle' /\ NoLeak' /\ CountExact'
  BY <1>1, <1>2, NoUseAfterFreeStep, LastHandleStep, NoLeakStep, CountExactStep
<1>4. TypeOK'
  BY <1>1, <1>2, <1>3, CountsInRange
<1>5. QED
  BY <1>2, <1>3, <1>4 DEF IInv, Base

\* The inductive invariant holds for any number of threads and handles: the
\* counts of mySharedPtr.h lines 14-17 and 49-58 are exact, whatever overlaps.
THEOREM Inductive == Spec => []IInv
BY InvInit, InvStep, PTL DEF Spec

\* The variables keep their types, and no counter ever wraps around.
THEOREM TypeCorrect == Spec => []TypeOK
<1>1. IInv => TypeOK
  BY DEF IInv
<1>2. QED
  BY <1>1, Inductive, PTL

\* The counter is the number of handles that have been counted (line 15) and
\* not yet released (line 51).
THEOREM CountIsExact == Spec => []CountExact
<1>1. IInv => CountExact
  BY DEF IInv
<1>2. QED
  BY <1>1, Inductive, PTL

\* release() deletes nothing that a handle still refers to (line 52).
THEOREM NothingUsedAfterFree == Spec => []NoUseAfterFree
<1>1. IInv => NoUseAfterFree
  BY DEF IInv
<1>2. QED
  BY <1>1, Inductive, PTL

----------------------------------------------------------------------------
(* mySharedPtr implements the abstract object lifetime.                     *)

\* Both specifications start without handles and without objects.
LEMMA LifetimeInit == Init => Lifetime!Init
BY DEF Init, Lifetime!Init, Owning

\* Every step is a step of the abstract lifetime, or leaves it alone: increments,
\* the start of a release and the deletion of a counter are invisible to it.
LEMMA LifetimeStep == IInv /\ Base /\ Base' /\ [Next]_vars => [Lifetime!Next]_(Lifetime!lifetimeVars)
<1> SUFFICES ASSUME IInv, Base, Base', [Next]_vars PROVE [Lifetime!Next]_(Lifetime!lifetimeVars)
  OBVIOUS
<1> USE DEF Base, Typed, OneWriter, Slots, Built, Readable, Writable, Enter, Leave, local,
            Lifetime!lifetimeVars
<1>1. ASSUME NEW t \in Threads, NEW h \in Handles, NEW o \in Objects, Construct(t, h, o)
      PROVE  Lifetime!Make(h, o)
  <2>1. \A s \in Slots : Gone(s)' <=> Gone(s)
    BY <1>1 DEF Construct, Gone
  <2>2. ref' = [ref EXCEPT ![h] = o]
    BY <1>1 DEF Construct
  <2>3. ~Gone(h) /\ ref[h] = Absent
    BY <1>1 DEF Construct, Gone
  <2>4. Owning' = [Owning EXCEPT ![h] = o]
    <3> HIDE DEF OneWriter, Readable, Writable, Enter, Leave
    <3>1. \A s \in Slots : Owning'[s] = IF s = h THEN o ELSE Owning[s]
      BY <2>1, <2>2, <2>3 DEF Owning
    <3>2. Owning' = [s \in Slots |-> Owning'[s]] /\ Owning = [s \in Slots |-> Owning[s]]
      BY DEF Owning
    <3>3. QED
      BY <3>1, <3>2
  <2>5. QED
    BY <1>1, <2>3, <2>4 DEF Construct, Owning, Lifetime!Make
<1>2. ASSUME NEW t \in Threads, NEW h \in Handles, NEW o \in Objects, ConstructThrows(t, h, o)
      PROVE  Lifetime!Leak(o)
  BY <1>2 DEF ConstructThrows, Lifetime!Leak, Owning, Gone
<1>3. ASSUME NEW t \in Threads, NEW h \in Handles, ConstructNull(t, h)
      PROVE  Lifetime!Make(h, Null)
  <2>1. \A s \in Slots : Gone(s)' <=> Gone(s)
    BY <1>3 DEF ConstructNull, Gone
  <2>2. ref' = [ref EXCEPT ![h] = Null]
    BY <1>3 DEF ConstructNull
  <2>3. ~Gone(h) /\ ref[h] = Absent
    BY <1>3 DEF ConstructNull, Gone
  <2>4. Owning' = [Owning EXCEPT ![h] = Null]
    <3> HIDE DEF OneWriter, Readable, Writable, Enter, Leave
    <3>1. \A s \in Slots : Owning'[s] = IF s = h THEN Null ELSE Owning[s]
      BY <2>1, <2>2, <2>3 DEF Owning
    <3>2. Owning' = [s \in Slots |-> Owning'[s]] /\ Owning = [s \in Slots |-> Owning[s]]
      BY DEF Owning
    <3>3. QED
      BY <3>1, <3>2
  <2>5. QED
    BY <1>3, <2>3, <2>4 DEF ConstructNull, Owning, Lifetime!Make
<1>4. ASSUME NEW t \in Threads, NEW h \in Handles, Destroy(t, h)
      PROVE  UNCHANGED Lifetime!lifetimeVars
  <2>1. \A s \in Slots : Gone(s)' <=> Gone(s)
    BY <1>4 DEF Destroy, Gone
  <2>2. ref' = ref
    BY <1>4 DEF Destroy
  <2>3. Owning' = Owning
    BY <2>1, <2>2 DEF Owning
  <2>4. QED
    BY <1>4, <2>3 DEF Destroy, Owning
<1>5. ASSUME NEW t \in Threads, NEW h \in Handles, NEW p \in Handles, CopyConstruct(t, h, p)
      PROVE  Lifetime!Copy(h, p)
  <2>1. \A s \in Slots : Gone(s)' <=> Gone(s)
    <3>1. CASE ref[p] = Null
      BY <1>5, <3>1 DEF CopyConstruct, Gone
    <3>2. CASE ref[p] # Null
      BY <1>5, <3>2 DEF CopyConstruct, Gone
    <3>3. QED
      BY <3>1, <3>2
  <2>2. ref' = [ref EXCEPT ![h] = ref[p]]
    <3>1. CASE ref[p] = Null
      BY <1>5, <3>1 DEF CopyConstruct
    <3>2. CASE ref[p] # Null
      BY <1>5, <3>2 DEF CopyConstruct
    <3>3. QED
      BY <3>1, <3>2
  <2>3. /\ ~Gone(h) /\ ref[h] = Absent
        /\ ~Gone(p) /\ ref[p] # Absent
    BY <1>5 DEF CopyConstruct, Gone
  <2>4. Owning' = [Owning EXCEPT ![h] = Owning[p]]
    <3> HIDE DEF OneWriter, Readable, Writable, Enter, Leave
    <3>1. \A s \in Slots : Owning'[s] = IF s = h THEN Owning[p] ELSE Owning[s]
      BY <2>1, <2>2, <2>3 DEF Owning
    <3>2. Owning' = [s \in Slots |-> Owning'[s]] /\ Owning = [s \in Slots |-> Owning[s]]
      BY DEF Owning
    <3>3. QED
      BY <3>1, <3>2
  <2>5. QED
    BY <1>5, <2>3, <2>4 DEF CopyConstruct, Owning, Lifetime!Copy
<1>6. ASSUME NEW t \in Threads, NEW h \in Handles, NEW p \in Handles, MoveConstruct(t, h, p)
      PROVE  Lifetime!Move(h, p)
  <2>1. \A s \in Slots : Gone(s)' <=> Gone(s)
    BY <1>6 DEF MoveConstruct, Gone
  <2>2. ref' = [ref EXCEPT ![h] = ref[p], ![p] = Null]
    BY <1>6 DEF MoveConstruct
  <2>3. /\ ~Gone(h) /\ ref[h] = Absent
        /\ ~Gone(p) /\ ref[p] # Absent
    BY <1>6 DEF MoveConstruct, Gone
  <2>4. Owning' = [Owning EXCEPT ![h] = Owning[p], ![p] = Null]
    <3> HIDE DEF OneWriter, Readable, Writable, Enter, Leave
    <3>1. \A s \in Slots : Owning'[s] = IF s = p THEN Null ELSE IF s = h THEN Owning[p] ELSE Owning[s]
      BY <2>1, <2>2, <2>3 DEF Owning
    <3>2. Owning' = [s \in Slots |-> Owning'[s]] /\ Owning = [s \in Slots |-> Owning[s]]
      BY DEF Owning
    <3>3. QED
      BY <3>1, <3>2
  <2>5. QED
    BY <1>6, <2>3, <2>4 DEF MoveConstruct, Owning, Lifetime!Move
<1>7. ASSUME NEW t \in Threads, NEW h \in Handles, NEW p \in Handles, AssignCopy(t, h, p)
      PROVE  Lifetime!Copy(t, p)
  <2>1. \A s \in Slots : Gone(s)' <=> Gone(s)
    <3>1. CASE ref[p] = Null
      BY <1>7, <3>1 DEF AssignCopy, Gone
    <3>2. CASE ref[p] # Null
      BY <1>7, <3>2 DEF AssignCopy, Gone
    <3>3. QED
      BY <3>1, <3>2
  <2>2. ref' = [ref EXCEPT ![t] = ref[p]]
    <3>1. CASE ref[p] = Null
      BY <1>7, <3>1 DEF AssignCopy
    <3>2. CASE ref[p] # Null
      BY <1>7, <3>2 DEF AssignCopy
    <3>3. QED
      BY <3>1, <3>2
  <2>3. /\ ~Gone(t) /\ ref[t] = Absent
        /\ ~Gone(p) /\ ref[p] # Absent
    BY <1>7 DEF AssignCopy, Gone
  <2>4. Owning' = [Owning EXCEPT ![t] = Owning[p]]
    <3> HIDE DEF OneWriter, Readable, Writable, Enter, Leave
    <3>1. \A s \in Slots : Owning'[s] = IF s = t THEN Owning[p] ELSE Owning[s]
      BY <2>1, <2>2, <2>3 DEF Owning
    <3>2. Owning' = [s \in Slots |-> Owning'[s]] /\ Owning = [s \in Slots |-> Owning[s]]
      BY DEF Owning
    <3>3. QED
      BY <3>1, <3>2
  <2>5. QED
    BY <1>7, <2>3, <2>4 DEF AssignCopy, Owning, Lifetime!Copy
<1>8. ASSUME NEW t \in Threads, NEW h \in Handles, NEW p \in Handles, AssignMove(t, h, p)
      PROVE  Lifetime!Move(t, p)
  <2>1. \A s \in Slots : Gone(s)' <=> Gone(s)
    BY <1>8 DEF AssignMove, Gone
  <2>2. ref' = [ref EXCEPT ![t] = ref[p], ![p] = Null]
    BY <1>8 DEF AssignMove
  <2>3. /\ ~Gone(t) /\ ref[t] = Absent
        /\ ~Gone(p) /\ ref[p] # Absent
    BY <1>8 DEF AssignMove, Gone
  <2>4. Owning' = [Owning EXCEPT ![t] = Owning[p], ![p] = Null]
    <3> HIDE DEF OneWriter, Readable, Writable, Enter, Leave
    <3>1. \A s \in Slots : Owning'[s] = IF s = p THEN Null ELSE IF s = t THEN Owning[p] ELSE Owning[s]
      BY <2>1, <2>2, <2>3 DEF Owning
    <3>2. Owning' = [s \in Slots |-> Owning'[s]] /\ Owning = [s \in Slots |-> Owning[s]]
      BY DEF Owning
    <3>3. QED
      BY <3>1, <3>2
  <2>5. QED
    BY <1>8, <2>3, <2>4 DEF AssignMove, Owning, Lifetime!Move
<1>9. ASSUME NEW t \in Threads, NEW h \in Handles, NEW p \in Handles, Swap(t, h, p)
      PROVE  Lifetime!Exchange(h, p)
  <2>1. \A s \in Slots : Gone(s)' <=> Gone(s)
    BY <1>9 DEF Swap, Gone
  <2>2. ref' = [ref EXCEPT ![h] = ref[p], ![p] = ref[h]]
    BY <1>9 DEF Swap
  <2>3. /\ ~Gone(h) /\ ref[h] # Absent
        /\ ~Gone(p) /\ ref[p] # Absent
    BY <1>9 DEF Swap, Gone
  <2>4. Owning' = [Owning EXCEPT ![h] = Owning[p], ![p] = Owning[h]]
    <3> HIDE DEF OneWriter, Readable, Writable, Enter, Leave
    <3>1. \A s \in Slots : Owning'[s] = IF s = p THEN Owning[h] ELSE IF s = h THEN Owning[p] ELSE Owning[s]
      BY <2>1, <2>2, <2>3 DEF Owning
    <3>2. Owning' = [s \in Slots |-> Owning'[s]] /\ Owning = [s \in Slots |-> Owning[s]]
      BY DEF Owning
    <3>3. QED
      BY <3>1, <3>2
  <2>5. QED
    BY <1>9, <2>3, <2>4 DEF Swap, Owning, Lifetime!Exchange
<1>10. ASSUME NEW t \in Threads, Increment(t)
      PROVE  UNCHANGED Lifetime!lifetimeVars
  <2>1. \A s \in Slots : Gone(s)' <=> Gone(s)
    <3>1. CASE target[t] = Null
      BY <1>10, <3>1 DEF Increment, Gone
    <3>2. CASE target[t] # Null
      BY <1>10, <3>2 DEF Increment, Gone
    <3>3. QED
      BY <3>1, <3>2
  <2>2. ref' = ref
    <3>1. CASE target[t] = Null
      BY <1>10, <3>1 DEF Increment
    <3>2. CASE target[t] # Null
      BY <1>10, <3>2 DEF Increment
    <3>3. QED
      BY <3>1, <3>2
  <2>3. Owning' = Owning
    BY <2>1, <2>2 DEF Owning
  <2>4. QED
    BY <1>10, <2>3 DEF Increment, Owning
<1>11. ASSUME NEW t \in Threads, AssignSwap(t)
      PROVE  Lifetime!Exchange(target[t], t)
  <2>1. \A s \in Slots : Gone(s)' <=> Gone(s)
    BY <1>11 DEF AssignSwap, Gone
  <2>2. ref' = [ref EXCEPT ![target[t]] = ref[t], ![t] = ref[target[t]]]
    BY <1>11 DEF AssignSwap
  <2>3. /\ target[t] \in Slots /\ ~Gone(target[t]) /\ ref[target[t]] # Absent
        /\ ~Gone(t) /\ ref[t] # Absent
    BY <1>11 DEF AssignSwap, Gone
  <2>4. Owning' = [Owning EXCEPT ![target[t]] = Owning[t], ![t] = Owning[target[t]]]
    <3> HIDE DEF OneWriter, Readable, Writable, Enter, Leave
    <3>1. \A s \in Slots : Owning'[s] = IF s = t THEN Owning[target[t]] ELSE IF s = target[t] THEN Owning[t] ELSE Owning[s]
      BY <2>1, <2>2, <2>3 DEF Owning
    <3>2. Owning' = [s \in Slots |-> Owning'[s]] /\ Owning = [s \in Slots |-> Owning[s]]
      BY DEF Owning
    <3>3. QED
      BY <3>1, <3>2
  <2>5. QED
    BY <1>11, <2>3, <2>4 DEF AssignSwap, Owning, Lifetime!Exchange
<1>12. ASSUME NEW t \in Threads, ReleaseNull(t)
      PROVE  Lifetime!Drop(slot[t])
  <2>1. \A s \in Slots : Gone(s)' <=> Gone(s)
    BY <1>12 DEF ReleaseNull, Gone
  <2>2. ref' = [ref EXCEPT ![slot[t]] = Absent]
    BY <1>12 DEF ReleaseNull
  <2>3. slot[t] \in Slots /\ ~Gone(slot[t]) /\ ref[slot[t]] # Absent
    BY <1>12 DEF ReleaseNull, Gone
  <2>4. Owning' = [Owning EXCEPT ![slot[t]] = Absent]
    BY <2>1, <2>2, <2>3 DEF Owning
  <2>5. QED
    BY <1>12, <2>3, <2>4 DEF ReleaseNull, Owning, Lifetime!Drop
<1>13. ASSUME NEW t \in Threads, Release(t)
      PROVE  Lifetime!Drop(slot[t])
  <2> DEFINE left == (count[ref[slot[t]]] + CountRange - 1) % CountRange
  <2>1. slot[t] \in Slots /\ ~Gone(slot[t]) /\ ref[slot[t]] # Absent
    BY <1>13 DEF Release, Gone
  <2>2. CASE left = 0
    <3>1. \A s \in Slots : Gone(s)' <=> Gone(s) \/ s = slot[t]
      BY <1>13, <2>2 DEF Release, Gone
    <3>2. ref' = ref /\ obj' = obj
      BY <1>13, <2>2 DEF Release
    <3>3. Owning' = [Owning EXCEPT ![slot[t]] = Absent]
      BY <2>1, <3>1, <3>2 DEF Owning
    <3>4. QED
      BY <2>1, <3>2, <3>3 DEF Owning, Lifetime!Drop
  <2>3. CASE left # 0
    <3>1. \A s \in Slots : Gone(s)' <=> Gone(s)
      BY <1>13, <2>3 DEF Release, Gone
    <3>2. ref' = [ref EXCEPT ![slot[t]] = Absent] /\ obj' = obj
      BY <1>13, <2>3 DEF Release
    <3>3. Owning' = [Owning EXCEPT ![slot[t]] = Absent]
      BY <2>1, <3>1, <3>2 DEF Owning
    <3>4. QED
      BY <2>1, <3>2, <3>3 DEF Owning, Lifetime!Drop
  <2>4. QED
    BY <2>2, <2>3
<1>14. ASSUME NEW t \in Threads, DeleteObject(t)
      PROVE  Lifetime!Delete(ref[slot[t]])
  <2> DEFINE o == ref[slot[t]]
  <2>1. slot[t] \in Slots /\ Gone(slot[t]) /\ o \in Objects
    BY <1>14 DEF DeleteObject, Gone
  <2>2. obj[o] = "alive"
    BY <1>14, <2>1 DEF DeleteObject, IInv, LastHandle, NoUseAfterFree
  <2>3. \A s \in Slots : Owning[s] # o
    <3>1. \A s \in Slots : ref[s] = o => s = slot[t]
      BY <1>14 DEF DeleteObject, IInv, LastHandle
    <3>2. QED
      BY <2>1, <3>1 DEF Owning
  <2>4. \A s \in Slots : Gone(s)' <=> Gone(s)
    BY <1>14 DEF DeleteObject, Gone
  <2>5. ref' = ref /\ obj' = [obj EXCEPT ![o] = "deleted"]
    BY <1>14 DEF DeleteObject
  <2>6. Owning' = Owning
    BY <2>4, <2>5 DEF Owning
  <2>7. QED
    BY <2>2, <2>3, <2>5, <2>6 DEF Lifetime!Delete
<1>15. ASSUME NEW t \in Threads, DeleteCounter(t)
      PROVE  UNCHANGED Lifetime!lifetimeVars
  <2>1. \A s \in Slots : Gone(s)' <=> Gone(s) /\ s # slot[t]
    BY <1>15 DEF DeleteCounter, Gone
  <2>2. Gone(slot[t]) /\ slot[t] \in Slots
    BY <1>15 DEF DeleteCounter, Gone
  <2>3. ref' = [ref EXCEPT ![slot[t]] = Absent] /\ obj' = obj
    BY <1>15 DEF DeleteCounter
  <2>4. Owning' = Owning
    BY <2>1, <2>2, <2>3 DEF Owning
  <2>5. QED
    BY <2>3, <2>4
<1>16. CASE UNCHANGED vars
  BY <1>16 DEF vars, Owning, Gone
<1>17. QED
  <2> HIDE DEF Typed, OneWriter
  <2>1. \A t \in Threads : slot[t] \in Slots /\ (pc[t] = "swap" => target[t] \in Slots)
    BY DEF Typed, OneWriter
  <2>2. \A t \in Threads : pc[t] = "deleteObject" => ref[slot[t]] \in Objects
    BY DEF OneWriter
  <2>3. QED
    BY <1>1, <1>2, <1>3, <1>4, <1>5, <1>6, <1>7, <1>8, <1>9, <1>10, <1>11, <1>12,
       <1>13, <1>14, <1>15, <1>16, <2>1, <2>2
    DEF Next, Begin, Continue, Lifetime!Next, AssignSwap, DeleteObject

\* An object is destroyed once, when no handle owns it any more and not before:
\* every step of mySharedPtr.h is a step of ObjectLifetime or leaves it alone.
THEOREM Implements == Spec => ImplementsLifetime
<1>1. IInv => Base
  <2> SUFFICES ASSUME IInv PROVE Base
    OBVIOUS
  <2>1. count \in [Objects -> Nat]
    BY CountRangePositive DEF IInv, TypeOK
  <2>2. QED
    BY <2>1 DEF IInv, TypeOK, Base, Typed
<1>2. QED
  BY <1>1, Inductive, LifetimeInit, LifetimeStep, PTL DEF Spec, ImplementsLifetime, Lifetime!Spec
=============================================================================
