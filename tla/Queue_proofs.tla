----------------------------- MODULE Queue_proofs -----------------------------
(***************************************************************************)
(* Theorems about BlockQueue for every set of threads, every set of items  *)
(* and every capacity, the capacity 0 included, about the program of       *)
(* main.cpp for any number of producers, consumers and iterations, and     *)
(* about demo() for any number of pushes.                                  *)
(***************************************************************************)
EXTENDS QueueMain, QueueDemo, FiniteSetTheorems, SequenceTheorems, TLAPS

USE ThreadsAssumption, ItemsAssumption, CapacityAssumption

Base == TypeOK /\ CriticalSections

\* The queue starts empty and open, with every thread outside an operation.
LEMMA BaseInit == Init => Base
<1> SUFFICES ASSUME Init PROVE Base
  OBVIOUS
<1>1. TypeOK
  <2>1. queue \in Seq(Items) /\ Len(queue) <= Capacity
    BY DEF Init
  <2>2. /\ stop \in BOOLEAN
        /\ mtx \in Threads \cup {NoThread}
        /\ pc \in [Threads -> {"idle"} \cup PushPC \cup PopPC \cup StopPC]
        /\ reg \in [Threads -> Items \cup {NoItem}]
    BY DEF Init
  <2>3. QED
    BY <2>1, <2>2 DEF TypeOK
<1>2. CriticalSections
  BY DEF Init, CriticalSections, Holding
<1>3. QED
  BY <1>1, <1>2 DEF Base

\* Every step keeps the types, and mutual exclusion with what the holder has tested.
LEMMA BaseStep == Base /\ [Next]_vars => Base'
<1> SUFFICES ASSUME Base, [Next]_vars PROVE Base'
  OBVIOUS
<1> USE DEF Base, TypeOK, CriticalSections, Holding, PushPC, PopPC, StopPC, Goto, Lock, Wait
<1>1. ASSUME NEW t \in Threads, NEW v \in Items, PushCall(t, v) PROVE Base'
  BY <1>1 DEF PushCall
<1>2. ASSUME NEW t \in Threads, PopCall(t) PROVE Base'
  BY <1>2 DEF PopCall
<1>3. ASSUME NEW t \in Threads, StopCall(t) PROVE Base'
  BY <1>3 DEF StopCall
<1>4. ASSUME NEW t \in Threads, PushLock(t) PROVE Base'
  BY <1>4 DEF PushLock
<1>5. ASSUME NEW t \in Threads, PushWait(t) PROVE Base'
  BY <1>5 DEF PushWait
<1>6. ASSUME NEW t \in Threads, PushDiscard(t) PROVE Base'
  BY <1>6 DEF PushDiscard
<1>7. ASSUME NEW t \in Threads, PushStore(t) PROVE Base'
  BY <1>7 DEF PushStore
<1>8. ASSUME NEW t \in Threads, PushNotify(t) PROVE Base'
  BY <1>8 DEF PushNotify, NotifyOne, EmptySleepers
<1>9. ASSUME NEW t \in Threads, PopLock(t) PROVE Base'
  BY <1>9 DEF PopLock
<1>10. ASSUME NEW t \in Threads, PopWait(t) PROVE Base'
  BY <1>10 DEF PopWait
<1>11. ASSUME NEW t \in Threads, PopFail(t) PROVE Base'
  BY <1>11 DEF PopFail
<1>12. ASSUME NEW t \in Threads, PopTake(t) PROVE Base'
  BY <1>12 DEF PopTake
<1>13. ASSUME NEW t \in Threads, PopNotify(t) PROVE Base'
  BY <1>13 DEF PopNotify, NotifyOne, FullSleepers
<1>14. ASSUME NEW t \in Threads, StopLock(t) PROVE Base'
  BY <1>14 DEF StopLock
<1>15. ASSUME NEW t \in Threads, StopSet(t) PROVE Base'
  BY <1>15 DEF StopSet
<1>16. ASSUME NEW t \in Threads, StopNotifyEmpty(t) PROVE Base'
  BY <1>16 DEF StopNotifyEmpty, NotifyAll, EmptySleepers
<1>17. ASSUME NEW t \in Threads, StopNotifyFull(t) PROVE Base'
  BY <1>17 DEF StopNotifyFull, NotifyAll, FullSleepers
<1>18. ASSUME NEW t \in Threads, SpuriousWakeup(t) PROVE Base'
  BY <1>18 DEF SpuriousWakeup
<1>19. CASE UNCHANGED vars
  BY <1>19 DEF vars
<1>20. QED
  BY <1>1, <1>2, <1>3, <1>4, <1>5, <1>6, <1>7, <1>8, <1>9, <1>10, <1>11, <1>12,
     <1>13, <1>14, <1>15, <1>16, <1>17, <1>18, <1>19
  DEF Next, Step, PushStep, PopStep, StopStep

----------------------------------------------------------------------------
(* Counting the threads that answer for the items and for the free places. *)

\* A set that loses at most one thread loses at most one in size.
LEMMA LosesOne ==
    ASSUME NEW A \in SUBSET Threads, NEW B \in SUBSET Threads, NEW t, A \ {t} \subseteq B
    PROVE  /\ Cardinality(A) \in Nat
           /\ Cardinality(B) \in Nat
           /\ Cardinality(B) >= Cardinality(A) - 1
<1>1. IsFiniteSet(A) /\ IsFiniteSet(B)
  BY FS_Subset
<1>2. Cardinality(A) \in Nat /\ Cardinality(B) \in Nat
  BY <1>1, FS_CardinalityType
<1>3. IsFiniteSet(A \ {t}) /\ Cardinality(A \ {t}) >= Cardinality(A) - 1
  <2>1. CASE t \in A
    <3>1. IsFiniteSet(A \ {t}) /\ Cardinality(A \ {t}) = Cardinality(A) - 1
      BY <2>1, <1>1, FS_RemoveElement
    <3>2. QED
      BY <3>1, <1>2
  <2>2. CASE t \notin A
    <3>1. A \ {t} = A
      BY <2>2
    <3>2. QED
      BY <3>1, <1>1, <1>2
  <2>3. QED
    BY <2>1, <2>2
<1>4. Cardinality(A \ {t}) <= Cardinality(B) /\ Cardinality(A \ {t}) \in Nat
  BY <1>1, <1>3, FS_Subset, FS_CardinalityType
<1>5. QED
  BY <1>2, <1>3, <1>4

\* A set that only grows does not get smaller, and is larger by one if it
\* gains a new thread.
LEMMA Grows ==
    ASSUME NEW A \in SUBSET Threads, NEW B \in SUBSET Threads, A \subseteq B
    PROVE  /\ Cardinality(A) \in Nat
           /\ Cardinality(B) \in Nat
           /\ Cardinality(A) <= Cardinality(B)
           /\ \A t \in B \ A : Cardinality(A) + 1 <= Cardinality(B)
<1>1. IsFiniteSet(A) /\ IsFiniteSet(B) /\ Cardinality(A) <= Cardinality(B)
  BY FS_Subset
<1>2. Cardinality(A) \in Nat /\ Cardinality(B) \in Nat
  BY <1>1, FS_CardinalityType
<1>3. ASSUME NEW t \in B \ A PROVE Cardinality(A) + 1 <= Cardinality(B)
  <2>1. IsFiniteSet(A \cup {t}) /\ Cardinality(A \cup {t}) = Cardinality(A) + 1
    BY <1>1, FS_AddElement
  <2>2. Cardinality(A \cup {t}) <= Cardinality(B)
    BY <1>1, <1>3, FS_Subset
  <2>3. QED
    BY <2>1, <2>2
<1>4. QED
  BY <1>1, <1>2, <1>3

\* Replacing one thread by another keeps the size.
LEMMA Swaps ==
    ASSUME NEW A \in SUBSET Threads, NEW B \in SUBSET Threads,
           NEW t \in A, NEW s \in B \ A, A \ {t} \subseteq B
    PROVE  /\ Cardinality(A) \in Nat
           /\ Cardinality(B) \in Nat
           /\ Cardinality(A) <= Cardinality(B)
<1>1. (A \ {t}) \in SUBSET Threads /\ (A \ {t}) \cup {s} \in SUBSET Threads
  OBVIOUS
<1>2. Cardinality(A \ {t}) + 1 <= Cardinality((A \ {t}) \cup {s}) /\ Cardinality((A \ {t}) \cup {s}) \in Nat
  BY <1>1, Grows
<1>3. Cardinality((A \ {t}) \cup {s}) <= Cardinality(B) /\ Cardinality(B) \in Nat
  BY <1>1, Grows
<1>4. Cardinality(A \ {t}) >= Cardinality(A) - 1 /\ Cardinality(A \ {t}) \in Nat /\ Cardinality(A) \in Nat
  BY <1>1, LosesOne
<1>5. QED
  BY <1>2, <1>3, <1>4

----------------------------------------------------------------------------
(* The three parts of the wakeup invariant, one step at a time.            *)

ItemTakers   == EmptyNotifiers \cup Takers
PlaceFillers == FullNotifiers \cup Storers

\* Every step keeps a taker, or the notifier of one, for each stored item.
LEMMA ItemsStep ==
    Base /\ Base' /\ WakeupsCoverItems /\ [Next]_vars => WakeupsCoverItems'
<1> SUFFICES ASSUME Base, Base', WakeupsCoverItems, [Next]_vars,
                    ~stop', EmptySleepers' # {}
             PROVE  Len(queue)' <= Cardinality(ItemTakers)'
  BY DEF WakeupsCoverItems, ItemTakers
<1> USE DEF Base, TypeOK, Goto, Lock, Wait
<1>S. ItemTakers \in SUBSET Threads /\ ItemTakers' \in SUBSET Threads
  BY DEF ItemTakers, EmptyNotifiers, Takers
<1>L. Len(queue) \in Nat /\ Len(queue') \in Nat
  BY LenProperties
<1> DEFINE Quiet == /\ queue' = queue /\ stop' = stop
                    /\ ItemTakers \subseteq ItemTakers'
                    /\ EmptySleepers' \subseteq EmptySleepers
<1>q. ASSUME Quiet PROVE Len(queue)' <= Cardinality(ItemTakers)'
  <2>1. EmptySleepers # {} /\ ~stop
    BY <1>q
  <2>2. Len(queue) <= Cardinality(ItemTakers)
    BY <2>1 DEF WakeupsCoverItems, ItemTakers
  <2>3. /\ Cardinality(ItemTakers) <= Cardinality(ItemTakers')
        /\ Cardinality(ItemTakers) \in Nat /\ Cardinality(ItemTakers') \in Nat
    BY <1>q, <1>S, Grows
  <2>4. QED
    BY <1>q, <2>2, <2>3, <1>L
<1> USE DEF ItemTakers, EmptyNotifiers, Takers, EmptySleepers
<1>1. ASSUME NEW t \in Threads,
             \/ \E v \in Items : PushCall(t, v)
             \/ PopCall(t) \/ StopCall(t)
      PROVE  Quiet
  BY <1>1 DEF PushCall, PopCall, StopCall
<1>2. ASSUME NEW t \in Threads, PushLock(t) \/ PopLock(t) \/ StopLock(t) PROVE Quiet
  BY <1>2 DEF PushLock, PopLock, StopLock
<1>3. ASSUME NEW t \in Threads, PushWait(t) \/ PushDiscard(t) PROVE Quiet
  BY <1>3 DEF PushWait, PushDiscard
<1>4. ASSUME NEW t \in Threads, SpuriousWakeup(t) PROVE Quiet
  BY <1>4 DEF SpuriousWakeup
<1>5. ASSUME NEW t \in Threads, StopNotifyFull(t) PROVE Quiet
  BY <1>5 DEF StopNotifyFull, NotifyAll, FullSleepers
<1>6. ASSUME NEW t \in Threads, PopNotify(t) PROVE Quiet
  BY <1>6 DEF PopNotify, NotifyOne, FullSleepers
<1>7. CASE UNCHANGED vars
  <2>1. Quiet
    BY <1>7 DEF vars
  <2>2. QED
    BY <2>1, <1>q
<1>8. ASSUME NEW t \in Threads, PopFail(t) \/ StopSet(t) PROVE FALSE
  BY <1>8 DEF PopFail, StopSet
<1>9. ASSUME NEW t \in Threads, StopNotifyEmpty(t) PROVE FALSE
  BY <1>9 DEF StopNotifyEmpty, NotifyAll
\* A storer adds an item and becomes the one that notifies for it.
<1>10. ASSUME NEW t \in Threads, PushStore(t)
       PROVE  Len(queue)' <= Cardinality(ItemTakers)'
  <2>1. Len(queue') = Len(queue) + 1
    BY <1>10, AppendProperties DEF PushStore, CriticalSections
  <2>2. /\ ItemTakers \subseteq ItemTakers' /\ t \in ItemTakers' \ ItemTakers
        /\ EmptySleepers' = EmptySleepers
    BY <1>10 DEF PushStore
  <2>3. Len(queue) <= Cardinality(ItemTakers)
    BY <1>10, <2>2 DEF WakeupsCoverItems, PushStore
  <2>4. /\ Cardinality(ItemTakers) + 1 <= Cardinality(ItemTakers')
        /\ Cardinality(ItemTakers) \in Nat /\ Cardinality(ItemTakers') \in Nat
    BY <1>S, <2>2, Grows
  <2>5. QED
    BY <1>L, <2>1, <2>3, <2>4
\* Somebody still sleeps, so the notification woke a sleeper.
<1>11. ASSUME NEW t \in Threads, PushNotify(t)
       PROVE  Len(queue)' <= Cardinality(ItemTakers)'
  <2>1. PICK s \in EmptySleepers : pc' = [pc EXCEPT ![t] = "idle", ![s] = "popLock"]
    BY <1>11 DEF PushNotify, NotifyOne
  <2>2. /\ t \in ItemTakers /\ s \in ItemTakers' \ ItemTakers
        /\ ItemTakers \ {t} \subseteq ItemTakers'
    BY <1>11, <2>1 DEF PushNotify, NotifyOne
  <2>3. Len(queue) <= Cardinality(ItemTakers) /\ queue' = queue
    BY <1>11 DEF WakeupsCoverItems, PushNotify, NotifyOne
  <2>4. /\ Cardinality(ItemTakers) <= Cardinality(ItemTakers')
        /\ Cardinality(ItemTakers) \in Nat /\ Cardinality(ItemTakers') \in Nat
    BY <1>S, <2>2, Swaps
  <2>5. QED
    BY <1>L, <2>3, <2>4
\* A thread falls asleep on an empty queue only.
<1>12. ASSUME NEW t \in Threads, PopWait(t)
       PROVE  Len(queue)' <= Cardinality(ItemTakers)'
  <2>1. CASE stop \/ queue # <<>>
    BY <1>12, <2>1, <1>q DEF PopWait
  <2>2. CASE ~(stop \/ queue # <<>>)
    <3>1. Len(queue') = 0
      BY <1>12, <2>2, EmptySeq DEF PopWait
    <3>2. Cardinality(ItemTakers') \in Nat
      BY <1>S, Grows
    <3>3. QED
      BY <3>1, <3>2
  <2>3. QED
    BY <2>1, <2>2
\* A taker leaves together with its item.
<1>13. ASSUME NEW t \in Threads, PopTake(t)
       PROVE  Len(queue)' <= Cardinality(ItemTakers)'
  <2>1. Len(queue') = Len(queue) - 1
    BY <1>13, HeadTailProperties DEF PopTake, CriticalSections
  <2>2. ItemTakers \ {t} \subseteq ItemTakers' /\ EmptySleepers' = EmptySleepers
    BY <1>13 DEF PopTake
  <2>3. Len(queue) <= Cardinality(ItemTakers)
    BY <1>13, <2>2 DEF WakeupsCoverItems, PopTake
  <2>4. /\ Cardinality(ItemTakers') >= Cardinality(ItemTakers) - 1
        /\ Cardinality(ItemTakers) \in Nat /\ Cardinality(ItemTakers') \in Nat
    BY <1>S, <2>2, LosesOne
  <2>5. QED
    BY <1>L, <2>1, <2>3, <2>4
<1>14. QED
  BY <1>q, <1>1, <1>2, <1>3, <1>4, <1>5, <1>6, <1>7, <1>8, <1>9, <1>10, <1>11, <1>12, <1>13
  DEF Next, Step, PushStep, PopStep, StopStep

\* Every step keeps a storer, or the notifier of one, for each free place.
LEMMA PlacesStep ==
    Base /\ Base' /\ WakeupsCoverPlaces /\ [Next]_vars => WakeupsCoverPlaces'
<1> SUFFICES ASSUME Base, Base', WakeupsCoverPlaces, [Next]_vars,
                    ~stop', FullSleepers' # {}
             PROVE  Capacity - Len(queue)' <= Cardinality(PlaceFillers)'
  BY DEF WakeupsCoverPlaces, PlaceFillers
<1> USE DEF Base, TypeOK, Goto, Lock, Wait
<1>S. PlaceFillers \in SUBSET Threads /\ PlaceFillers' \in SUBSET Threads
  BY DEF PlaceFillers, FullNotifiers, Storers
<1>L. Len(queue) \in Nat /\ Len(queue') \in Nat
  BY LenProperties
<1> DEFINE Quiet == /\ queue' = queue /\ stop' = stop
                    /\ PlaceFillers \subseteq PlaceFillers'
                    /\ FullSleepers' \subseteq FullSleepers
<1>q. ASSUME Quiet PROVE Capacity - Len(queue)' <= Cardinality(PlaceFillers)'
  <2>1. FullSleepers # {} /\ ~stop
    BY <1>q
  <2>2. Capacity - Len(queue) <= Cardinality(PlaceFillers)
    BY <2>1 DEF WakeupsCoverPlaces, PlaceFillers
  <2>3. /\ Cardinality(PlaceFillers) <= Cardinality(PlaceFillers')
        /\ Cardinality(PlaceFillers) \in Nat /\ Cardinality(PlaceFillers') \in Nat
    BY <1>q, <1>S, Grows
  <2>4. QED
    BY <1>q, <2>2, <2>3, <1>L
<1> USE DEF PlaceFillers, FullNotifiers, Storers, FullSleepers
<1>1. ASSUME NEW t \in Threads,
             \/ \E v \in Items : PushCall(t, v)
             \/ PopCall(t) \/ StopCall(t)
      PROVE  Quiet
  BY <1>1 DEF PushCall, PopCall, StopCall
<1>2. ASSUME NEW t \in Threads, PushLock(t) \/ PopLock(t) \/ StopLock(t) PROVE Quiet
  BY <1>2 DEF PushLock, PopLock, StopLock
<1>3. ASSUME NEW t \in Threads, PopWait(t) \/ PopFail(t) PROVE Quiet
  BY <1>3 DEF PopWait, PopFail
<1>4. ASSUME NEW t \in Threads, SpuriousWakeup(t) PROVE Quiet
  BY <1>4 DEF SpuriousWakeup
<1>5. ASSUME NEW t \in Threads, StopNotifyEmpty(t) PROVE Quiet
  BY <1>5 DEF StopNotifyEmpty, NotifyAll, EmptySleepers
<1>6. ASSUME NEW t \in Threads, PushNotify(t) PROVE Quiet
  BY <1>6 DEF PushNotify, NotifyOne, EmptySleepers
<1>7. CASE UNCHANGED vars
  <2>1. Quiet
    BY <1>7 DEF vars
  <2>2. QED
    BY <2>1, <1>q
<1>8. ASSUME NEW t \in Threads, PushDiscard(t) \/ StopSet(t) PROVE FALSE
  BY <1>8 DEF PushDiscard, StopSet
<1>9. ASSUME NEW t \in Threads, StopNotifyFull(t) PROVE FALSE
  BY <1>9 DEF StopNotifyFull, NotifyAll
\* A taker frees a place and becomes the one that notifies for it.
<1>10. ASSUME NEW t \in Threads, PopTake(t)
       PROVE  Capacity - Len(queue)' <= Cardinality(PlaceFillers)'
  <2>1. Len(queue') = Len(queue) - 1
    BY <1>10, HeadTailProperties DEF PopTake, CriticalSections
  <2>2. /\ PlaceFillers \subseteq PlaceFillers' /\ t \in PlaceFillers' \ PlaceFillers
        /\ FullSleepers' = FullSleepers
    BY <1>10 DEF PopTake
  <2>3. Capacity - Len(queue) <= Cardinality(PlaceFillers)
    BY <1>10, <2>2 DEF WakeupsCoverPlaces, PopTake
  <2>4. /\ Cardinality(PlaceFillers) + 1 <= Cardinality(PlaceFillers')
        /\ Cardinality(PlaceFillers) \in Nat /\ Cardinality(PlaceFillers') \in Nat
    BY <1>S, <2>2, Grows
  <2>5. QED
    BY <1>L, <2>1, <2>3, <2>4
<1>11. ASSUME NEW t \in Threads, PopNotify(t)
       PROVE  Capacity - Len(queue)' <= Cardinality(PlaceFillers)'
  <2>1. PICK s \in FullSleepers : pc' = [pc EXCEPT ![t] = "idle", ![s] = "pushLock"]
    BY <1>11 DEF PopNotify, NotifyOne
  <2>2. /\ t \in PlaceFillers /\ s \in PlaceFillers' \ PlaceFillers
        /\ PlaceFillers \ {t} \subseteq PlaceFillers'
    BY <1>11, <2>1 DEF PopNotify, NotifyOne
  <2>3. Capacity - Len(queue) <= Cardinality(PlaceFillers) /\ queue' = queue
    BY <1>11 DEF WakeupsCoverPlaces, PopNotify, NotifyOne
  <2>4. /\ Cardinality(PlaceFillers) <= Cardinality(PlaceFillers')
        /\ Cardinality(PlaceFillers) \in Nat /\ Cardinality(PlaceFillers') \in Nat
    BY <1>S, <2>2, Swaps
  <2>5. QED
    BY <1>L, <2>3, <2>4
\* A thread falls asleep on a full queue only.
<1>12. ASSUME NEW t \in Threads, PushWait(t)
       PROVE  Capacity - Len(queue)' <= Cardinality(PlaceFillers)'
  <2>1. CASE stop \/ Len(queue) < Capacity
    BY <1>12, <2>1, <1>q DEF PushWait
  <2>2. CASE ~(stop \/ Len(queue) < Capacity)
    <3>1. Capacity - Len(queue') = 0
      BY <1>12, <2>2, <1>L DEF PushWait
    <3>2. Cardinality(PlaceFillers') \in Nat
      BY <1>S, Grows
    <3>3. QED
      BY <3>1, <3>2
  <2>3. QED
    BY <2>1, <2>2
\* A storer leaves together with its place.
<1>13. ASSUME NEW t \in Threads, PushStore(t)
       PROVE  Capacity - Len(queue)' <= Cardinality(PlaceFillers)'
  <2>1. Len(queue') = Len(queue) + 1
    BY <1>13, AppendProperties DEF PushStore, CriticalSections
  <2>2. PlaceFillers \ {t} \subseteq PlaceFillers' /\ FullSleepers' = FullSleepers
    BY <1>13 DEF PushStore
  <2>3. Capacity - Len(queue) <= Cardinality(PlaceFillers)
    BY <1>13, <2>2 DEF WakeupsCoverPlaces, PushStore
  <2>4. /\ Cardinality(PlaceFillers') >= Cardinality(PlaceFillers) - 1
        /\ Cardinality(PlaceFillers) \in Nat /\ Cardinality(PlaceFillers') \in Nat
    BY <1>S, <2>2, LosesOne
  <2>5. QED
    BY <1>L, <2>1, <2>3, <2>4
<1>14. QED
  BY <1>q, <1>1, <1>2, <1>3, <1>4, <1>5, <1>6, <1>7, <1>8, <1>9, <1>10, <1>11, <1>12, <1>13
  DEF Next, Step, PushStep, PopStep, StopStep

\* After stop() nobody falls asleep any more, and its two notify_all, which it
\* has not sent yet, reach everybody who slept before.
LEMMA StopStepWakes ==
    Base /\ StopWakesSleepers /\ [Next]_vars => StopWakesSleepers'
<1> SUFFICES ASSUME Base, StopWakesSleepers, [Next]_vars PROVE StopWakesSleepers'
  OBVIOUS
<1> USE DEF Base, TypeOK, Goto, Lock, Wait, StopWakesSleepers, EmptySleepers, FullSleepers
<1>1. ASSUME NEW t \in Threads,
             \/ \E v \in Items : PushCall(t, v)
             \/ PopCall(t) \/ StopCall(t)
      PROVE  StopWakesSleepers'
  BY <1>1 DEF PushCall, PopCall, StopCall
<1>2. ASSUME NEW t \in Threads, PushLock(t) \/ PopLock(t) \/ StopLock(t)
      PROVE  StopWakesSleepers'
  BY <1>2 DEF PushLock, PopLock, StopLock
<1>3. ASSUME NEW t \in Threads, PushWait(t) \/ PopWait(t) PROVE StopWakesSleepers'
  BY <1>3 DEF PushWait, PopWait
<1>4. ASSUME NEW t \in Threads, PushDiscard(t) \/ PushStore(t) PROVE StopWakesSleepers'
  BY <1>4 DEF PushDiscard, PushStore
<1>5. ASSUME NEW t \in Threads, PopFail(t) \/ PopTake(t) PROVE StopWakesSleepers'
  BY <1>5 DEF PopFail, PopTake
<1>6. ASSUME NEW t \in Threads, PushNotify(t) \/ PopNotify(t) PROVE StopWakesSleepers'
  BY <1>6 DEF PushNotify, PopNotify, NotifyOne
<1>7. ASSUME NEW t \in Threads, StopSet(t) PROVE StopWakesSleepers'
  BY <1>7 DEF StopSet
<1>8. ASSUME NEW t \in Threads, StopNotifyEmpty(t) PROVE StopWakesSleepers'
  BY <1>8 DEF StopNotifyEmpty, NotifyAll
<1>9. ASSUME NEW t \in Threads, StopNotifyFull(t) PROVE StopWakesSleepers'
  BY <1>9 DEF StopNotifyFull, NotifyAll
<1>10. ASSUME NEW t \in Threads, SpuriousWakeup(t) PROVE StopWakesSleepers'
  BY <1>10 DEF SpuriousWakeup
<1>11. CASE UNCHANGED vars
  BY <1>11 DEF vars
<1>12. QED
  BY <1>1, <1>2, <1>3, <1>4, <1>5, <1>6, <1>7, <1>8, <1>9, <1>10, <1>11
  DEF Next, Step, PushStep, PopStep, StopStep

----------------------------------------------------------------------------
(* The theorems.                                                           *)

\* Nobody sleeps on a new queue.
LEMMA QueueInit == Init => IInv
<1> SUFFICES ASSUME Init PROVE IInv
  OBVIOUS
<1>1. EmptySleepers = {} /\ FullSleepers = {}
  BY DEF Init, EmptySleepers, FullSleepers
<1>2. WakeupsCoverItems /\ WakeupsCoverPlaces /\ StopWakesSleepers
  BY <1>1 DEF WakeupsCoverItems, WakeupsCoverPlaces, StopWakesSleepers
<1>3. QED
  BY <1>2, BaseInit DEF IInv, Base

\* Every step of every thread keeps the invariant of the queue.
LEMMA QueueStepKeeps == IInv /\ [Next]_vars => IInv'
BY BaseStep, ItemsStep, PlacesStep, StopStepWakes DEF IInv, Base

\* IInv is inductive: it holds of a new queue and every step of every thread
\* keeps it.
THEOREM Inductive == Spec => []IInv
BY QueueInit, QueueStepKeeps, PTL DEF Spec

\* The queue keeps its type and its capacity.
THEOREM TypeCorrect == Spec => []TypeOK
<1>1. IInv => TypeOK
  BY DEF IInv
<1>2. QED
  BY <1>1, Inductive, PTL

\* A sleeper that should wake up is never forgotten, for any number of threads
\* and any capacity.
LEMMA CoverImpliesNoLostWakeup == IInv => NoLostWakeup
<1> SUFFICES ASSUME IInv PROVE NoLostWakeup
  OBVIOUS
<1>1. ASSUME EmptySleepers # {}, stop \/ queue # <<>>
      PROVE  \/ EmptyNotifiers \cup Takers # {}
             \/ \E t \in Threads : pc[t] = "stopNotifyEmpty"
  <2>1. CASE stop
    BY <1>1, <2>1 DEF IInv, StopWakesSleepers
  <2>2. CASE ~stop
    <3>1. Len(queue) \in Nat /\ Len(queue) # 0
      BY <1>1, <2>2, EmptySeq, LenProperties DEF IInv, TypeOK
    <3>2. Len(queue) <= Cardinality(EmptyNotifiers \cup Takers)
      BY <1>1, <2>2 DEF IInv, WakeupsCoverItems
    <3>3. EmptyNotifiers \cup Takers = {} => Cardinality(EmptyNotifiers \cup Takers) = 0
      BY FS_EmptySet, Zenon
    <3>4. ~(EmptyNotifiers \cup Takers = {})
      BY <3>1, <3>2, <3>3, SMT
    <3>5. QED
      BY <3>4
  <2>3. QED
    BY <2>1, <2>2
<1>2. ASSUME FullSleepers # {}, stop \/ Len(queue) < Capacity
      PROVE  \/ FullNotifiers \cup Storers # {}
             \/ \E t \in Threads : pc[t] \in {"stopNotifyEmpty", "stopNotifyFull"}
  <2>1. CASE stop
    BY <1>2, <2>1 DEF IInv, StopWakesSleepers
  <2>2. CASE ~stop
    <3>1. Len(queue) \in Nat /\ Capacity - Len(queue) > 0
      BY <1>2, <2>2, LenProperties DEF IInv, TypeOK
    <3>2. Capacity - Len(queue) <= Cardinality(FullNotifiers \cup Storers)
      BY <1>2, <2>2 DEF IInv, WakeupsCoverPlaces
    <3>3. FullNotifiers \cup Storers = {} => Cardinality(FullNotifiers \cup Storers) = 0
      BY FS_EmptySet, Zenon
    <3>4. ~(FullNotifiers \cup Storers = {})
      BY <3>1, <3>2, <3>3, SMT
    <3>5. QED
      BY <3>4
  <2>3. QED
    BY <2>1, <2>2
<1>3. QED
  BY <1>1, <1>2 DEF NoLostWakeup

\* No thread sleeps on a true predicate with nobody on the way, although push and
\* pop notify after the unlock (lines 21 and 31) and wake one sleeper at most.
THEOREM NoWakeupIsLost == Spec => []NoLostWakeup
BY Inductive, CoverImpliesNoLostWakeup, PTL

----------------------------------------------------------------------------
(* The queue implements the bounded FIFO.                                  *)

\* Both specifications start empty, open and idle.
LEMMA FifoInit == Init => Fifo!Init
BY DEF Init, Fifo!Init, Operation, PushPC, PopPC

\* Every critical section is one operation of the abstract queue; locking, waiting
\* and notifying leave it alone.
LEMMA FifoStep == Base /\ [Next]_vars => [Fifo!Next]_(Fifo!fifoVars)
<1> SUFFICES ASSUME Base, [Next]_vars PROVE [Fifo!Next]_(Fifo!fifoVars)
  OBVIOUS
<1> USE DEF Base, TypeOK, Goto, Lock, Wait, Operation, PushPC, PopPC, StopPC
<1>1. ASSUME NEW t \in Threads, NEW v \in Items, PushCall(t, v)
      PROVE  Fifo!Call(t, "push", v)
  BY <1>1 DEF PushCall, Fifo!Call
<1>2. ASSUME NEW t \in Threads, PopCall(t)
      PROVE  Fifo!Call(t, "pop", NoItem)
  BY <1>2 DEF PopCall, Fifo!Call
<1>3. ASSUME NEW t \in Threads, StopCall(t)
      PROVE  Fifo!Call(t, "stop", NoItem)
  BY <1>3 DEF StopCall, Fifo!Call
<1>4. ASSUME NEW t \in Threads, PushLock(t) \/ PopLock(t) \/ StopLock(t)
      PROVE  UNCHANGED Fifo!fifoVars
  BY <1>4 DEF PushLock, PopLock, StopLock, Fifo!fifoVars
<1>5. ASSUME NEW t \in Threads, PushWait(t) \/ PopWait(t) \/ SpuriousWakeup(t)
      PROVE  UNCHANGED Fifo!fifoVars
  BY <1>5 DEF PushWait, PopWait, SpuriousWakeup, Fifo!fifoVars
<1>6. ASSUME NEW t \in Threads, PushDiscard(t) PROVE Fifo!Discard(t)
  BY <1>6 DEF PushDiscard, Fifo!Discard
<1>7. ASSUME NEW t \in Threads, PushStore(t) PROVE Fifo!Put(t)
  BY <1>7 DEF PushStore, Fifo!Put, CriticalSections
<1>8. ASSUME NEW t \in Threads, PushNotify(t) PROVE Fifo!Return(t)
  BY ZenonT(30), <1>8 DEF PushNotify, NotifyOne, EmptySleepers, Fifo!Return
<1>9. ASSUME NEW t \in Threads, PopFail(t) PROVE Fifo!Fail(t)
  BY <1>9 DEF PopFail, Fifo!Fail
<1>10. ASSUME NEW t \in Threads, PopTake(t) PROVE Fifo!Get(t)
  BY <1>10 DEF PopTake, Fifo!Get, CriticalSections
<1>11. ASSUME NEW t \in Threads, PopNotify(t) PROVE Fifo!Return(t)
  BY ZenonT(30), <1>11 DEF PopNotify, NotifyOne, FullSleepers, Fifo!Return
<1>12. ASSUME NEW t \in Threads, StopSet(t) PROVE Fifo!Close(t)
  BY <1>12 DEF StopSet, Fifo!Close
<1>13. ASSUME NEW t \in Threads, StopNotifyEmpty(t) PROVE UNCHANGED Fifo!fifoVars
  BY <1>13 DEF StopNotifyEmpty, NotifyAll, EmptySleepers, Fifo!fifoVars
<1>14. ASSUME NEW t \in Threads, StopNotifyFull(t) PROVE Fifo!Return(t)
  BY <1>14 DEF StopNotifyFull, NotifyAll, FullSleepers, Fifo!Return
<1>15. CASE UNCHANGED vars
  BY <1>15 DEF vars, Fifo!fifoVars
<1>16. QED
  BY <1>1, <1>2, <1>3, <1>4, <1>5, <1>6, <1>7, <1>8, <1>9, <1>10, <1>11, <1>12,
     <1>13, <1>14, <1>15
  DEF Next, Step, PushStep, PopStep, StopStep, Fifo!Next

\* Every behaviour of the queue, seen through its items, its stop flag and the
\* operations in progress, is a behaviour of the bounded FIFO.
THEOREM Implements == Spec => ImplementsFifo
<1>1. IInv => Base
  BY DEF IInv, Base
<1>2. QED
  BY <1>1, Inductive, FifoInit, FifoStep, PTL DEF Spec, ImplementsFifo, Fifo!Spec
----------------------------------------------------------------------------
(* The program of main.cpp: counting the iterations and the places.        *)

\* The iterations are as many as the counter says, and fewer than all of them
\* while some producer is not through with its own.
LEMMA CounterBound ==
    ASSUME Values
    PROVE  /\ IsFiniteSet(Iterations) /\ counter \in Nat /\ Total \in Nat
           /\ counter <= Total
           /\ \A p \in Producers : Len(pushed[p]) < PerProducer => counter < Total
           /\ (\A p \in Producers : Len(pushed[p]) = PerProducer) => counter = Total
<1> DEFINE All == Producers \X (1 .. PerProducer)
<1>1. IsFiniteSet(Producers) /\ Cardinality(Producers) \in Nat
  <2>1. Producers \subseteq Threads
    BY ProgramAssumption
  <2>2. IsFiniteSet(Producers)
    BY <2>1, FS_Subset
  <2>3. QED
    BY <2>2, FS_CardinalityType
<1>2. /\ IsFiniteSet(1 .. PerProducer) /\ Cardinality(1 .. PerProducer) = PerProducer
      /\ PerProducer \in Nat
  BY ProgramAssumption, FS_Interval
<1>3. IsFiniteSet(All) /\ Cardinality(All) = Total /\ Total \in Nat
  <2>1. IsFiniteSet(All) /\ Cardinality(All) = Cardinality(Producers) * Cardinality(1 .. PerProducer)
    BY <1>1, <1>2, FS_Product
  <2>2. QED
    BY <1>1, <1>2, <2>1 DEF Total
<1>4. Iterations \in SUBSET All
  BY DEF Iterations
<1>5. /\ IsFiniteSet(Iterations) /\ Cardinality(Iterations) <= Cardinality(All)
      /\ Cardinality(Iterations) = Cardinality(All) => Iterations = All
  BY <1>3, <1>4, FS_Subset
<1>6. counter = Cardinality(Iterations) /\ counter \in Nat
  BY <1>5, FS_CardinalityType DEF Values
<1>7. ASSUME NEW p \in Producers, Len(pushed[p]) < PerProducer
      PROVE  counter < Total
  <2>1. pushed[p] \in Seq(Nat) /\ Len(pushed[p]) \in Nat
    <3>1. pushed[p] \in Seq(Nat)
      BY DEF Values
    <3>2. QED
      BY <3>1, LenProperties
  <2>2. PICK i \in All : i = <<p, PerProducer>>
    <3>1. PerProducer \in 1 .. PerProducer
      BY <1>2, <1>7, <2>1
    <3>2. QED
      BY <3>1
  <2>3. ~(i[2] <= Len(pushed[i[1]]))
    BY <1>2, <1>7, <2>1, <2>2
  <2>4. Iterations # All
    BY <2>2, <2>3 DEF Iterations
  <2>5. QED
    BY <1>3, <1>5, <1>6, <2>4
<1>8. ASSUME \A p \in Producers : Len(pushed[p]) = PerProducer
      PROVE  counter = Total
  <2>1. \A i \in All : i[1] \in Producers /\ i[2] \in 1 .. PerProducer
    OBVIOUS
  <2>2. Iterations = All
    BY <1>2, <1>8, <2>1 DEF Iterations
  <2>3. QED
    BY <1>3, <1>6, <2>2
<1>9. QED
  BY <1>3, <1>5, <1>6, <1>7, <1>8

\* A finite set with one element more, and one with one element less.
LEMMA OneMore ==
    ASSUME NEW A, IsFiniteSet(A), NEW x, x \notin A, NEW B, B = A \cup {x}
    PROVE  /\ IsFiniteSet(B) /\ Cardinality(A) \in Nat
           /\ Cardinality(B) = Cardinality(A) + 1
BY FS_AddElement, FS_CardinalityType

LEMMA OneLess ==
    ASSUME NEW A, IsFiniteSet(A), NEW x \in A, NEW B, B = A \ {x}
    PROVE  /\ IsFiniteSet(B) /\ Cardinality(A) \in Nat
           /\ Cardinality(B) = Cardinality(A) - 1
BY FS_RemoveElement, FS_CardinalityType

\* The four kinds of places of EveryValueOnce.
InPush(v)  == {p \in Producers : reg[p] = v}
InQueue(v) == {i \in DOMAIN queue : queue[i] = v}
Popped(v)  == {c \in Consumers : run[c] = "popping" /\ reg[c] = v}
Written(v) == {i \in DOMAIN printed : printed[i].value = v}

\* They are finite.
LEMMA PlacesAreFinite ==
    ASSUME Values, NEW v
    PROVE  /\ IsFiniteSet(InPush(v)) /\ IsFiniteSet(InQueue(v))
           /\ IsFiniteSet(Popped(v)) /\ IsFiniteSet(Written(v))
           /\ Cardinality(InPush(v)) \in Nat /\ Cardinality(InQueue(v)) \in Nat
           /\ Cardinality(Popped(v)) \in Nat /\ Cardinality(Written(v)) \in Nat
<1>1. InPush(v) \in SUBSET Threads /\ Popped(v) \in SUBSET Threads
  BY ProgramAssumption DEF InPush, Popped
<1>2. /\ InQueue(v) \in SUBSET (1 .. Len(queue)) /\ Len(queue) \in Nat
      /\ Written(v) \in SUBSET (1 .. Len(printed)) /\ Len(printed) \in Nat
  BY LenProperties DEF Values, InQueue, Written
<1>3. IsFiniteSet(1 .. Len(queue)) /\ IsFiniteSet(1 .. Len(printed))
  BY <1>2, FS_Interval
<1>4. /\ IsFiniteSet(InPush(v)) /\ IsFiniteSet(InQueue(v))
      /\ IsFiniteSet(Popped(v)) /\ IsFiniteSet(Written(v))
  BY <1>1, <1>2, <1>3, FS_Subset
<1>5. QED
  BY <1>4, FS_CardinalityType

\* Where a value is in a sequence after an Append ...
LEMMA AppendPlaces ==
    ASSUME NEW S, NEW s \in Seq(S), NEW x \in S, NEW next, next = Append(s, x)
    PROVE  /\ next \in Seq(S)
           /\ Len(s) + 1 \notin DOMAIN s
           /\ DOMAIN next = DOMAIN s \cup {Len(s) + 1}
           /\ next[Len(s) + 1] = x
           /\ \A i \in DOMAIN s : next[i] = s[i] /\ i < Len(s) + 1
<1>1. /\ next \in Seq(S) /\ Len(next) = Len(s) + 1
      /\ \A i \in 1 .. Len(s) : next[i] = s[i]
      /\ next[Len(s) + 1] = x
  BY AppendProperties
<1>2. Len(s) \in Nat /\ DOMAIN s = 1 .. Len(s) /\ DOMAIN next = 1 .. Len(next)
  BY <1>1, LenProperties
<1>3. QED
  BY <1>1, <1>2

\* ... and after a Tail.
LEMMA TailPlaces ==
    ASSUME NEW S, NEW s \in Seq(S), s # <<>>, NEW next, next = Tail(s)
    PROVE  /\ next \in Seq(S) /\ Head(s) = s[1] /\ 1 \in DOMAIN s /\ s[1] \in S
           /\ DOMAIN s \subseteq Nat \ {0} /\ DOMAIN next \subseteq Nat \ {0}
           /\ \A i \in DOMAIN next : i + 1 \in DOMAIN s /\ next[i] = s[i + 1] /\ i + 1 > 1
           /\ \A i \in DOMAIN s \ {1} : i - 1 \in DOMAIN next
<1>1. /\ next \in Seq(S) /\ Len(next) = Len(s) - 1
      /\ \A i \in 1 .. Len(next) : next[i] = s[i + 1]
  BY HeadTailProperties
<1>2. Len(s) \in Nat \ {0} /\ DOMAIN s = 1 .. Len(s) /\ DOMAIN next = 1 .. Len(next)
  BY <1>1, LenProperties, EmptySeq
<1>3. s[1] \in S
  BY <1>2, ElementOfSeq
<1>4. QED
  BY <1>1, <1>2, <1>3

\* A Tail has one place less for the Head, and as many for any other value.
LEMMA TailCounts ==
    ASSUME Values, queue # <<>>, queue' = Tail(queue), NEW v
    PROVE  Cardinality(InQueue(v)') = Cardinality(InQueue(v) \ {1})
<1>0. PICK s, next, A, B : /\ s = queue /\ next = queue' /\ A = InQueue(v) /\ B = InQueue(v)'
                           /\ \A i : i \in A <=> i \in DOMAIN s /\ s[i] = v
                           /\ \A i : i \in B <=> i \in DOMAIN next /\ next[i] = v
                           /\ s \in Seq(Nat) /\ s # <<>> /\ next = Tail(s) /\ IsFiniteSet(A)
  <2>1. queue \in Seq(Nat) /\ IsFiniteSet(InQueue(v))
    BY PlacesAreFinite DEF Values
  <2>2. /\ \A i : i \in InQueue(v) <=> i \in DOMAIN queue /\ queue[i] = v
        /\ \A i : i \in InQueue(v)' <=> i \in DOMAIN queue' /\ queue'[i] = v
    BY DEF InQueue
  <2>3. QED
    BY <2>1, <2>2
<1> DEFINE shift == [i \in A \ {1} |-> i - 1]
<1>1. /\ DOMAIN s \subseteq Nat \ {0} /\ DOMAIN next \subseteq Nat \ {0}
      /\ \A i \in DOMAIN next : i + 1 \in DOMAIN s /\ next[i] = s[i + 1] /\ i + 1 > 1
      /\ \A i \in DOMAIN s \ {1} : i - 1 \in DOMAIN next
  BY <1>0, TailPlaces
<1>2. ASSUME NEW i \in A \ {1} PROVE i - 1 \in B /\ i \in Nat
  <2>1. i - 1 \in DOMAIN next /\ i \in Nat
    BY <1>0, <1>1
  <2>2. next[i - 1] = s[(i - 1) + 1] /\ (i - 1) + 1 = i
    BY <1>1, <2>1
  <2>3. QED
    BY <1>0, <2>1, <2>2
<1>3. shift \in [A \ {1} -> B]
  BY <1>2
<1>4. \A i, j \in A \ {1} : shift[i] = shift[j] => i = j
  BY <1>2
<1>5. ASSUME NEW k \in B PROVE \E i \in A \ {1} : shift[i] = k
  <2>1. k + 1 \in A \ {1} /\ k \in Nat
    BY <1>0, <1>1
  <2>2. shift[k + 1] = k
    BY <2>1
  <2>3. QED
    BY <2>1, <2>2
<1>6. shift \in Bijection(A \ {1}, B)
  BY <1>3, <1>4, <1>5 DEF Bijection, Injection, Surjection, IsInjective
<1>7. IsFiniteSet(A \ {1})
  BY <1>0, FS_RemoveElement
<1>8. ExistsBijection(A \ {1}, B)
  BY <1>6 DEF ExistsBijection
<1>9. QED
  BY <1>0, <1>7, <1>8, FS_Bijection
\* What a consumer has popped is what it has in its hand.
LEMMA InHands == ASSUME NEW v \in Items PROVE Popped(v) = {c \in Consumers : InHand(c) = v}
BY DEF Popped, InHand

\* A line is a consumer and a value.
LEMMA Lines ==
    ASSUME Values
    PROVE  /\ \A i \in DOMAIN printed : printed[i].by \in Consumers /\ printed[i].value \in Nat
           /\ Len(printed) \in Nat /\ DOMAIN printed = 1 .. Len(printed)
<1>1. PICK S : S = [by : Consumers, value : Nat]
  OBVIOUS
<1>2. printed \in Seq(S)
  BY <1>1 DEF Values
<1>3. Len(printed) \in Nat /\ DOMAIN printed = 1 .. Len(printed)
  BY <1>2, LenProperties
<1>4. \A i \in DOMAIN printed : printed[i] \in S
  BY <1>2, <1>3, ElementOfSeq
<1>5. QED
  BY <1>1, <1>3, <1>4

\* A step that leaves the values where they are keeps what is said of them.
LEMMA SamePlaces ==
    ASSUME Values, Once, Ordered, UNCHANGED <<counter, pushed, queue, printed>>,
           \A p \in Producers : reg'[p] = reg[p],
           \A c \in Consumers : InHand(c)' = InHand(c)
    PROVE  Values' /\ Once' /\ Ordered'
<1>1. Iterations' = Iterations /\ \A p \in Producers : Own(p)' = Own(p)
  BY DEF Iterations, Own
<1>2. Values'
  <2>1. \A p \in Producers :
            /\ Len(pushed[p]) <= PerProducer
            /\ Own(p)' \subseteq 0 .. counter - 1
            /\ \A q \in Producers \ {p} : Own(p)' \cap Own(q)' = {}
            /\ reg'[p] \in Own(p)' \cup {NoItem}
    BY <1>1 DEF Values
  <2>2. QED
    BY <1>1, <2>1 DEF Values
<1>3. ASSUME NEW v \in 0 .. Total - 1 PROVE PlacesOf(v)' = PlacesOf(v)
  <2>1. Popped(v) = {c \in Consumers : InHand(c) = v} /\ Popped(v)' = {c \in Consumers : InHand(c)' = v}
    BY ProgramAssumption, ItemsAssumption DEF Popped, InHand
  <2>2. Popped(v)' = Popped(v)
    BY <2>1
  <2>3. /\ InPush(v)' = InPush(v) /\ InQueue(v)' = InQueue(v) /\ Written(v)' = Written(v)
    BY DEF InPush, InQueue, Written
  <2>4. QED
    BY <2>2, <2>3 DEF PlacesOf, InPush, InQueue, Popped, Written
<1>4. Once'
  BY <1>3 DEF Once
<1>5. Ordered'
  <2>1. \A v, w : InOrder(v, w) <=> \A p \in Producers : v \in Own(p) /\ w \in Own(p) => v < w
    BY DEF InOrder
  <2>2. ASSUME NEW i \in DOMAIN printed PROVE InHand(printed[i].by)' = InHand(printed[i].by)
    <3>1. printed[i].by \in Consumers /\ printed' = printed
      BY Lines
    <3>2. QED
      BY <3>1
  <2>3. QED
    BY <1>1, <2>2 DEF Ordered, InOrder
<1>6. QED
  BY <1>2, <1>4, <1>5
\* The next value is new, and larger than all the others.
LEMMA Draws ==
    ASSUME MainIInv, NEW p \in Producers, ProducerPush(p)
    PROVE  Values' /\ Once' /\ Ordered'
<1>1. Roles /\ Values /\ Once /\ Ordered /\ TypeOK
  BY DEF MainIInv, IInv
<1>2. /\ reg[p] = NoItem /\ Len(pushed[p]) < PerProducer
      /\ counter' = counter + 1 /\ pushed' = [pushed EXCEPT ![p] = Append(@, counter)]
      /\ reg' = [reg EXCEPT ![p] = counter]
      /\ UNCHANGED <<queue, run, printed>>
  BY <1>1 DEF ProducerPush, PushCall, Goto, Roles, PushPC
<1>3. counter \in 0 .. Total - 1 /\ counter \in Nat /\ Total \in Nat /\ IsFiniteSet(Iterations)
  BY <1>1, <1>2, CounterBound
<1>4. 0 .. counter \subseteq Items /\ NoItem \notin 0 .. counter
  BY <1>3, ProgramAssumption, ItemsAssumption
<1>5. p \in Threads /\ \A c \in Consumers : c # p /\ c \in Threads
  BY ProgramAssumption
<1>6. /\ reg'[p] = counter /\ \A q \in Producers \ {p} : reg'[q] = reg[q]
      /\ \A c \in Consumers : InHand(c)' = InHand(c) /\ reg'[c] = reg[c]
  BY <1>1, <1>2, <1>5, ProgramAssumption DEF TypeOK, InHand
<1>7. /\ pushed[p] \in Seq(Nat) /\ Len(pushed[p]) \in Nat /\ DOMAIN pushed[p] = 1 .. Len(pushed[p])
      /\ pushed' \in [Producers -> Seq(Nat)] /\ pushed'[p] = Append(pushed[p], counter)
      /\ \A q \in Producers \ {p} : pushed'[q] = pushed[q]
  <2>1. pushed[p] \in Seq(Nat)
    BY <1>1 DEF Values
  <2>2. QED
    BY <1>1, <1>2, <1>3, <2>1, AppendProperties, LenProperties DEF Values
<1>8. /\ Len(pushed'[p]) = Len(pushed[p]) + 1
      /\ Own(p)' = Own(p) \cup {counter} /\ \A q \in Producers \ {p} : Own(q)' = Own(q)
  <2>1. PICK old, new : /\ old = pushed[p] /\ new = pushed'[p] /\ new = Append(old, counter)
                        /\ old \in Seq(Nat) /\ counter \in Nat
    BY <1>3, <1>7
  <2>2. /\ DOMAIN new = DOMAIN old \cup {Len(old) + 1} /\ new[Len(old) + 1] = counter
        /\ \A k \in DOMAIN old : new[k] = old[k]
        /\ Len(old) + 1 \notin DOMAIN old
    BY ONLY <2>1, AppendPlaces
  <2>3. {new[k] : k \in DOMAIN new} = {old[k] : k \in DOMAIN old} \cup {counter}
    <3>1. PICK n : n = Len(old) + 1
      OBVIOUS
    <3>2. /\ DOMAIN new = DOMAIN old \cup {n} /\ new[n] = counter
          /\ \A k \in DOMAIN old : new[k] = old[k]
      BY <2>2, <3>1
    <3>3. QED
      BY ONLY <3>2
  <2>4. Len(new) = Len(old) + 1
    BY <1>3, <1>7, <2>1, AppendProperties
  <2>5. QED
    <3>1. Own(p)' = {new[k] : k \in DOMAIN new} /\ Own(p) = {old[k] : k \in DOMAIN old}
      BY <2>1 DEF Own
    <3>2. \A q \in Producers \ {p} : Own(q)' = Own(q)
      BY <1>7 DEF Own
    <3>3. QED
      BY <2>1, <2>3, <2>4, <3>1, <3>2
<1>9. Values'
  <2>1. counter' = Cardinality(Iterations')
    <3>1. PICK i \in Producers \X (1 .. PerProducer) : i = <<p, Len(pushed[p]) + 1>>
      <4>1. Len(pushed[p]) + 1 \in 1 .. PerProducer
        BY <1>2, <1>7, ProgramAssumption
      <4>2. QED
        BY <4>1
    <3>2. i \notin Iterations /\ i \in Iterations'
      BY <1>7, <1>8, <3>1 DEF Iterations
    <3>3. ASSUME NEW j \in Producers \X (1 .. PerProducer), j # i
          PROVE  j[2] <= Len(pushed'[j[1]]) <=> j[2] <= Len(pushed[j[1]])
      <4>1. j[1] \in Producers /\ j[2] \in Nat /\ (j[1] = p => j[2] # Len(pushed[p]) + 1)
        BY <3>1, <3>3
      <4>2. QED
        BY <1>7, <1>8, <4>1
    <3>4. Iterations' = Iterations \cup {i}
      BY <3>2, <3>3 DEF Iterations
    <3>5. QED
      BY <1>1, <1>2, <1>3, <3>2, <3>4, OneMore DEF Values
  <2>2. \A q \in Producers :
            /\ Len(pushed'[q]) <= PerProducer
            /\ Own(q)' \subseteq 0 .. counter
            /\ \A r \in Producers \ {q} : Own(q)' \cap Own(r)' = {}
            /\ reg'[q] \in Own(q)' \cup {NoItem}
    <3>1. \A q \in Producers : Own(q) \subseteq 0 .. counter - 1 /\ counter \notin Own(q)
      BY <1>1, <1>3 DEF Values
    <3>2. \A q \in Producers : Len(pushed'[q]) <= PerProducer
      BY <1>1, <1>2, <1>7, <1>8, ProgramAssumption DEF Values
    <3>3. ASSUME NEW q \in Producers
          PROVE  Own(q)' \subseteq 0 .. counter /\ reg'[q] \in Own(q)' \cup {NoItem}
      <4>1. Own(q)' \subseteq Own(q) \cup {counter}
        BY <1>8
      <4>2. Own(q)' \subseteq 0 .. counter
        BY <1>3, <3>1, <4>1
      <4>3. CASE q = p
        BY <1>6, <1>8, <4>2, <4>3
      <4>4. CASE q # p
        BY <1>1, <1>6, <1>8, <4>2, <4>4 DEF Values
      <4>5. QED
        BY <4>3, <4>4
    <3>4. ASSUME NEW q \in Producers, NEW r \in Producers \ {q} PROVE Own(q)' \cap Own(r)' = {}
      <4>1. Own(q) \cap Own(r) = {}
        BY <1>1 DEF Values
      <4>2. CASE q = p
        BY <1>8, <3>1, <4>1, <4>2
      <4>3. CASE r = p
        BY <1>8, <3>1, <4>1, <4>3
      <4>4. CASE q # p /\ r # p
        BY <1>8, <4>1, <4>4
      <4>5. QED
        BY <4>2, <4>3, <4>4
    <3>5. QED
      BY <3>2, <3>3, <3>4
  <2>3. \A i \in DOMAIN queue : queue[i] < counter + 1
    BY <1>1, <1>3, LenProperties, ElementOfSeq DEF Values
  <2>4. \A i \in DOMAIN printed : printed[i].value < counter + 1
    BY <1>1, <1>3, Lines DEF Values
  <2>5. \A c \in Consumers : InHand(c)' \in (0 .. (counter + 1) - 1) \cup {NoItem}
    BY <1>1, <1>3, <1>6 DEF Values
  <2>6. (counter + 1) - 1 = counter
    BY <1>3
  <2>7. QED
    BY <1>1, <1>2, <1>7, <2>1, <2>2, <2>3, <2>4, <2>5, <2>6 DEF Values
<1>10. Once'
  <2> SUFFICES ASSUME NEW v \in 0 .. Total - 1
               PROVE  PlacesOf(v)' = IF v < counter + 1 THEN 1 ELSE 0
    BY <1>2 DEF Once
  <2>1. /\ IsFiniteSet(InPush(v)) /\ Cardinality(InPush(v)) \in Nat /\ Cardinality(InQueue(v)) \in Nat
        /\ Cardinality(Popped(v)) \in Nat /\ Cardinality(Written(v)) \in Nat
    BY <1>1, PlacesAreFinite
  <2>2. PlacesOf(v) = IF v < counter THEN 1 ELSE 0
    BY <1>1 DEF Once
  <2>3. /\ PlacesOf(v) = Cardinality(InPush(v)) + Cardinality(InQueue(v)) + Cardinality(Popped(v)) + Cardinality(Written(v))
        /\ PlacesOf(v)' = Cardinality(InPush(v)') + Cardinality(InQueue(v)') + Cardinality(Popped(v)') + Cardinality(Written(v)')
    BY DEF PlacesOf, InPush, InQueue, Popped, Written
  <2>4. InQueue(v)' = InQueue(v) /\ Popped(v)' = Popped(v) /\ Written(v)' = Written(v)
    BY <1>2, <1>6 DEF InQueue, Popped, Written
  <2>5. CASE v = counter
    <3>1. InPush(v)' = InPush(v) \cup {p} /\ p \notin InPush(v)
      BY <1>2, <1>4, <1>6, <2>5 DEF InPush
    <3>2. Cardinality(InPush(v)') = Cardinality(InPush(v)) + 1
      BY <2>1, <3>1, OneMore
    <3>3. QED
      BY <1>3, <2>1, <2>2, <2>3, <2>4, <2>5, <3>2
  <2>6. CASE v # counter
    <3>1. InPush(v)' = InPush(v)
      BY <1>2, <1>4, <1>6, <2>6, ItemsAssumption, ProgramAssumption DEF InPush
    <3>2. QED
      BY <1>3, <2>2, <2>3, <2>4, <2>6, <3>1
  <2>7. QED
    BY <2>5, <2>6
<1>11. Ordered'
  <2>1. ASSUME NEW v \in (0 .. counter - 1) \cup {NoItem}, NEW w \in (0 .. counter - 1) \cup {NoItem},
               InOrder(v, w)
        PROVE  \A q \in Producers : v \in Own(q)' /\ w \in Own(q)' => v < w
    <3>1. v # counter /\ w # counter
      BY <1>3, <1>4
    <3>2. QED
      BY <1>8, <2>1, <3>1 DEF InOrder
  <2>2. ASSUME NEW v \in (0 .. counter - 1) \cup {NoItem}, NEW q \in Producers, v \in Own(q)'
        PROVE  v < counter
    <3>1. Own(q)' \subseteq 0 .. counter
      BY <1>1, <1>3, <1>8 DEF Values
    <3>2. QED
      BY <1>3, <1>4, <2>2, <3>1
  <2>3. /\ \A i \in DOMAIN queue : queue[i] \in (0 .. counter - 1) \cup {NoItem}
        /\ \A i \in DOMAIN printed : printed[i].value \in (0 .. counter - 1) \cup {NoItem}
        /\ \A c \in Consumers : InHand(c) \in (0 .. counter - 1) \cup {NoItem}
        /\ \A q \in Producers : reg[q] \in (0 .. counter - 1) \cup {NoItem}
    <3>1. \A i \in DOMAIN queue : queue[i] \in Nat
      BY <1>1, LenProperties, ElementOfSeq DEF Values
    <3>2. \A i \in DOMAIN printed : printed[i].value \in Nat
      BY <1>1, Lines
    <3>3. QED
      BY <1>1, <1>3, <3>1, <3>2 DEF Values
  <2>4. \A i \in DOMAIN printed : printed[i].by \in Consumers
    BY <1>1, Lines
  <2> DEFINE Olds == (0 .. counter - 1) \cup {NoItem}
             After(v, w) == \A q \in Producers : v \in Own(q)' /\ w \in Own(q)' => v < w
  <2>5. \A v, w \in Olds : InOrder(v, w) => After(v, w)
    BY <2>1
  <2>6. \A v \in Olds : After(v, reg'[p])
    BY <1>6, <2>2
  <2> HIDE DEF Olds, After
  <2>7. /\ \A i, j \in DOMAIN queue : i < j => After(queue[i], queue[j])
        /\ \A c \in Consumers : \A i \in DOMAIN queue : After(InHand(c), queue[i])
    BY <1>1, <2>3, <2>5 DEF Ordered, Olds
  <2>8. \A i \in DOMAIN printed :
          /\ \A j \in DOMAIN queue : After(printed[i].value, queue[j])
          /\ After(printed[i].value, InHand(printed[i].by))
          /\ \A j \in DOMAIN printed : i < j /\ printed[i].by = printed[j].by
                => After(printed[i].value, printed[j].value)
    BY <1>1, <2>3, <2>4, <2>5 DEF Ordered, Olds
  <2>9. \A q \in Producers :
          /\ \A i \in DOMAIN queue : After(queue[i], reg'[q])
          /\ \A c \in Consumers : After(InHand(c), reg'[q])
          /\ \A i \in DOMAIN printed : After(printed[i].value, reg'[q])
    <3>1. ASSUME NEW q \in Producers, q # p, NEW v \in Olds, InOrder(v, reg[q])
          PROVE  After(v, reg'[q])
      BY <1>6, <2>3, <2>5, <3>1 DEF Olds
    <3>2. ASSUME NEW q \in Producers, q # p
          PROVE  /\ \A i \in DOMAIN queue : After(queue[i], reg'[q])
                 /\ \A c \in Consumers : After(InHand(c), reg'[q])
                 /\ \A i \in DOMAIN printed : After(printed[i].value, reg'[q])
      BY <1>1, <2>3, <3>1, <3>2 DEF Ordered, Olds
    <3>3. /\ \A i \in DOMAIN queue : After(queue[i], reg'[p])
          /\ \A c \in Consumers : After(InHand(c), reg'[p])
          /\ \A i \in DOMAIN printed : After(printed[i].value, reg'[p])
      BY <2>3, <2>6 DEF Olds
    <3>4. QED
      BY <3>2, <3>3
  <2>10. \A i \in DOMAIN printed : InHand(printed[i].by)' = InHand(printed[i].by)
    BY <1>6, <2>4, <1>2
  <2>11. QED
    BY <1>2, <1>6, <2>7, <2>8, <2>9, <2>10 DEF Ordered, InOrder, After
<1>12. QED
  BY <1>9, <1>10, <1>11
\* While the producers own the same values, what is in order stays in order.
LEMMA SameOwners ==
    ASSUME Values, UNCHANGED <<pushed, counter>>
    PROVE  /\ \A p \in Producers : Own(p)' = Own(p) /\ Own(p) \subseteq 0 .. counter - 1
           /\ \A p \in Producers : NoItem \notin Own(p)
           /\ Iterations' = Iterations /\ counter \in Nat
<1>1. counter \in Nat /\ Total \in Nat /\ counter <= Total
  BY CounterBound
<1>2. 0 .. counter - 1 \subseteq Items
  BY <1>1, ProgramAssumption
<1>3. \A p \in Producers : Own(p)' = Own(p) /\ Own(p) \subseteq 0 .. counter - 1
  BY DEF Values, Own
<1>4. QED
  BY <1>1, <1>2, <1>3, ItemsAssumption DEF Iterations

\* The value a producer holds becomes the last of the queue.
LEMMA Stores ==
    ASSUME MainIInv, NEW p \in Producers, PushStore(p), UNCHANGED mainVars
    PROVE  Values' /\ Once' /\ Ordered'
<1>1. Roles /\ Values /\ Once /\ Ordered /\ TypeOK
  BY DEF MainIInv, IInv
<1>2. /\ reg[p] # NoItem
      /\ queue' = Append(queue, reg[p]) /\ reg' = [reg EXCEPT ![p] = NoItem]
      /\ UNCHANGED <<counter, pushed, run, printed>>
  BY <1>1 DEF PushStore, Goto, Roles, mainVars
<1>3. /\ \A q \in Producers : Own(q)' = Own(q) /\ Own(q) \subseteq 0 .. counter - 1
      /\ \A q \in Producers : NoItem \notin Own(q)
      /\ Iterations' = Iterations /\ counter \in Nat
  BY <1>1, <1>2, SameOwners
<1>4. PICK x \in Own(p) : x = reg[p] /\ x \in Nat /\ x < counter
  BY <1>1, <1>2, <1>3 DEF Values
<1>5. p \in Threads /\ \A c \in Consumers : c # p /\ c \in Threads
  BY ProgramAssumption
<1>6. /\ reg'[p] = NoItem /\ \A q \in Producers \ {p} : reg'[q] = reg[q]
      /\ \A c \in Consumers : InHand(c)' = InHand(c) /\ reg'[c] = reg[c]
  BY <1>1, <1>2, <1>5, ProgramAssumption DEF TypeOK, InHand
<1>7. PICK n : /\ n = Len(queue) + 1 /\ n \notin DOMAIN queue /\ queue' \in Seq(Nat)
               /\ DOMAIN queue' = DOMAIN queue \cup {n} /\ queue'[n] = x
               /\ \A i \in DOMAIN queue : queue'[i] = queue[i] /\ i < n /\ ~(n < i)
  <2>1. queue \in Seq(Nat) /\ queue' = Append(queue, x) /\ DOMAIN queue = 1 .. Len(queue) /\ Len(queue) \in Nat
    BY <1>1, <1>2, <1>4, LenProperties DEF Values
  <2>2. QED
    BY <1>4, <2>1, AppendPlaces
<1>8. Values'
  <2>1. \A q \in Producers :
            /\ Len(pushed[q]) <= PerProducer
            /\ Own(q)' \subseteq 0 .. counter - 1
            /\ \A r \in Producers \ {q} : Own(q)' \cap Own(r)' = {}
            /\ reg'[q] \in Own(q)' \cup {NoItem}
    <3>1. \A q \in Producers :
              /\ Len(pushed[q]) <= PerProducer
              /\ \A r \in Producers \ {q} : Own(q) \cap Own(r) = {}
              /\ reg[q] \in Own(q) \cup {NoItem}
      BY <1>1 DEF Values
    <3>2. \A q \in Producers : reg'[q] \in Own(q) \cup {NoItem}
      BY <1>6, <3>1
    <3>3. QED
      BY <1>3, <3>1, <3>2
  <2>2. \A i \in DOMAIN queue' : queue'[i] < counter
    BY <1>1, <1>4, <1>7 DEF Values
  <2>3. QED
    BY <1>1, <1>2, <1>3, <1>6, <1>7, <2>1, <2>2 DEF Values
<1>9. Once'
  <2> SUFFICES ASSUME NEW v \in 0 .. Total - 1
               PROVE  PlacesOf(v)' = IF v < counter THEN 1 ELSE 0
    BY <1>2 DEF Once
  <2>1. /\ IsFiniteSet(InPush(v)) /\ Cardinality(InPush(v)) \in Nat
        /\ IsFiniteSet(InQueue(v)) /\ Cardinality(InQueue(v)) \in Nat
        /\ Cardinality(Popped(v)) \in Nat /\ Cardinality(Written(v)) \in Nat
    BY <1>1, PlacesAreFinite
  <2>2. PlacesOf(v) = IF v < counter THEN 1 ELSE 0
    BY <1>1 DEF Once
  <2>3. /\ PlacesOf(v) = Cardinality(InPush(v)) + Cardinality(InQueue(v)) + Cardinality(Popped(v)) + Cardinality(Written(v))
        /\ PlacesOf(v)' = Cardinality(InPush(v)') + Cardinality(InQueue(v)') + Cardinality(Popped(v)') + Cardinality(Written(v)')
    BY DEF PlacesOf, InPush, InQueue, Popped, Written
  <2>4. Popped(v)' = Popped(v) /\ Written(v)' = Written(v) /\ v # NoItem
    BY <1>2, <1>6, ProgramAssumption, ItemsAssumption DEF Popped, Written
  <2>5. CASE v = x
    <3>1. InPush(v)' = InPush(v) \ {p} /\ p \in InPush(v)
      BY <1>4, <1>6, <2>4, <2>5 DEF InPush
    <3>2. InQueue(v)' = InQueue(v) \cup {n} /\ n \notin InQueue(v)
      BY <1>7, <2>5 DEF InQueue
    <3>3. Cardinality(InPush(v)') = Cardinality(InPush(v)) - 1
      BY <2>1, <3>1, OneLess
    <3>4. Cardinality(InQueue(v)') = Cardinality(InQueue(v)) + 1
      BY <2>1, <3>2, OneMore
    <3>5. QED
      BY <2>1, <2>2, <2>3, <2>4, <3>3, <3>4
  <2>6. CASE v # x
    <3>1. InPush(v)' = InPush(v)
      BY <1>4, <1>6, <2>4, <2>6 DEF InPush
    <3>2. InQueue(v)' = InQueue(v)
      BY <1>7, <2>6 DEF InQueue
    <3>3. QED
      BY <2>2, <2>3, <2>4, <3>1, <3>2
  <2>7. QED
    BY <2>5, <2>6
<1>10. Ordered'
  <2>1. \A v, w : InOrder(v, w) => \A q \in Producers : v \in Own(q)' /\ w \in Own(q)' => v < w
    BY <1>3 DEF InOrder
  <2> DEFINE After(v, w) == \A q \in Producers : v \in Own(q)' /\ w \in Own(q)' => v < w
  <2>2. /\ \A v, w : InOrder(v, w) => After(v, w)
        /\ \A v : After(v, NoItem)
    BY <1>3, <2>1
  <2>3. ASSUME NEW q \in Producers, q # p PROVE After(x, reg[q])
    <3>1. /\ \A r, u \in Producers : r # u => Own(r) \cap Own(u) = {}
          /\ reg[q] \in Own(q) \cup {NoItem}
      BY <1>1 DEF Values
    <3>2. ~\E r \in Producers : x \in Own(r) /\ reg[q] \in Own(r)
      BY <1>3, <2>3, <3>1
    <3>3. QED
      BY <1>3, <3>2
  <2> HIDE DEF After
  <2>4. \A i, j \in DOMAIN queue' : i < j => After(queue'[i], queue'[j])
    BY <1>1, <1>4, <1>7, <2>2 DEF Ordered
  <2>5. \A c \in Consumers : \A i \in DOMAIN queue' : After(InHand(c), queue'[i])
    BY <1>1, <1>4, <1>7, <2>2 DEF Ordered
  <2>6. \A i \in DOMAIN printed :
          /\ \A j \in DOMAIN queue' : After(printed[i].value, queue'[j])
          /\ After(printed[i].value, InHand(printed[i].by))
          /\ \A j \in DOMAIN printed : i < j /\ printed[i].by = printed[j].by
                => After(printed[i].value, printed[j].value)
    BY <1>1, <1>4, <1>7, <2>2 DEF Ordered
  <2>7. \A q \in Producers :
          /\ \A i \in DOMAIN queue' : After(queue'[i], reg'[q])
          /\ \A c \in Consumers : After(InHand(c), reg'[q])
          /\ \A i \in DOMAIN printed : After(printed[i].value, reg'[q])
    <3>1. ASSUME NEW q \in Producers, q # p
          PROVE  /\ \A i \in DOMAIN queue' : After(queue'[i], reg[q])
                 /\ \A c \in Consumers : After(InHand(c), reg[q])
                 /\ \A i \in DOMAIN printed : After(printed[i].value, reg[q])
      BY <1>1, <1>7, <2>2, <2>3, <3>1 DEF Ordered
    <3>2. QED
      BY <1>6, <2>2, <3>1
  <2>8. \A i \in DOMAIN printed : InHand(printed[i].by)' = InHand(printed[i].by)
    BY <1>1, <1>2, <1>6, Lines
  <2>9. QED
    BY <1>2, <1>6, <2>4, <2>5, <2>6, <2>7, <2>8 DEF Ordered, InOrder, After
<1>11. QED
  BY <1>8, <1>9, <1>10
\* The first value of the queue gets into a consumer's hand.
LEMMA Takes ==
    ASSUME MainIInv, NEW c \in Consumers, PopTake(c), UNCHANGED mainVars
    PROVE  Values' /\ Once' /\ Ordered'
<1>1. Roles /\ Values /\ Once /\ Ordered /\ TypeOK /\ CriticalSections
  BY DEF MainIInv, IInv
<1>2. c \in Threads /\ \A d \in Consumers : d \in Threads
  BY ProgramAssumption
<1>3. /\ queue # <<>> /\ reg[c] = NoItem /\ run[c] = "popping"
      /\ queue' = Tail(queue) /\ reg' = [reg EXCEPT ![c] = Head(queue)]
      /\ UNCHANGED <<counter, pushed, run, printed>>
  BY <1>1, <1>2 DEF PopTake, Goto, Roles, CriticalSections, mainVars
<1>4. /\ \A q \in Producers : Own(q)' = Own(q) /\ Own(q) \subseteq 0 .. counter - 1
      /\ \A q \in Producers : NoItem \notin Own(q)
      /\ Iterations' = Iterations /\ counter \in Nat
  BY <1>1, <1>3, SameOwners
<1>5. PICK x \in Nat : /\ x = Head(queue) /\ x = queue[1] /\ 1 \in DOMAIN queue
                       /\ queue' \in Seq(Nat)
                       /\ DOMAIN queue \subseteq Nat \ {0} /\ DOMAIN queue' \subseteq Nat \ {0}
                       /\ \A i \in DOMAIN queue' : /\ i + 1 \in DOMAIN queue
                                                   /\ queue'[i] = queue[i + 1] /\ i + 1 > 1
  <2>1. PICK s, next : s = queue /\ next = queue' /\ s \in Seq(Nat) /\ s # <<>> /\ next = Tail(s)
    BY <1>1, <1>3 DEF Values
  <2>2. /\ next \in Seq(Nat) /\ Head(s) = s[1] /\ 1 \in DOMAIN s /\ s[1] \in Nat
        /\ DOMAIN s \subseteq Nat \ {0} /\ DOMAIN next \subseteq Nat \ {0}
        /\ \A i \in DOMAIN next : i + 1 \in DOMAIN s /\ next[i] = s[i + 1] /\ i + 1 > 1
    BY <2>1, TailPlaces
  <2>3. QED
    BY <2>1, <2>2
<1>6. x < counter /\ x # NoItem /\ x \in 0 .. counter - 1
  <2>1. x < counter /\ counter <= Total /\ Total \in Nat
    BY <1>1, <1>5, CounterBound DEF Values
  <2>2. x \in Items
    BY <1>4, <2>1, ProgramAssumption
  <2>3. QED
    BY <1>4, <2>1, <2>2, ItemsAssumption
<1>7. /\ \A q \in Producers : reg'[q] = reg[q]
      /\ reg'[c] = x /\ InHand(c)' = x /\ InHand(c) = NoItem
      /\ \A d \in Consumers \ {c} : reg'[d] = reg[d] /\ InHand(d)' = InHand(d)
  BY <1>1, <1>2, <1>3, <1>5, ProgramAssumption DEF TypeOK, InHand
<1>8. Values'
  <2>1. \A q \in Producers :
            /\ Len(pushed[q]) <= PerProducer
            /\ Own(q)' \subseteq 0 .. counter - 1
            /\ \A r \in Producers \ {q} : Own(q)' \cap Own(r)' = {}
            /\ reg'[q] \in Own(q)' \cup {NoItem}
    <3>1. \A q \in Producers :
              /\ Len(pushed[q]) <= PerProducer
              /\ \A r \in Producers \ {q} : Own(q) \cap Own(r) = {}
              /\ reg[q] \in Own(q) \cup {NoItem}
      BY <1>1 DEF Values
    <3>2. QED
      BY <1>4, <1>7, <3>1
  <2>2. \A i \in DOMAIN queue' : queue'[i] < counter
    BY <1>1, <1>5 DEF Values
  <2>3. \A d \in Consumers : InHand(d)' \in (0 .. counter - 1) \cup {NoItem}
    <3>1. \A d \in Consumers : InHand(d) \in (0 .. counter - 1) \cup {NoItem}
      BY <1>1 DEF Values
    <3>2. QED
      BY <1>6, <1>7, <3>1
  <2>4. /\ counter = Cardinality(Iterations) /\ pushed \in [Producers -> Seq(Nat)]
        /\ printed \in Seq([by : Consumers, value : Nat])
        /\ \A i \in DOMAIN printed : printed[i].value < counter
    BY <1>1 DEF Values
  <2>5. QED
    BY <1>3, <1>4, <1>5, <2>1, <2>2, <2>3, <2>4 DEF Values
<1>9. Once'
  <2> SUFFICES ASSUME NEW v \in 0 .. Total - 1
               PROVE  PlacesOf(v)' = IF v < counter THEN 1 ELSE 0
    BY <1>3 DEF Once
  <2>1. /\ IsFiniteSet(InQueue(v)) /\ Cardinality(InPush(v)) \in Nat /\ Cardinality(InQueue(v)) \in Nat
        /\ IsFiniteSet(Popped(v)) /\ Cardinality(Popped(v)) \in Nat /\ Cardinality(Written(v)) \in Nat
    BY <1>1, PlacesAreFinite
  <2>2. PlacesOf(v) = IF v < counter THEN 1 ELSE 0
    BY <1>1 DEF Once
  <2>3. /\ PlacesOf(v) = Cardinality(InPush(v)) + Cardinality(InQueue(v)) + Cardinality(Popped(v)) + Cardinality(Written(v))
        /\ PlacesOf(v)' = Cardinality(InPush(v)') + Cardinality(InQueue(v)') + Cardinality(Popped(v)') + Cardinality(Written(v)')
    BY DEF PlacesOf, InPush, InQueue, Popped, Written
  <2>4. InPush(v)' = InPush(v) /\ Written(v)' = Written(v) /\ v # NoItem
    BY <1>3, <1>7, ProgramAssumption, ItemsAssumption DEF InPush, Written
  <2>5. Cardinality(InQueue(v)') = Cardinality(InQueue(v) \ {1})
    BY <1>1, <1>3, TailCounts
  <2>6. CASE v = x
    <3>1. Popped(v)' = Popped(v) \cup {c} /\ c \notin Popped(v)
      BY <1>3, <1>7, <2>4, <2>6 DEF Popped
    <3>2. 1 \in InQueue(v)
      BY <1>5, <2>6 DEF InQueue
    <3>3. Cardinality(InQueue(v) \ {1}) = Cardinality(InQueue(v)) - 1
      BY <2>1, <3>2, OneLess
    <3>4. Cardinality(Popped(v)') = Cardinality(Popped(v)) + 1
      BY <2>1, <3>1, OneMore
    <3>5. QED
      BY <2>1, <2>2, <2>3, <2>4, <2>5, <3>3, <3>4
  <2>7. CASE v # x
    <3>1. Popped(v)' = Popped(v)
      BY <1>3, <1>7, <2>4, <2>7 DEF Popped
    <3>2. InQueue(v) \ {1} = InQueue(v)
      BY <1>5, <2>7 DEF InQueue
    <3>3. QED
      BY <2>2, <2>3, <2>4, <2>5, <3>1, <3>2
  <2>8. QED
    BY <2>6, <2>7
<1>10. Ordered'
  <2> DEFINE After(v, w) == \A q \in Producers : v \in Own(q)' /\ w \in Own(q)' => v < w
  <2>1. \A v, w : InOrder(v, w) => After(v, w)
    BY <1>4 DEF InOrder
  <2> HIDE DEF After
  <2>2. \A i, j \in DOMAIN queue' : i < j => After(queue'[i], queue'[j])
    <3>1. ASSUME NEW i \in DOMAIN queue', NEW j \in DOMAIN queue', i < j
          PROVE  After(queue'[i], queue'[j])
      <4>1. /\ i + 1 \in DOMAIN queue /\ j + 1 \in DOMAIN queue /\ i + 1 < j + 1
            /\ queue'[i] = queue[i + 1] /\ queue'[j] = queue[j + 1]
        BY <1>5, <3>1
      <4>2. InOrder(queue[i + 1], queue[j + 1])
        BY <1>1, <4>1 DEF Ordered
      <4>3. QED
        BY <2>1, <4>1, <4>2
    <3>2. QED
      BY <3>1
  <2>3. \A d \in Consumers : \A i \in DOMAIN queue' : After(InHand(d)', queue'[i])
    <3>1. ASSUME NEW i \in DOMAIN queue' PROVE InOrder(x, queue'[i])
      BY <1>1, <1>5 DEF Ordered
    <3>2. ASSUME NEW d \in Consumers, d # c, NEW i \in DOMAIN queue' PROVE InOrder(InHand(d), queue'[i])
      BY <1>1, <1>5 DEF Ordered
    <3>3. QED
      BY <1>7, <2>1, <3>1, <3>2
  <2>4. ASSUME NEW i \in DOMAIN printed
        PROVE  /\ \A j \in DOMAIN queue' : After(printed[i].value, queue'[j])
               /\ After(printed[i].value, InHand(printed[i].by)')
               /\ \A j \in DOMAIN printed : i < j /\ printed[i].by = printed[j].by
                      => After(printed[i].value, printed[j].value)
    <3>1. /\ \A j \in DOMAIN queue : InOrder(printed[i].value, queue[j])
          /\ InOrder(printed[i].value, InHand(printed[i].by)) /\ printed[i].by \in Consumers
          /\ \A j \in DOMAIN printed : i < j /\ printed[i].by = printed[j].by
                => InOrder(printed[i].value, printed[j].value)
      BY <1>1, Lines DEF Ordered
    <3>2. \A j \in DOMAIN queue' : InOrder(printed[i].value, queue'[j])
      BY <1>5, <3>1
    <3>3. After(printed[i].value, InHand(printed[i].by)')
      <4>1. PICK d \in Consumers : d = printed[i].by
        BY <3>1
      <4>2. InHand(printed[i].by)' = InHand(d)' /\ InHand(printed[i].by) = InHand(d)
        BY <1>3, <4>1
      <4>3. InOrder(printed[i].value, x)
        BY <1>5, <3>1
      <4>4. QED
        BY <1>7, <2>1, <3>1, <4>2, <4>3
    <3>4. QED
      BY <2>1, <3>1, <3>2, <3>3
  <2>5. ASSUME NEW q \in Producers
        PROVE  /\ \A i \in DOMAIN queue' : After(queue'[i], reg'[q])
               /\ \A d \in Consumers : After(InHand(d)', reg'[q])
               /\ \A i \in DOMAIN printed : After(printed[i].value, reg'[q])
    <3>1. /\ \A i \in DOMAIN queue : InOrder(queue[i], reg[q])
          /\ \A d \in Consumers : InOrder(InHand(d), reg[q])
          /\ \A i \in DOMAIN printed : InOrder(printed[i].value, reg[q])
      BY <1>1 DEF Ordered
    <3>2. \A d \in Consumers : InOrder(InHand(d)', reg[q])
      BY <1>5, <1>7, <3>1
    <3>3. \A i \in DOMAIN queue' : InOrder(queue'[i], reg[q])
      BY <1>5, <3>1
    <3>4. QED
      BY <1>7, <2>1, <3>1, <3>2, <3>3
  <2>6. QED
    BY <1>3, <2>2, <2>3, <2>4, <2>5 DEF Ordered, InOrder, After
<1>11. QED
  BY <1>8, <1>9, <1>10

\* The value in a consumer's hand becomes the last of the lines.
LEMMA Prints ==
    ASSUME MainIInv, NEW c \in Consumers, ConsumerPrint(c)
    PROVE  Values' /\ Once' /\ Ordered'
<1>1. Roles /\ Values /\ Once /\ Ordered /\ TypeOK
  BY DEF MainIInv, IInv
<1>2. c \in Threads /\ \A d \in Consumers : d \in Threads
  BY ProgramAssumption
<1>3. /\ run[c] = "popping" /\ reg[c] # NoItem
      /\ printed' = Append(printed, [by |-> c, value |-> reg[c]])
      /\ run' = [run EXCEPT ![c] = "loop"]
      /\ UNCHANGED <<counter, pushed, queue, reg>>
  BY DEF ConsumerPrint, Advance, vars
<1>4. /\ \A q \in Producers : Own(q)' = Own(q) /\ Own(q) \subseteq 0 .. counter - 1
      /\ \A q \in Producers : NoItem \notin Own(q)
      /\ Iterations' = Iterations /\ counter \in Nat
  BY <1>1, <1>3, SameOwners
<1>5. PICK x \in 0 .. counter - 1 : x = reg[c] /\ x = InHand(c) /\ x \in Nat /\ x < counter
  BY <1>1, <1>3, <1>4 DEF Values, InHand
<1>6. /\ InHand(c)' = NoItem /\ run'[c] = "loop"
      /\ \A d \in Consumers \ {c} : run'[d] = run[d] /\ InHand(d)' = InHand(d)
  BY <1>2, <1>3 DEF MainIInv, InHand
<1>7. PICK n : /\ n = Len(printed) + 1 /\ n \notin DOMAIN printed
               /\ printed' \in Seq([by : Consumers, value : Nat])
               /\ DOMAIN printed' = DOMAIN printed \cup {n}
               /\ printed'[n].by = c /\ printed'[n].value = x
               /\ \A i \in DOMAIN printed : printed'[i] = printed[i] /\ i < n /\ ~(n < i)
  <2>1. PICK S : S = [by : Consumers, value : Nat]
    OBVIOUS
  <2>2. PICK l \in S : l = [by |-> c, value |-> x]
    BY <1>5, <2>1
  <2>3. printed \in Seq(S) /\ printed' = Append(printed, l)
    BY <1>1, <1>3, <1>5, <2>1, <2>2 DEF Values
  <2>4. /\ printed' \in Seq(S) /\ Len(printed) + 1 \notin DOMAIN printed
        /\ DOMAIN printed' = DOMAIN printed \cup {Len(printed) + 1}
        /\ printed'[Len(printed) + 1] = l
        /\ \A i \in DOMAIN printed : printed'[i] = printed[i] /\ i < Len(printed) + 1
    BY <2>3, AppendPlaces
  <2>5. Len(printed) \in Nat /\ DOMAIN printed = 1 .. Len(printed)
    BY <1>1, Lines
  <2>6. QED
    BY <2>1, <2>2, <2>4, <2>5
<1>8. Values'
  <2>1. \A q \in Producers :
            /\ Len(pushed[q]) <= PerProducer
            /\ Own(q)' \subseteq 0 .. counter - 1
            /\ \A r \in Producers \ {q} : Own(q)' \cap Own(r)' = {}
            /\ reg[q] \in Own(q)' \cup {NoItem}
    <3>1. \A q \in Producers :
              /\ Len(pushed[q]) <= PerProducer
              /\ \A r \in Producers \ {q} : Own(q) \cap Own(r) = {}
              /\ reg[q] \in Own(q) \cup {NoItem}
      BY <1>1 DEF Values
    <3>2. QED
      BY <1>4, <3>1
  <2>2. \A i \in DOMAIN printed' : printed'[i].value < counter
    BY <1>1, <1>5, <1>7 DEF Values
  <2>3. \A d \in Consumers : InHand(d)' \in (0 .. counter - 1) \cup {NoItem}
    BY <1>1, <1>6 DEF Values
  <2>4. QED
    BY <1>1, <1>3, <1>4, <1>7, <2>1, <2>2, <2>3 DEF Values
<1>9. Once'
  <2> SUFFICES ASSUME NEW v \in 0 .. Total - 1
               PROVE  PlacesOf(v)' = IF v < counter THEN 1 ELSE 0
    BY <1>3 DEF Once
  <2>1. /\ IsFiniteSet(Written(v)) /\ Cardinality(InPush(v)) \in Nat /\ Cardinality(InQueue(v)) \in Nat
        /\ IsFiniteSet(Popped(v)) /\ Cardinality(Popped(v)) \in Nat /\ Cardinality(Written(v)) \in Nat
    BY <1>1, PlacesAreFinite
  <2>2. PlacesOf(v) = IF v < counter THEN 1 ELSE 0
    BY <1>1 DEF Once
  <2>3. /\ PlacesOf(v) = Cardinality(InPush(v)) + Cardinality(InQueue(v)) + Cardinality(Popped(v)) + Cardinality(Written(v))
        /\ PlacesOf(v)' = Cardinality(InPush(v)') + Cardinality(InQueue(v)') + Cardinality(Popped(v)') + Cardinality(Written(v)')
    BY DEF PlacesOf, InPush, InQueue, Popped, Written
  <2>4. InPush(v)' = InPush(v) /\ InQueue(v)' = InQueue(v)
    BY <1>3 DEF InPush, InQueue
  <2>5. CASE v = x
    <3>1. Popped(v)' = Popped(v) \ {c} /\ c \in Popped(v)
      BY <1>3, <1>5, <1>6, <2>5 DEF Popped
    <3>2. Written(v)' = Written(v) \cup {n} /\ n \notin Written(v)
      BY <1>7, <2>5 DEF Written
    <3>3. Cardinality(Popped(v)') = Cardinality(Popped(v)) - 1
      BY <2>1, <3>1, OneLess
    <3>4. Cardinality(Written(v)') = Cardinality(Written(v)) + 1
      BY <2>1, <3>2, OneMore
    <3>5. QED
      BY <2>1, <2>2, <2>3, <2>4, <3>3, <3>4
  <2>6. CASE v # x
    <3>1. Popped(v)' = Popped(v)
      BY <1>3, <1>5, <1>6, <2>6 DEF Popped
    <3>2. Written(v)' = Written(v)
      BY <1>7, <2>6 DEF Written
    <3>3. QED
      BY <2>2, <2>3, <2>4, <3>1, <3>2
  <2>7. QED
    BY <2>5, <2>6
<1>10. Ordered'
  <2> DEFINE After(v, w) == \A q \in Producers : v \in Own(q)' /\ w \in Own(q)' => v < w
  <2>1. (\A v, w : InOrder(v, w) => After(v, w)) /\ (\A v : After(v, NoItem) /\ After(NoItem, v))
    BY <1>4 DEF InOrder
  <2> HIDE DEF After
  <2>2. \A i, j \in DOMAIN queue : i < j => After(queue[i], queue[j])
    BY <1>1, <2>1 DEF Ordered
  <2>3. \A d \in Consumers : \A i \in DOMAIN queue : After(InHand(d)', queue[i])
    BY <1>1, <1>6, <2>1 DEF Ordered
  <2>4. \A i \in DOMAIN printed' : \A j \in DOMAIN queue : After(printed'[i].value, queue[j])
    BY <1>1, <1>5, <1>7, <2>1 DEF Ordered
  <2>5. ASSUME NEW i \in DOMAIN printed' PROVE After(printed'[i].value, InHand(printed[i].by)')
    <3>1. CASE printed'[i].by = c
      <4>1. InHand(printed[i].by)' = NoItem
        BY <1>3, <1>6, <3>1 DEF InHand
      <4>2. QED
        BY <2>1, <4>1
    <3>2. CASE printed'[i].by # c
      <4>1. i \in DOMAIN printed /\ printed'[i] = printed[i]
        BY <1>7, <3>2
      <4>2. PICK d \in Consumers : d = printed[i].by /\ d # c
        BY <1>1, <3>2, <4>1, Lines
      <4>3. InOrder(printed[i].value, InHand(d))
        BY <1>1, <4>1, <4>2 DEF Ordered
      <4>4. InHand(printed[i].by)' = InHand(d)
        BY <1>3, <1>6, <4>1, <4>2 DEF InHand
      <4>5. QED
        BY <2>1, <4>1, <4>3, <4>4
    <3>3. QED
      BY <3>1, <3>2
  <2>6. ASSUME NEW i \in DOMAIN printed', NEW j \in DOMAIN printed', i < j,
               printed'[i].by = printed'[j].by
        PROVE  After(printed'[i].value, printed'[j].value)
    <3>1. i \in DOMAIN printed /\ printed'[i] = printed[i]
      BY <1>7, <2>6, Lines
    <3>2. CASE j = n
      <4>1. InOrder(printed[i].value, InHand(printed[i].by)) /\ printed[i].by = c
        BY <1>1, <1>7, <2>6, <3>1, <3>2 DEF Ordered
      <4>2. QED
        BY <1>5, <1>7, <2>1, <3>1, <3>2, <4>1
    <3>3. CASE j # n
      <4>1. j \in DOMAIN printed /\ printed'[j] = printed[j]
        BY <1>7, <3>3
      <4>2. InOrder(printed[i].value, printed[j].value)
        BY <1>1, <2>6, <3>1, <4>1 DEF Ordered
      <4>3. QED
        BY <2>1, <3>1, <4>1, <4>2
    <3>4. QED
      BY <3>2, <3>3
  <2>7. ASSUME NEW q \in Producers
        PROVE  /\ \A i \in DOMAIN queue : After(queue[i], reg[q])
               /\ \A d \in Consumers : After(InHand(d)', reg[q])
               /\ \A i \in DOMAIN printed' : After(printed'[i].value, reg[q])
    BY <1>1, <1>5, <1>6, <1>7, <2>1 DEF Ordered
  <2>8. QED
    BY <1>3, <2>2, <2>3, <2>4, <2>5, <2>6, <2>7 DEF Ordered, InOrder, After
<1>11. QED
  BY <1>8, <1>9, <1>10
\* Where every thread is in the program and in the queue.
Runs == [Threads -> {"loop", "popping", "joinProducers", "joinConsumers", "done"}]

\* Inside the operations of the queue every thread stays in its role.
LEMMA RolesInQueue ==
    ASSUME MainIInv, NEW t \in Threads, Step(t), UNCHANGED mainVars
    PROVE  Roles' /\ ~PushDiscard(t)
<1>1. /\ Roles /\ TypeOK /\ CriticalSections /\ UNCHANGED <<pushed, run>>
      /\ Threads = Producers \cup Consumers \cup {Main} /\ Producers \cap Consumers = {}
      /\ Main \notin Producers \cup Consumers
  BY ProgramAssumption DEF MainIInv, IInv, mainVars
<1> USE <1>1 DEF Roles, TypeOK, PushPC, PopPC, StopPC, Goto, Lock, Wait
<1>2. CASE PushLock(t)
  BY <1>2 DEF PushLock, PushDiscard
<1>3. CASE PushWait(t)
  BY <1>3 DEF PushWait, PushDiscard
<1>4. ~PushDiscard(t)
  BY DEF PushDiscard
<1>5. CASE PushStore(t)
  BY <1>5, <1>4 DEF PushStore
<1>6. CASE PushNotify(t)
  BY <1>6, <1>4 DEF PushNotify, NotifyOne, EmptySleepers
<1>7. CASE PopLock(t)
  BY <1>7, <1>4 DEF PopLock
<1>8. CASE PopWait(t)
  BY <1>8, <1>4 DEF PopWait
<1>9. CASE PopFail(t)
  BY <1>9, <1>4 DEF PopFail
<1>10. CASE PopTake(t)
  BY <1>10, <1>4 DEF PopTake, CriticalSections
<1>11. CASE PopNotify(t)
  BY <1>11, <1>4 DEF PopNotify, NotifyOne, FullSleepers
<1>12. CASE StopLock(t)
  BY <1>12, <1>4 DEF StopLock
<1>13. CASE StopSet(t)
  BY <1>13, <1>4 DEF StopSet
<1>14. CASE StopNotifyEmpty(t)
  BY <1>14, <1>4 DEF StopNotifyEmpty, NotifyAll, EmptySleepers
<1>15. CASE StopNotifyFull(t)
  BY <1>15, <1>4 DEF StopNotifyFull, NotifyAll, FullSleepers
<1>16. QED
  BY <1>2, <1>3, <1>4, <1>5, <1>6, <1>7, <1>8, <1>9, <1>10, <1>11, <1>12, <1>13,
     <1>14, <1>15
  DEF Step, PushStep, PopStep, StopStep

\* The steps of the program change one thread's role.
LEMMA RolesOutside ==
    ASSUME MainIInv, NEW t \in Threads, ThreadStep(t), ~QueueStep(t)
    PROVE  Roles' /\ run' \in Runs
<1>1. /\ Roles /\ TypeOK /\ run \in Runs
      /\ Threads = Producers \cup Consumers \cup {Main} /\ Producers \cap Consumers = {}
      /\ Main \notin Producers \cup Consumers
  BY ProgramAssumption DEF MainIInv, IInv, Runs
<1> USE <1>1 DEF Roles, TypeOK, Runs, PushPC, PopPC, StopPC, Goto, Advance
<1>2. CASE t \in Producers /\ ProducerPush(t)
  <2>1. counter # NoItem
    <3>1. counter \in 0 .. Total - 1
      BY <1>2, CounterBound DEF MainIInv, ProducerPush
    <3>2. QED
      BY <3>1, ProgramAssumption, ItemsAssumption
  <2>2. QED
    BY <1>2, <2>1 DEF ProducerPush, PushCall
<1>3. CASE t \in Producers /\ ProducerExit(t)
  BY <1>3 DEF ProducerExit, vars
<1>4. CASE t \in Consumers /\ ConsumerPop(t)
  BY <1>4 DEF ConsumerPop, PopCall
<1>5. CASE t \in Consumers /\ ConsumerPrint(t)
  BY <1>5 DEF ConsumerPrint, vars
<1>6. CASE t \in Consumers /\ ConsumerExit(t)
  BY <1>6 DEF ConsumerExit, vars
<1>7. CASE t = Main /\ MainStop
  BY <1>7 DEF MainStop, StopCall
<1>8. CASE t = Main /\ MainReturn
  BY <1>8 DEF MainReturn, vars
<1>9. QED
  BY <1>2, <1>3, <1>4, <1>5, <1>6, <1>7, <1>8 DEF ThreadStep
\* The threads of the program are clients of the queue: a value is pushed that
\* the queue may hold.
LEMMA ProgramSteps == ASSUME MainIInv, NEW t \in Threads, ThreadStep(t) PROVE [Next]_vars
<1>1. CASE t \in Producers /\ ProducerPush(t)
  <2>1. counter \in Items
    BY <1>1, CounterBound, ProgramAssumption DEF MainIInv, ProducerPush
  <2>2. QED
    BY <1>1, <2>1 DEF ProducerPush, Next
<1>2. CASE \/ t \in Producers /\ ProducerExit(t)
           \/ t \in Consumers /\ (ConsumerPrint(t) \/ ConsumerExit(t))
           \/ t = Main /\ MainReturn
  BY <1>2 DEF ProducerExit, ConsumerPrint, ConsumerExit, MainReturn
<1>3. CASE t \in Consumers /\ ConsumerPop(t)
  BY <1>3 DEF ConsumerPop, Next
<1>4. CASE t = Main /\ MainStop
  BY <1>4 DEF MainStop, Next
<1>5. CASE QueueStep(t)
  BY <1>5 DEF QueueStep, Next
<1>6. QED
  BY <1>1, <1>2, <1>3, <1>4, <1>5 DEF ThreadStep

\* The steps inside the queue move values in two places only.
LEMMA ValuesInQueue ==
    ASSUME MainIInv, NEW t \in Threads, Step(t), UNCHANGED mainVars
    PROVE  Values' /\ Once' /\ Ordered'
<1>1. /\ Roles /\ Values /\ Once /\ Ordered /\ TypeOK
      /\ UNCHANGED <<counter, pushed, run, printed>>
  BY DEF MainIInv, IInv, mainVars
<1>2. /\ pc[t] \in PushPC => t \in Producers
      /\ pc[t] \in PopPC => t \in Consumers
  BY <1>1, ProgramAssumption DEF Roles, PushPC, PopPC, StopPC
<1>3. CASE PushStore(t)
  BY <1>2, <1>3, Stores DEF PushStore, Goto, PushPC
<1>4. CASE PopTake(t)
  BY <1>2, <1>4, Takes DEF PopTake, Goto, PopPC
<1>5. ASSUME UNCHANGED <<queue, reg>> PROVE Values' /\ Once' /\ Ordered'
  <2>1. /\ \A p \in Producers : reg'[p] = reg[p]
        /\ \A c \in Consumers : InHand(c)' = InHand(c)
    BY <1>1, <1>5 DEF InHand
  <2>2. QED
    BY <1>1, <1>5, <2>1, SamePlaces
<1>6. ~PushDiscard(t)
  BY RolesInQueue
<1>7. CASE PushLock(t) \/ PushWait(t) \/ PushNotify(t)
  BY <1>5, <1>7 DEF PushLock, PushWait, PushNotify, Lock, Wait, NotifyOne
<1>8. CASE PopLock(t) \/ PopWait(t) \/ PopFail(t) \/ PopNotify(t)
  BY <1>5, <1>8 DEF PopLock, PopWait, PopFail, PopNotify, Lock, Wait, NotifyOne
<1>9. CASE StopStep(t)
  BY <1>5, <1>9 DEF StopStep, StopLock, StopSet, StopNotifyEmpty, StopNotifyFull, Lock, NotifyAll
<1>10. QED
  BY <1>3, <1>4, <1>6, <1>7, <1>8, <1>9 DEF Step, PushStep, PopStep

\* Those outside it: a value is drawn, or printed, or none moves.
LEMMA ValuesOutside ==
    ASSUME MainIInv, NEW t \in Threads, ThreadStep(t), ~QueueStep(t)
    PROVE  Values' /\ Once' /\ Ordered'
<1>1. /\ Roles /\ Values /\ Once /\ Ordered /\ TypeOK /\ run \in Runs
      /\ Threads = Producers \cup Consumers \cup {Main} /\ Producers \cap Consumers = {}
      /\ Main \notin Producers \cup Consumers
  BY ProgramAssumption DEF MainIInv, IInv, Runs
<1>2. CASE t \in Producers /\ ProducerPush(t)
  BY <1>2, Draws
<1>3. CASE t \in Consumers /\ ConsumerPrint(t)
  BY <1>3, Prints
<1>4. ASSUME UNCHANGED <<counter, pushed, queue, printed>>,
             \A p \in Producers : reg'[p] = reg[p],
             \A c \in Consumers : InHand(c)' = InHand(c)
      PROVE  Values' /\ Once' /\ Ordered'
  BY <1>1, <1>4, SamePlaces
<1>5. CASE t \in Producers /\ ProducerExit(t)
  <2>1. UNCHANGED <<counter, pushed, queue, printed, reg>> /\ run' = [run EXCEPT ![t] = "done"]
    BY <1>5 DEF ProducerExit, Advance, vars
  <2>2. \A c \in Consumers : InHand(c)' = InHand(c)
    BY <1>1, <1>5, <2>1 DEF InHand, Runs
  <2>3. QED
    BY <1>4, <2>1, <2>2
<1>6. CASE t \in Consumers /\ ConsumerPop(t)
  <2>1. /\ UNCHANGED <<counter, pushed, queue, printed>> /\ run[t] = "loop"
        /\ run' = [run EXCEPT ![t] = "popping"] /\ reg' = [reg EXCEPT ![t] = NoItem]
    BY <1>6 DEF ConsumerPop, PopCall, Advance
  <2>2. \A c \in Consumers : InHand(c)' = InHand(c)
    BY <1>1, <1>6, <2>1 DEF InHand, Runs, TypeOK
  <2>3. \A p \in Producers : reg'[p] = reg[p]
    BY <1>1, <1>6, <2>1 DEF TypeOK
  <2>4. QED
    BY <1>4, <2>1, <2>2, <2>3
<1>7. CASE t \in Consumers /\ ConsumerExit(t)
  <2>1. /\ UNCHANGED <<counter, pushed, queue, printed, reg>> /\ reg[t] = NoItem
        /\ run' = [run EXCEPT ![t] = "done"]
    BY <1>7 DEF ConsumerExit, Advance, vars
  <2>2. \A c \in Consumers : InHand(c)' = InHand(c)
    BY <1>1, <1>7, <2>1 DEF InHand, Runs
  <2>3. QED
    BY <1>4, <2>1, <2>2
<1>8. CASE t = Main /\ MainStop
  <2>1. /\ UNCHANGED <<counter, pushed, queue, printed>>
        /\ run' = [run EXCEPT ![Main] = "joinConsumers"] /\ reg' = [reg EXCEPT ![Main] = NoItem]
    BY <1>8 DEF MainStop, StopCall, Advance
  <2>2. \A c \in Consumers : InHand(c)' = InHand(c)
    BY <1>1, <2>1 DEF InHand, Runs, TypeOK
  <2>3. \A p \in Producers : reg'[p] = reg[p]
    BY <1>1, <2>1 DEF TypeOK
  <2>4. QED
    BY <1>4, <2>1, <2>2, <2>3
<1>9. CASE t = Main /\ MainReturn
  <2>1. UNCHANGED <<counter, pushed, queue, printed, reg>> /\ run' = [run EXCEPT ![Main] = "done"]
    BY <1>9 DEF MainReturn, Advance, vars
  <2>2. \A c \in Consumers : InHand(c)' = InHand(c)
    BY <1>1, <2>1 DEF InHand, Runs
  <2>3. QED
    BY <1>4, <2>1, <2>2
<1>10. QED
  BY <1>2, <1>3, <1>5, <1>6, <1>7, <1>8, <1>9 DEF ThreadStep

\* No value has been drawn yet.
LEMMA ProgramInit == MainInit => MainIInv
<1> SUFFICES ASSUME MainInit PROVE MainIInv
  OBVIOUS
<1>1. /\ queue = <<>> /\ stop = FALSE /\ pc = [t \in Threads |-> "idle"]
      /\ reg = [t \in Threads |-> NoItem] /\ counter = 0 /\ printed = <<>>
      /\ pushed = [p \in Producers |-> <<>>]
      /\ run = [t \in Threads |-> IF t = Main THEN "joinProducers" ELSE "loop"]
      /\ Threads = Producers \cup Consumers \cup {Main} /\ Main \notin Producers \cup Consumers
      /\ Producers \cap Consumers = {}
  BY ProgramAssumption DEF MainInit, Init
<1>2. \A p \in Producers : Own(p) = {} /\ Len(pushed[p]) = 0
  BY <1>1 DEF Own
<1>3. \A c \in Consumers : InHand(c) = NoItem
  BY <1>1 DEF InHand
<1>4. Iterations = {} /\ Cardinality(Iterations) = 0
  <2>1. Iterations = {}
    BY <1>2 DEF Iterations
  <2>2. QED
    BY <2>1, FS_EmptySet
<1>5. Roles
  BY <1>1 DEF Roles
<1>6. Values
  BY <1>1, <1>2, <1>3, <1>4, ProgramAssumption DEF Values
<1>7. Once
  <2>1. ASSUME NEW v \in 0 .. Total - 1 PROVE PlacesOf(v) = 0 /\ ~(v < counter)
    <3>1. v # NoItem /\ v \in Nat
      BY ProgramAssumption, ItemsAssumption
    <3>2. InPush(v) = {} /\ InQueue(v) = {} /\ Popped(v) = {} /\ Written(v) = {}
      BY <1>1, <3>1 DEF InPush, InQueue, Popped, Written
    <3>3. PlacesOf(v) = Cardinality(InPush(v)) + Cardinality(InQueue(v)) + Cardinality(Popped(v)) + Cardinality(Written(v))
      BY DEF PlacesOf, InPush, InQueue, Popped, Written
    <3>4. PlacesOf(v) = 0
      BY <3>2, <3>3, FS_EmptySet
    <3>5. QED
      BY <1>1, <3>1, <3>4
  <2>2. QED
    BY <2>1 DEF Once
<1>8. Ordered
  BY <1>1, <1>2 DEF Ordered, InOrder
<1>9. IInv
  BY QueueInit DEF MainInit
<1>10. QED
  BY <1>1, <1>5, <1>6, <1>7, <1>8, <1>9 DEF MainIInv

\* Every step of every thread of the program keeps the invariant.
LEMMA ProgramKeeps == MainIInv /\ [MainNext]_allVars => MainIInv'
<1>1. ASSUME MainIInv, NEW t \in Threads, ThreadStep(t) PROVE MainIInv'
  <2>1. IInv'
    BY <1>1, ProgramSteps, QueueStepKeeps DEF MainIInv
  <2>2. CASE QueueStep(t)
    <3>1. Step(t) /\ UNCHANGED mainVars
      BY <2>2 DEF QueueStep
    <3>2. Roles' /\ Values' /\ Once' /\ Ordered' /\ run' = run
      BY <1>1, <3>1, RolesInQueue, ValuesInQueue DEF mainVars
    <3>3. QED
      BY <1>1, <2>1, <3>2 DEF MainIInv
  <2>3. CASE ~QueueStep(t)
    BY <1>1, <2>1, <2>3, RolesOutside, ValuesOutside DEF MainIInv, Runs
  <2>4. QED
    BY <2>2, <2>3
<1>2. ASSUME MainIInv, UNCHANGED allVars PROVE MainIInv'
  <2>1. /\ UNCHANGED vars /\ UNCHANGED mainVars
        /\ UNCHANGED <<queue, stop, mtx, pc, reg, counter, pushed, run, printed>>
    BY <1>2 DEF allVars, vars, mainVars
  <2>2. IInv'
    BY <1>2, <2>1, QueueStepKeeps DEF MainIInv
  <2>3. Roles'
    BY <1>2, <2>1 DEF MainIInv, Roles
  <2>4. /\ \A p \in Producers : reg'[p] = reg[p]
        /\ \A c \in Consumers : InHand(c)' = InHand(c)
    BY <2>1 DEF InHand
  <2>5. Values' /\ Once' /\ Ordered'
    BY <1>2, <2>1, <2>4, SamePlaces DEF MainIInv
  <2>6. QED
    BY <1>2, <2>1, <2>2, <2>3, <2>5 DEF MainIInv
<1>3. QED
  BY <1>1, <1>2 DEF MainNext, Ended
----------------------------------------------------------------------------
(* The theorems about the program.                                         *)

\* MainIInv is inductive.
THEOREM ProgramInductive == MainSpec => []MainIInv
BY ProgramInit, ProgramKeeps, PTL DEF MainSpec

\* For any number of producers, consumers and iterations the program uses the
\* queue as BlockQueue allows, so that all that is proved of the queue holds in
\* the program: no lost wakeup, and the order of a bounded FIFO.
THEOREM ProgramUsesQueue == MainSpec => Spec
<1>1. MainInit => Init
  BY DEF MainInit
<1>2. MainIInv /\ [MainNext]_allVars => [Next]_vars
  <2>1. MainIInv /\ UNCHANGED allVars => [Next]_vars
    BY DEF allVars
  <2>2. QED
    BY <2>1, ProgramSteps DEF MainNext, Ended
<1>3. QED
  BY <1>1, <1>2, ProgramInductive, PTL DEF MainSpec, Spec

\* When main has returned everything has been printed.
LEMMA AllPrinted == MainIInv => EveryValueOnce
<1> SUFFICES ASSUME MainIInv PROVE EveryValueOnce
  OBVIOUS
<1>1. Roles /\ Values /\ Once
  BY DEF MainIInv
<1>2. ASSUME run[Main] = "done"
      PROVE  {printed[i].value : i \in DOMAIN printed} = 0 .. Total - 1
  <2>1. /\ \A c \in Consumers : run[c] = "done"
        /\ \A p \in Producers : run[p] = "done" /\ pc[p] = "idle" /\ Len(pushed[p]) = PerProducer
    BY <1>1, <1>2 DEF Roles
  <2>2. queue = <<>>
    BY <1>1, <2>1, ProgramAssumption DEF Roles
  <2>3. counter = Total /\ counter \in Nat
    BY <1>1, <2>1, CounterBound
  <2>4. ASSUME NEW v \in 0 .. Total - 1
        PROVE  \E i \in DOMAIN printed : printed[i].value = v
    <3>1. v # NoItem
      BY ProgramAssumption, ItemsAssumption
    <3>2. InPush(v) = {} /\ InQueue(v) = {} /\ Popped(v) = {}
      BY <1>1, <2>1, <2>2, <3>1 DEF Roles, InPush, InQueue, Popped
    <3>3. /\ PlacesOf(v) = Cardinality(InPush(v)) + Cardinality(InQueue(v)) + Cardinality(Popped(v)) + Cardinality(Written(v))
          /\ Cardinality(Written(v)) \in Nat
      BY <1>1, PlacesAreFinite DEF PlacesOf, InPush, InQueue, Popped, Written
    <3>4. Cardinality(Written(v)) = 1
      BY <1>1, <2>3, <3>2, <3>3, FS_EmptySet DEF Once
    <3>5. Written(v) # {}
      BY <3>4, FS_EmptySet
    <3>6. QED
      BY <3>5 DEF Written
  <2>5. \A i \in DOMAIN printed : printed[i].value \in 0 .. Total - 1
    <3>1. \A i \in DOMAIN printed : printed[i].value \in Nat /\ printed[i].value < counter
      BY <1>1, Lines DEF Values
    <3>2. QED
      BY <2>3, <3>1
  <2>6. QED
    BY <2>4, <2>5
<1>3. QED
  BY <1>1, <1>2 DEF Once, EveryValueOnce

\* No value is lost or duplicated between the counter and the output, for any
\* number of producers, consumers and iterations and any capacity, and when main
\* returns all of them have been printed.
THEOREM EveryValueIsPrintedOnce == MainSpec => []EveryValueOnce
BY AllPrinted, ProgramInductive, PTL

\* Each consumer prints the values of one producer in the order of its pushes.
THEOREM ProducersStayInOrder == MainSpec => []ProducerOrder
<1>1. MainIInv => ProducerOrder
  <2> SUFFICES ASSUME MainIInv,
                      NEW i \in DOMAIN printed, NEW j \in DOMAIN printed, NEW p \in Producers,
                      i < j, printed[i].by = printed[j].by,
                      printed[i].value \in Own(p), printed[j].value \in Own(p)
               PROVE  printed[i].value < printed[j].value
    BY DEF ProducerOrder, Own
  <2>1. InOrder(printed[i].value, printed[j].value)
    BY DEF MainIInv, Ordered
  <2>2. QED
    BY <2>1 DEF InOrder
<1>2. QED
  BY <1>1, ProgramInductive, PTL

\* In the program no thread sleeps on a true predicate with nobody on the way.
THEOREM ProgramWakesSleepers == MainSpec => []NoLostWakeup
BY ProgramUsesQueue, NoWakeupIsLost, PTL
----------------------------------------------------------------------------
(* demo()                                                                  *)

DemoRuns == [DemoThreads -> {"loop", "pushing", "stopping", "popping", "done"}]

\* Inside the operations the two threads keep their roles, and since the producer
\* stops the queue after its last push, no push is discarded.
LEMMA DemoRolesInQueue ==
    ASSUME DemoIInv, NEW t \in DemoThreads, Step(t) \/ SpuriousWakeup(t), UNCHANGED demoRun
    PROVE  DemoRoles' /\ ~PushDiscard(t)
<1>1. /\ DemoRoles /\ TypeOK /\ CriticalSections /\ demoRun' = demoRun
      /\ Producer \in Threads /\ Consumer \in Threads /\ Producer # Consumer
      /\ DemoThreads = {Producer, Consumer} /\ t \in Threads
  BY DemoAssumption DEF DemoIInv, IInv, DemoThreads
<1> USE <1>1 DEF DemoRoles, TypeOK, PushPC, PopPC, StopPC, Goto, Lock, Wait
<1>2. ~PushDiscard(t)
  BY DEF PushDiscard
<1>3. CASE PushLock(t)
  BY <1>2, <1>3 DEF PushLock
<1>4. CASE PushWait(t)
  BY <1>2, <1>4 DEF PushWait
<1>5. CASE PushStore(t)
  BY <1>2, <1>5 DEF PushStore
<1>6. CASE PushNotify(t)
  BY <1>2, <1>6 DEF PushNotify, NotifyOne, EmptySleepers
<1>7. CASE PopLock(t)
  BY <1>2, <1>7 DEF PopLock
<1>8. CASE PopWait(t)
  BY <1>2, <1>8 DEF PopWait
<1>9. CASE PopFail(t)
  BY <1>2, <1>9 DEF PopFail
<1>10. CASE PopTake(t)
  BY <1>2, <1>10 DEF PopTake, CriticalSections
<1>11. CASE PopNotify(t)
  BY <1>2, <1>11 DEF PopNotify, NotifyOne, FullSleepers
<1>12. CASE StopLock(t)
  BY <1>2, <1>12 DEF StopLock
<1>13. CASE StopSet(t)
  BY <1>2, <1>13 DEF StopSet
<1>14. CASE StopNotifyEmpty(t)
  BY <1>2, <1>14 DEF StopNotifyEmpty, NotifyAll, EmptySleepers
<1>15. CASE StopNotifyFull(t)
  BY <1>2, <1>15 DEF StopNotifyFull, NotifyAll, FullSleepers
<1>16. CASE SpuriousWakeup(t)
  BY <1>2, <1>16 DEF SpuriousWakeup
<1>17. QED
  BY <1>2, <1>3, <1>4, <1>5, <1>6, <1>7, <1>8, <1>9, <1>10, <1>11, <1>12, <1>13,
     <1>14, <1>15, <1>16
  DEF Step, PushStep, PopStep, StopStep

\* A step of the program moves one thread to its next place.
LEMMA DemoRolesOutside ==
    ASSUME DemoIInv, ProducerStep \/ ConsumerStep
    PROVE  DemoRoles' /\ demoRun' \in DemoRuns
<1>1. /\ DemoRoles /\ TypeOK /\ demoRun \in DemoRuns
      /\ Producer \in Threads /\ Consumer \in Threads /\ Producer # Consumer
      /\ DemoThreads = {Producer, Consumer}
  BY DemoAssumption DEF DemoIInv, IInv, DemoThreads, DemoRuns
<1> USE <1>1 DEF DemoRoles, TypeOK, DemoRuns, PushPC, PopPC, StopPC, Goto, DemoAdvance
<1>2. CASE DemoPush
  BY <1>2 DEF DemoPush, PushCall
<1>3. CASE DemoPushPrint
  BY <1>3 DEF DemoPushPrint, vars
<1>4. CASE DemoStop
  BY <1>4 DEF DemoStop, StopCall
<1>5. CASE DemoProducerExit
  BY <1>5 DEF DemoProducerExit, vars
<1>6. CASE DemoPop
  BY <1>6 DEF DemoPop, PopCall
<1>7. CASE DemoPopPrint
  BY <1>7 DEF DemoPopPrint, vars
<1>8. CASE DemoConsumerExit
  BY <1>8 DEF DemoConsumerExit, vars
<1>9. QED
  BY <1>2, <1>3, <1>4, <1>5, <1>6, <1>7, <1>8 DEF ProducerStep, ConsumerStep

\* The two threads are clients of the queue.
LEMMA DemoSteps ==
    ASSUME DemoIInv, NEW t \in DemoThreads, DemoThreadStep(t) \/ Spurious(t)
    PROVE  [Next]_vars
<1>1. Producer \in Threads /\ Consumer \in Threads /\ t \in Threads
  BY DemoAssumption DEF DemoThreads
<1>2. CASE DemoPush
  <2>1. demoCounter \in Items
    BY <1>2, DemoAssumption DEF DemoIInv, DemoValues, DemoPush
  <2>2. QED
    BY <1>1, <1>2, <2>1 DEF DemoPush, Next
<1>3. CASE DemoPushPrint \/ DemoProducerExit \/ DemoPopPrint \/ DemoConsumerExit
  BY <1>3 DEF DemoPushPrint, DemoProducerExit, DemoPopPrint, DemoConsumerExit
<1>4. CASE DemoStop
  BY <1>1, <1>4 DEF DemoStop, Next
<1>5. CASE DemoPop
  BY <1>1, <1>5 DEF DemoPop, Next
<1>6. CASE Step(t) \/ SpuriousWakeup(t)
  BY <1>1, <1>6 DEF Next
<1>7. QED
  BY <1>2, <1>3, <1>4, <1>5, <1>6
  DEF DemoThreadStep, Spurious, ProducerStep, ConsumerStep

\* The values do not change their numbers while nobody draws, stores, takes or
\* prints one.
LEMMA SameNumbers ==
    ASSUME DemoValues, UNCHANGED <<queue, demoCounter, consumed>>,
           Drawn' = Drawn, Taken' = Taken,
           Drawn => reg'[Producer] = reg[Producer], Taken => reg'[Consumer] = reg[Consumer]
    PROVE  DemoValues'
BY DEF DemoValues, Count

\* Inside the queue a value is stored, or taken, or none moves.
LEMMA DemoValuesInQueue ==
    ASSUME DemoIInv, NEW t \in DemoThreads, Step(t) \/ SpuriousWakeup(t), UNCHANGED <<demoCounter, consumed, demoRun>>
    PROVE  DemoValues'
<1>1. /\ DemoRoles /\ DemoValues /\ TypeOK /\ CriticalSections /\ UNCHANGED <<demoCounter, consumed, demoRun>>
      /\ Producer \in Threads /\ Consumer \in Threads /\ Producer # Consumer
      /\ DemoThreads = {Producer, Consumer} /\ t \in Threads /\ ~PushDiscard(t)
      /\ Len(consumed) \in Nat /\ Len(queue) \in Nat /\ demoCounter \in Nat
  BY DemoAssumption, DemoRolesInQueue DEF DemoIInv, IInv, DemoThreads, DemoValues, TypeOK
<1>2. CASE PushStore(t)
  <2>1. t = Producer
    BY <1>1, <1>2 DEF PushStore, Goto, DemoRoles, PopPC
  <2>2. /\ Drawn /\ ~Drawn' /\ Taken' = Taken /\ reg'[Consumer] = reg[Consumer]
        /\ queue' = Append(queue, reg[Producer])
    BY <1>1, <1>2, <2>1 DEF PushStore, Goto, Drawn, Taken, TypeOK
  <2>3. reg[Producer] = Len(consumed) + Count(Taken) + Len(queue) /\ reg[Producer] \in Items
    BY <1>1, <2>2 DEF DemoValues, Count, CriticalSections, Drawn
  <2>4. /\ Len(queue') = Len(queue) + 1
        /\ \A i \in 1 .. Len(queue) : queue'[i] = queue[i]
        /\ queue'[Len(queue) + 1] = reg[Producer]
    BY <1>1, <2>2, <2>3 DEF TypeOK
  <2>5. \A i \in 1 .. Len(queue') : queue'[i] = Len(consumed) + Count(Taken) + i - 1
    <3>1. Count(Taken) \in Nat
      BY DEF Count
    <3>2. SUFFICES ASSUME NEW i \in 1 .. Len(queue) + 1
                   PROVE  queue'[i] = Len(consumed) + Count(Taken) + i - 1
      BY <2>4
    <3>3. CASE i \in 1 .. Len(queue)
      BY <1>1, <2>4, <3>3 DEF DemoValues
    <3>4. CASE i = Len(queue) + 1
      BY <1>1, <2>3, <2>4, <3>1, <3>4
    <3>5. QED
      BY <1>1, <3>3, <3>4
  <2>6. Count(Taken)' = Count(Taken) /\ Count(Drawn) = 1 /\ Count(Drawn)' = 0
    BY <2>2 DEF Count
  <2>7. demoCounter' = Len(consumed') + Count(Taken)' + Len(queue') + Count(Drawn)'
    <3>1. Count(Taken) \in Nat
      BY DEF Count
    <3>2. demoCounter = Len(consumed) + Count(Taken) + Len(queue) + Count(Drawn)
      BY <1>1 DEF DemoValues
    <3>3. QED
      BY <1>1, <2>4, <2>6, <3>1, <3>2
  <2>8. Taken' => reg'[Consumer] = Len(consumed')
    BY <1>1, <2>2 DEF DemoValues
  <2>9. \A i \in 1 .. Len(queue') : queue'[i] = Len(consumed') + Count(Taken)' + i - 1
    BY <1>1, <2>5, <2>6
  <2>10. QED
    BY <1>1, <2>2, <2>7, <2>8, <2>9 DEF DemoValues
<1>3. CASE PopTake(t)
  <2>1. t = Consumer
    BY <1>1, <1>3 DEF PopTake, Goto, DemoRoles, PushPC, StopPC
  <2>2. queue # <<>> /\ queue \in Seq(Items)
    BY <1>1, <1>3 DEF PopTake, Goto, CriticalSections, TypeOK
  <2>3. Head(queue) \in Items /\ Head(queue) = queue[1] /\ Len(queue) > 0
    BY <2>2
  <2>4. /\ Len(queue') = Len(queue) - 1
        /\ \A i \in 1 .. Len(queue) - 1 : queue'[i] = queue[i + 1]
    BY <1>3, <2>2 DEF PopTake
  <2>5. /\ ~Taken /\ Taken' /\ Drawn' = Drawn /\ reg'[Producer] = reg[Producer]
        /\ reg'[Consumer] = queue[1]
    BY <1>1, <1>3, <2>1, <2>3 DEF PopTake, Goto, DemoRoles, Drawn, Taken, TypeOK, PopPC
  <2>6. /\ Count(Taken) = 0 /\ Count(Taken)' = 1 /\ Count(Drawn)' = Count(Drawn)
        /\ Count(Drawn) \in Nat
    BY <2>5 DEF Count
  <2>7. demoCounter' = Len(consumed') + Count(Taken)' + Len(queue') + Count(Drawn)'
    <3>1. demoCounter = Len(consumed) + 0 + Len(queue) + Count(Drawn)
      BY <1>1, <2>6 DEF DemoValues
    <3>2. QED
      BY <1>1, <2>3, <2>4, <2>6, <3>1
  <2>8. \A i \in 1 .. Len(queue) : queue[i] = Len(consumed) + 0 + i - 1
    BY <1>1, <2>6 DEF DemoValues
  <2>9. reg'[Consumer] = Len(consumed')
    BY <1>1, <2>3, <2>5, <2>8
  <2>10. ASSUME NEW i \in 1 .. Len(queue')
         PROVE  queue'[i] = Len(consumed') + Count(Taken)' + i - 1
    <3>1. i \in 1 .. Len(queue) - 1 /\ i + 1 \in 1 .. Len(queue)
      BY <1>1, <2>4
    <3>2. queue'[i] = Len(consumed) + 0 + (i + 1) - 1
      BY <2>4, <2>8, <3>1
    <3>3. QED
      BY <1>1, <2>6, <3>1, <3>2
  <2>11. QED
    BY <1>1, <2>5, <2>7, <2>9, <2>10 DEF DemoValues
<1>4. ASSUME UNCHANGED <<queue, reg>>, Drawn' = Drawn PROVE DemoValues'
  BY <1>1, <1>4, SameNumbers DEF Taken
<1> USE <1>1 DEF DemoRoles, TypeOK, PushPC, PopPC, StopPC, Goto, Lock, Wait, Drawn
<1>5. CASE PushLock(t)
  BY <1>4, <1>5 DEF PushLock
<1>6. CASE PushWait(t)
  BY <1>4, <1>6 DEF PushWait
<1>7. CASE PushNotify(t)
  BY <1>4, <1>7 DEF PushNotify, NotifyOne, EmptySleepers
<1>8. CASE PopLock(t)
  BY <1>4, <1>8 DEF PopLock
<1>9. CASE PopWait(t)
  BY <1>4, <1>9 DEF PopWait
<1>10. CASE PopFail(t)
  BY <1>4, <1>10 DEF PopFail
<1>11. CASE PopNotify(t)
  BY <1>4, <1>11 DEF PopNotify, NotifyOne, FullSleepers
<1>12. CASE StopLock(t)
  BY <1>4, <1>12 DEF StopLock
<1>13. CASE StopSet(t)
  BY <1>4, <1>13 DEF StopSet
<1>14. CASE StopNotifyEmpty(t)
  BY <1>4, <1>14 DEF StopNotifyEmpty, NotifyAll, EmptySleepers
<1>15. CASE StopNotifyFull(t)
  BY <1>4, <1>15 DEF StopNotifyFull, NotifyAll, FullSleepers
<1>16. CASE SpuriousWakeup(t)
  BY <1>4, <1>16 DEF SpuriousWakeup
<1>17. QED
  BY <1>1, <1>2, <1>3, <1>5, <1>6, <1>7, <1>8, <1>9, <1>10, <1>11, <1>12, <1>13,
     <1>14, <1>15, <1>16
  DEF Step, PushStep, PopStep, StopStep

\* Outside it a value is drawn, or printed, or none moves.
LEMMA DemoValuesOutside ==
    ASSUME DemoIInv, ProducerStep \/ ConsumerStep
    PROVE  DemoValues' /\ consumed' \in Seq(Nat)
<1>1. /\ DemoRoles /\ DemoValues /\ TypeOK /\ demoRun \in DemoRuns /\ consumed \in Seq(Nat)
      /\ Producer \in Threads /\ Consumer \in Threads /\ Producer # Consumer
      /\ DemoThreads = {Producer, Consumer} /\ Pushes \in Nat
      /\ Len(consumed) \in Nat /\ Len(queue) \in Nat /\ demoCounter \in Nat
  BY DemoAssumption DEF DemoIInv, IInv, DemoThreads, DemoRuns, DemoValues, TypeOK
<1>2. CASE DemoPush
  <2>1. /\ UNCHANGED <<queue, consumed>> /\ demoCounter' = demoCounter + 1
        /\ demoCounter < Pushes /\ ~Drawn /\ Drawn' /\ Taken' = Taken
        /\ reg'[Producer] = demoCounter /\ reg'[Consumer] = reg[Consumer]
    BY <1>1, <1>2
    DEF DemoPush, DemoAdvance, PushCall, Goto, Drawn, Taken, TypeOK, DemoRuns
  <2>2. QED
    BY <1>1, <2>1 DEF DemoValues, Count
<1>3. CASE DemoPopPrint
  <2>1. /\ UNCHANGED <<queue, demoCounter, reg, pc>> /\ Taken /\ ~Taken'
        /\ consumed' = Append(consumed, reg[Consumer])
    BY <1>1, <1>3 DEF DemoPopPrint, DemoAdvance, Taken, DemoRuns, vars
  <2>2. Drawn' = Drawn /\ reg[Consumer] = Len(consumed)
    BY <1>1, <2>1 DEF Drawn, DemoValues
  <2>3. /\ consumed' \in Seq(Nat) /\ Len(consumed') = Len(consumed) + 1
        /\ \A i \in 1 .. Len(consumed) : consumed'[i] = consumed[i]
        /\ consumed'[Len(consumed) + 1] = Len(consumed)
    BY <1>1, <2>1, <2>2
  <2>4. QED
    BY <1>1, <2>1, <2>2, <2>3 DEF DemoValues, Count
<1>4. ASSUME UNCHANGED <<queue, demoCounter, consumed>>, Drawn' = Drawn, Taken' = Taken,
             Drawn => reg'[Producer] = reg[Producer], Taken => reg'[Consumer] = reg[Consumer]
      PROVE  DemoValues' /\ consumed' \in Seq(Nat)
  BY <1>1, <1>4, SameNumbers
<1>5. CASE DemoPushPrint \/ DemoProducerExit
  BY <1>1, <1>4, <1>5
  DEF DemoPushPrint, DemoProducerExit, DemoAdvance, Drawn, Taken, DemoRuns, vars
<1>6. CASE DemoStop
  BY <1>1, <1>4, <1>6
  DEF DemoStop, DemoAdvance, StopCall, Goto, Drawn, Taken, DemoRuns, TypeOK
<1>7. CASE DemoPop
  BY <1>1, <1>4, <1>7
  DEF DemoPop, DemoAdvance, PopCall, Goto, Drawn, Taken, DemoRuns, TypeOK
<1>8. CASE DemoConsumerExit
  BY <1>1, <1>4, <1>8 DEF DemoConsumerExit, DemoAdvance, Drawn, Taken, DemoRuns, vars
<1>9. QED
  BY <1>2, <1>3, <1>5, <1>6, <1>7, <1>8 DEF ProducerStep, ConsumerStep

\* No value has been drawn.
LEMMA DemoStarts == DemoInit => DemoIInv
<1> SUFFICES ASSUME DemoInit PROVE DemoIInv
  OBVIOUS
<1>1. /\ queue = <<>> /\ stop = FALSE /\ pc = [t \in Threads |-> "idle"]
      /\ reg = [t \in Threads |-> NoItem] /\ demoCounter = 0 /\ consumed = <<>>
      /\ demoRun = [t \in DemoThreads |-> "loop"]
      /\ Producer \in Threads /\ Consumer \in Threads
      /\ DemoThreads = {Producer, Consumer} /\ Pushes \in Nat
  BY DemoAssumption DEF DemoInit, Init, DemoThreads
<1>2. IInv
  BY QueueInit DEF DemoInit
<1>3. DemoRoles
  BY <1>1 DEF DemoRoles, PopPC, PushPC, StopPC
<1>4. DemoValues
  BY <1>1 DEF DemoValues, Drawn, Taken, Count
<1>5. QED
  BY <1>1, <1>2, <1>3, <1>4 DEF DemoIInv

\* Every step of the two threads keeps the invariant.
LEMMA DemoKeeps == DemoIInv /\ [DemoNext]_demoAllVars => DemoIInv'
<1>1. ASSUME DemoIInv, NEW t \in DemoThreads, DemoThreadStep(t) \/ Spurious(t) PROVE DemoIInv'
  <2>1. IInv'
    BY <1>1, DemoSteps, QueueStepKeeps DEF DemoIInv
  <2>2. CASE ProducerStep \/ ConsumerStep
    BY <1>1, <2>1, <2>2, DemoRolesOutside, DemoValuesOutside DEF DemoIInv, DemoRuns
  <2>3. CASE /\ Step(t) \/ SpuriousWakeup(t)
             /\ UNCHANGED <<demoCounter, consumed, demoRun>>
    BY <1>1, <2>1, <2>3, DemoRolesInQueue, DemoValuesInQueue DEF DemoIInv
  <2>4. QED
    BY <1>1, <2>2, <2>3 DEF DemoThreadStep, Spurious, demoVars
<1>2. ASSUME DemoIInv, UNCHANGED demoAllVars PROVE DemoIInv'
  <2>1. UNCHANGED vars /\ UNCHANGED <<queue, stop, pc, reg, demoCounter, consumed, demoRun>>
    BY <1>2 DEF demoAllVars, vars, demoVars
  <2>2. IInv'
    BY <1>2, <2>1, QueueStepKeeps DEF DemoIInv
  <2>3. DemoRoles' /\ DemoValues'
    BY <1>2, <2>1 DEF DemoIInv, DemoRoles, DemoValues, Drawn, Taken, Count
  <2>4. QED
    BY <1>2, <2>1, <2>2, <2>3 DEF DemoIInv
<1>3. QED
  BY <1>1, <1>2 DEF DemoNext, DemoEnded

\* DemoIInv is inductive.
THEOREM DemoInductive == DemoSpec => []DemoIInv
BY DemoStarts, DemoKeeps, PTL DEF DemoSpec

\* demo() uses the queue as BlockQueue allows: what is proved of the queue holds in it.
THEOREM DemoUsesQueue == DemoSpec => Spec
<1>1. DemoInit => Init
  BY DEF DemoInit
<1>2. DemoIInv /\ [DemoNext]_demoAllVars => [Next]_vars
  <2>1. UNCHANGED demoAllVars => [Next]_vars
    BY DEF demoAllVars
  <2>2. QED
    BY <2>1, DemoSteps DEF DemoNext, DemoEnded
<1>3. QED
  BY <1>1, <1>2, DemoInductive, PTL DEF DemoSpec, Spec

\* For every capacity and any number of pushes the consumer of demo() prints the
\* numbers in order and never falls behind by more than the queue and two hands.
THEOREM DemoStaysInLockstep == DemoSpec => []InLockstep
<1>1. DemoIInv => InLockstep
  <2> SUFFICES ASSUME DemoIInv PROVE InLockstep
    OBVIOUS
  <2>1. /\ DemoValues /\ consumed \in Seq(Nat) /\ Len(queue) \in Nat /\ Len(queue) <= Capacity
        /\ Len(consumed) \in Nat
    BY DEF DemoIInv, IInv, TypeOK
  <2>2. demoCounter - Len(consumed) <= Capacity + 2
    <3>1. Count(Taken) \in 0 .. 1 /\ Count(Drawn) \in 0 .. 1
      BY DEF Count
    <3>2. demoCounter = Len(consumed) + Count(Taken) + Len(queue) + Count(Drawn)
      BY <2>1 DEF DemoValues
    <3>3. QED
      BY <2>1, <3>1, <3>2
  <2>3. consumed = [i \in 1 .. Len(consumed) |-> i - 1]
    BY <2>1 DEF DemoValues
  <2>4. QED
    BY <2>2, <2>3 DEF InLockstep
<1>2. QED
  BY <1>1, DemoInductive, PTL
===============================================================================
