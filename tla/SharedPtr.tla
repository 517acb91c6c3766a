----------------------------- MODULE SharedPtr ------------------------------
(***************************************************************************)
(* mySharedPtr<T> of code_2026_05_27/code2/mySharedPtr.h: handles that     *)
(* share the ownership of an object through an atomic counter.             *)
(*                                                                         *)
(* The threads are the most general client that has no data race on a      *)
(* handle: any of them may operate on any handle, but not while another    *)
(* thread is inside an operation that writes that handle, and it may not   *)
(* write a handle that another thread is copying from.  The counter itself *)
(* is shared without such care; every access to it is a step of its own.   *)
(*                                                                         *)
(* _ptr and _pcount are set, copied, moved and swapped together, and every *)
(* object gets one counter: the pair is the reference ref[s] to an object, *)
(* the counter is count[o].  Storage that holds no handle is Absent.       *)
(***************************************************************************)
EXTENDS Naturals, FiniteSets

CONSTANTS
    Threads,
    Handles,        \* the storage of the program's handles
    Objects,        \* the objects `new` returns, each of them once
    Null, Absent,   \* the empty handle, no handle at all
    CountRange      \* an unsigned counter takes the values 0 .. CountRange - 1

\* The by-value parameter of operator= is a handle too, one per thread.
Slots == Handles \cup Threads

ASSUME SlotsAssumption == IsFiniteSet(Handles) /\ IsFiniteSet(Threads)
ASSUME NamesAssumption ==
    /\ Handles \cap Threads = {}
    /\ Null \notin Objects \cup Slots
    /\ Absent \notin Objects \cup {Null}
\* The program has fewer handles than an unsigned counter can count.
ASSUME RangeAssumption == CountRange \in Nat /\ Cardinality(Slots) < CountRange

VARIABLES
    ref,        \* per slot: the object it refers to, Null or Absent
    obj,        \* per object: "unborn", "alive", "leaked" or "deleted"
    counter,    \* per object: its counter is "none", "alive" or "deleted"
    count,      \* per object: the value of the counter
    pc,         \* per thread: the next step of the operation it is in
    slot,       \* per thread: the slot being constructed or released
    from,       \* per thread: the handle it copies from, or Null
    target      \* per thread: the left-hand side of its operator=, or Null

vars == <<ref, obj, counter, count, pc, slot, from, target>>
local == <<pc, slot, from, target>>

Init ==
    /\ ref = [s \in Slots |-> Absent]
    /\ obj = [o \in Objects |-> "unborn"]
    /\ counter = [o \in Objects |-> "none"]
    /\ count = [o \in Objects |-> 0]
    /\ pc = [t \in Threads |-> "idle"]
    /\ slot = [t \in Threads |-> t]
    /\ from = [t \in Threads |-> Null]
    /\ target = [t \in Threads |-> Null]

----------------------------------------------------------------------------
(* The client's discipline.                                                *)

\* Nobody writes handle h; nobody touches it at all.
Readable(h) == \A u \in Threads : pc[u] # "idle" => h # slot[u] /\ h # target[u]
Writable(h) == Readable(h) /\ \A u \in Threads : from[u] # h

Built(h) == ref[h] # Absent

\* Thread t starts an operation: its next step, the slot it works on, the
\* handle it copies from and the handle it assigns to.
Enter(t, next, s, f, tgt) ==
    /\ pc' = [pc EXCEPT ![t] = next]
    /\ slot' = [slot EXCEPT ![t] = s]
    /\ from' = [from EXCEPT ![t] = f]
    /\ target' = [target EXCEPT ![t] = tgt]

\* The end of an operation; the thread's slot is its parameter again.
Leave(t) == Enter(t, "idle", t, Null, Null)

----------------------------------------------------------------------------
(* Constructors                                                            *)

\* mySharedPtr(new T): the object and its counter, which starts at one.
Construct(t, h, o) ==
    /\ pc[t] = "idle" /\ ~Built(h) /\ Writable(h)
    /\ obj[o] = "unborn"
    /\ obj' = [obj EXCEPT ![o] = "alive"]
    /\ counter' = [counter EXCEPT ![o] = "alive"]
    /\ count' = [count EXCEPT ![o] = 1]
    /\ ref' = [ref EXCEPT ![h] = o]
    /\ UNCHANGED local

\* new std::atomic<unsigned> throws: no handle, and nobody owns the object.
ConstructThrows(t, h, o) ==
    /\ pc[t] = "idle" /\ ~Built(h) /\ Writable(h)
    /\ obj[o] = "unborn"
    /\ obj' = [obj EXCEPT ![o] = "leaked"]
    /\ UNCHANGED <<ref, counter, count, local>>

\* mySharedPtr(nullptr): no counter is allocated.
ConstructNull(t, h) ==
    /\ pc[t] = "idle" /\ ~Built(h) /\ Writable(h)
    /\ ref' = [ref EXCEPT ![h] = Null]
    /\ UNCHANGED <<obj, counter, count, local>>

\* The copy constructor reads the other handle, and increments the counter
\* in a later step; an empty handle has nothing to increment.
CopyConstruct(t, h, p) ==
    /\ pc[t] = "idle" /\ ~Built(h) /\ Writable(h)
    /\ Built(p) /\ Readable(p)
    /\ ref' = [ref EXCEPT ![h] = ref[p]]
    /\ IF ref[p] # Null THEN Enter(t, "increment", h, p, Null) ELSE UNCHANGED local
    /\ UNCHANGED <<obj, counter, count>>

\* (*_pcount)++, the last step of a copy: the constructor is over, or the
\* parameter of operator= is ready.
Increment(t) ==
    /\ pc[t] = "increment"
    /\ LET o == ref[slot[t]]
       IN  count' = [count EXCEPT ![o] = (@ + 1) % CountRange]
    /\ IF target[t] = Null THEN Leave(t) ELSE Enter(t, "swap", t, Null, target[t])
    /\ UNCHANGED <<ref, obj, counter>>

\* Mutant: the moved-from handle keeps its reference.
MoveConstructKeeps(t, h, p) ==
    /\ pc[t] = "idle" /\ ~Built(h) /\ Writable(h)
    /\ Built(p) /\ Writable(p)
    /\ ref' = [ref EXCEPT ![h] = ref[p]]
    /\ UNCHANGED <<obj, counter, count, local>>

\* The move constructor touches both handles and no counter.
MoveConstruct(t, h, p) ==
    /\ pc[t] = "idle" /\ ~Built(h) /\ Writable(h)
    /\ Built(p) /\ Writable(p)
    /\ ref' = [ref EXCEPT ![h] = ref[p], ![p] = Null]
    /\ UNCHANGED <<obj, counter, count, local>>

----------------------------------------------------------------------------
(* operator=(mySharedPtr rhs): rhs is built by the copy or the move         *)
(* constructor, swapped with *this, and destroyed.                          *)

\* h = p, where p may be h itself.
AssignCopy(t, h, p) ==
    /\ pc[t] = "idle"
    /\ Built(h) /\ Writable(h)
    /\ Built(p) /\ Readable(p)
    /\ ref' = [ref EXCEPT ![t] = ref[p]]
    /\ IF ref[p] # Null THEN Enter(t, "increment", t, p, h) ELSE Enter(t, "swap", t, Null, h)
    /\ UNCHANGED <<obj, counter, count>>

\* h = std::move(p), where p may be h itself.
AssignMove(t, h, p) ==
    /\ pc[t] = "idle"
    /\ Built(h) /\ Writable(h)
    /\ Built(p) /\ Writable(p)
    /\ ref' = [ref EXCEPT ![t] = ref[p], ![p] = Null]
    /\ Enter(t, "swap", t, Null, h)
    /\ UNCHANGED <<obj, counter, count>>

\* Mutant: the old value of *this is overwritten, not handed to rhs.
AssignOverwrite(t) ==
    /\ pc[t] = "swap"
    /\ ref' = [ref EXCEPT ![target[t]] = ref[t], ![t] = Absent]
    /\ Leave(t)
    /\ UNCHANGED <<obj, counter, count>>

\* this->swap(rhs); the destructor of rhs comes next.
AssignSwap(t) ==
    /\ pc[t] = "swap"
    /\ ref' = [ref EXCEPT ![target[t]] = ref[t], ![t] = ref[target[t]]]
    /\ Enter(t, "release", t, Null, target[t])
    /\ UNCHANGED <<obj, counter, count>>

\* swap(p), called by the program.
Swap(t, h, p) ==
    /\ pc[t] = "idle"
    /\ Built(h) /\ Writable(h)
    /\ Built(p) /\ Writable(p)
    /\ ref' = [ref EXCEPT ![h] = ref[p], ![p] = ref[h]]
    /\ UNCHANGED <<obj, counter, count, local>>

----------------------------------------------------------------------------
(* ~mySharedPtr() and release()                                             *)

Destroy(t, h) ==
    /\ pc[t] = "idle" /\ Built(h) /\ Writable(h)
    /\ Enter(t, "release", h, Null, Null)
    /\ UNCHANGED <<ref, obj, counter, count>>

\* if (_pcount): an empty handle just disappears.
ReleaseNull(t) ==
    /\ pc[t] = "release"
    /\ ref[slot[t]] = Null
    /\ ref' = [ref EXCEPT ![slot[t]] = Absent]
    /\ Leave(t)
    /\ UNCHANGED <<obj, counter, count>>

\* Mutant: the object is deleted when one handle is left, not when none is.
ReleaseEarly(t) ==
    /\ pc[t] = "release"
    /\ ref[slot[t]] # Null
    /\ LET o == ref[slot[t]]
           left == (count[o] + CountRange - 1) % CountRange
       IN  /\ count' = [count EXCEPT ![o] = left]
           /\ IF left <= 1
              THEN /\ Enter(t, "deleteObject", slot[t], Null, target[t])
                   /\ UNCHANGED ref
              ELSE /\ Leave(t)
                   /\ ref' = [ref EXCEPT ![slot[t]] = Absent]
    /\ UNCHANGED <<obj, counter>>

\* --(*_pcount) == 0: one atomic step that decrements and tests.  A handle
\* that was not the last one is gone with it.
Release(t) ==
    /\ pc[t] = "release"
    /\ ref[slot[t]] # Null
    /\ LET o == ref[slot[t]]
           left == (count[o] + CountRange - 1) % CountRange
       IN  /\ count' = [count EXCEPT ![o] = left]
           /\ IF left = 0
              THEN /\ Enter(t, "deleteObject", slot[t], Null, target[t])
                   /\ UNCHANGED ref
              ELSE /\ Leave(t)
                   /\ ref' = [ref EXCEPT ![slot[t]] = Absent]
    /\ UNCHANGED <<obj, counter>>

\* delete _ptr
DeleteObject(t) ==
    /\ pc[t] = "deleteObject"
    /\ obj' = [obj EXCEPT ![ref[slot[t]]] = "deleted"]
    /\ Enter(t, "deleteCounter", slot[t], Null, target[t])
    /\ UNCHANGED <<ref, counter, count>>

\* delete _pcount, and the handle is gone.
DeleteCounter(t) ==
    /\ pc[t] = "deleteCounter"
    /\ counter' = [counter EXCEPT ![ref[slot[t]]] = "deleted"]
    /\ ref' = [ref EXCEPT ![slot[t]] = Absent]
    /\ Leave(t)
    /\ UNCHANGED <<obj, count>>

----------------------------------------------------------------------------
\* The rest of an operation that thread t has begun.
Continue(t) ==
    \/ Increment(t) \/ AssignSwap(t)
    \/ ReleaseNull(t) \/ Release(t) \/ DeleteObject(t) \/ DeleteCounter(t)

Begin(t) ==
    \/ \E h \in Handles, o \in Objects : Construct(t, h, o) \/ ConstructThrows(t, h, o)
    \/ \E h \in Handles : ConstructNull(t, h) \/ Destroy(t, h)
    \/ \E h, p \in Handles :
          \/ CopyConstruct(t, h, p) \/ MoveConstruct(t, h, p)
          \/ AssignCopy(t, h, p) \/ AssignMove(t, h, p) \/ Swap(t, h, p)

Next == \E t \in Threads : Begin(t) \/ Continue(t)

Spec == Init /\ [][Next]_vars

\* An operation that has begun goes on; nobody has to begin another one.
FairSpec == Spec /\ \A t \in Threads : WF_vars(Continue(t))

----------------------------------------------------------------------------
(* Correctness                                                             *)

\* The variables have their types, and no counter wraps around.
TypeOK ==
    /\ ref \in [Slots -> Objects \cup {Null, Absent}]
    /\ obj \in [Objects -> {"unborn", "alive", "leaked", "deleted"}]
    /\ counter \in [Objects -> {"none", "alive", "deleted"}]
    /\ count \in [Objects -> 0 .. Cardinality(Slots)]
    /\ pc \in [Threads -> {"idle", "increment", "swap", "release", "deleteObject", "deleteCounter"}]
    /\ slot \in [Threads -> Slots]
    /\ from \in [Threads -> Handles \cup {Null}]
    /\ target \in [Threads -> Handles \cup {Null}]

\* A reference that the counter does not, or no longer, count: a copy before
\* its increment, the last handle after its decrement.
Uncounted(s) == \E t \in Threads :
    slot[t] = s /\ pc[t] \in {"increment", "deleteObject", "deleteCounter"}
Counted(o) == {s \in Slots : ref[s] = o /\ ~Uncounted(s)}

\* No use after free: whatever a handle refers to exists, and so does the
\* counter that a copy or a release of that handle is about to touch.  Only
\* the thread that deletes them holds on to them longer.
NoUseAfterFree ==
    \A s \in Slots : \A o \in Objects : ref[s] = o =>
        /\ counter[o] = "alive"
        /\ obj[o] = "alive" \/ \E t \in Threads : pc[t] = "deleteCounter" /\ slot[t] = s

\* The counter is exact however copies and releases of different threads
\* overlap: it is the number of handles, apart from those in between.
CountExact ==
    \A o \in Objects : counter[o] = "alive" => count[o] = Cardinality(Counted(o))

\* A handle owns every object that is alive: none is left behind, except by a
\* constructor that threw.
NoLeak ==
    \A o \in Objects :
        obj[o] = "alive" \/ counter[o] = "alive" => \E s \in Slots : ref[s] = o

\* What the client's discipline keeps: every slot has one writer, which it
\* still exists for, nobody writes a handle that is being copied, and a copy
\* refers to the same object as the handle it comes from.
OneWriter ==
    \A t \in Threads :
        /\ slot[t] \in Handles \cup {t}
        /\ pc[t] = "idle" => slot[t] = t /\ target[t] = Null
        /\ pc[t] # "idle" => Built(slot[t])
        /\ Built(t) => pc[t] # "idle" /\ slot[t] = t
        /\ target[t] # Null => slot[t] = t /\ Built(target[t])
        /\ pc[t] = "swap" \/ (pc[t] = "increment" /\ slot[t] = t) => target[t] # Null
        /\ pc[t] \in {"increment", "deleteObject", "deleteCounter"} => ref[slot[t]] \in Objects
        /\ from[t] # Null <=> pc[t] = "increment"
        /\ from[t] # Null => ref[from[t]] = ref[slot[t]]
        /\ \A u \in Threads : slot[u] \notin {from[t], target[t]}
        /\ \A u \in Threads \ {t} :
              slot[u] # slot[t] /\ (target[t] # Null => target[t] \notin {from[u], target[u]})

\* A thread that deletes an object has the only reference to it, and has
\* deleted the object before the counter.
LastHandle ==
    \A t \in Threads : pc[t] \in {"deleteObject", "deleteCounter"} =>
        /\ \A s \in Slots : ref[s] = ref[slot[t]] => s = slot[t]
        /\ pc[t] = "deleteCounter" => obj[ref[slot[t]]] = "deleted"

\* The inductive invariant of the proofs.
IInv ==
    /\ TypeOK
    /\ OneWriter
    /\ NoUseAfterFree
    /\ CountExact
    /\ NoLeak
    /\ LastHandle

\* When an object has lost its last handle it is deleted in the end.
Unreachable(o) ==
    /\ obj[o] = "alive"
    /\ \A h \in Handles : ref[h] = o => \E t \in Threads : pc[t] = "release" /\ slot[t] = h
    /\ \A t \in Threads : ref[t] = o => pc[t] = "release"
    /\ \A t \in Threads : pc[t] = "increment" => ref[slot[t]] # o
EventuallyDeleted == \A o \in Objects : Unreachable(o) ~> obj[o] = "deleted"

\* A handle stands for its reference until its release has decremented the
\* counter to zero.
Gone(s) == \E t \in Threads : slot[t] = s /\ pc[t] \in {"deleteObject", "deleteCounter"}
Owning == [s \in Slots |-> IF Gone(s) THEN Absent ELSE ref[s]]

Lifetime == INSTANCE ObjectLifetime WITH ref <- Owning

\* mySharedPtr implements shared ownership: an object is destroyed when, and
\* only when, no handle refers to it any more.
ImplementsLifetime == Lifetime!Spec
=============================================================================
