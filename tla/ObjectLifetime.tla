--------------------------- MODULE ObjectLifetime ---------------------------
(***************************************************************************)
(* What a shared pointer promises about the objects it owns, without       *)
(* counters and without threads: an object exists from the moment its first *)
(* handle is made until it is destroyed, it is destroyed once, and never   *)
(* while a handle refers to it.                                            *)
(***************************************************************************)
CONSTANTS
    Slots,      \* the places a handle can be stored in
    Objects,    \* the objects that can be owned
    Null,       \* the empty handle
    Absent      \* no handle in this place

VARIABLES
    ref,        \* per slot: the object its handle refers to
    obj         \* per object: "unborn", "alive", "leaked" or "deleted"

lifetimeVars == <<ref, obj>>

Init ==
    /\ ref = [s \in Slots |-> Absent]
    /\ obj = [o \in Objects |-> "unborn"]

\* The first handle of a new object, or an empty handle.
Make(s, o) ==
    /\ ref[s] = Absent
    /\ \/ /\ o \in Objects
          /\ obj[o] = "unborn"
          /\ obj' = [obj EXCEPT ![o] = "alive"]
       \/ o = Null /\ UNCHANGED obj
    /\ ref' = [ref EXCEPT ![s] = o]

\* An object whose first handle could not be made: nobody will destroy it.
Leak(o) ==
    /\ obj[o] = "unborn"
    /\ obj' = [obj EXCEPT ![o] = "leaked"]
    /\ UNCHANGED ref

\* A second handle to the same object; only an existing handle can be copied.
Copy(s, from) ==
    /\ ref[s] = Absent
    /\ ref[from] # Absent
    /\ ref' = [ref EXCEPT ![s] = ref[from]]
    /\ UNCHANGED obj

Move(s, from) ==
    /\ ref[s] = Absent
    /\ ref[from] # Absent
    /\ ref' = [ref EXCEPT ![s] = ref[from], ![from] = Null]
    /\ UNCHANGED obj

Exchange(s1, s2) ==
    /\ ref[s1] # Absent /\ ref[s2] # Absent
    /\ ref' = [ref EXCEPT ![s1] = ref[s2], ![s2] = ref[s1]]
    /\ UNCHANGED obj

Drop(s) ==
    /\ ref[s] # Absent
    /\ ref' = [ref EXCEPT ![s] = Absent]
    /\ UNCHANGED obj

\* An object goes when its last handle is gone, and only then.
Delete(o) ==
    /\ obj[o] = "alive"
    /\ \A s \in Slots : ref[s] # o
    /\ obj' = [obj EXCEPT ![o] = "deleted"]
    /\ UNCHANGED ref

Next ==
    \/ \E s \in Slots : Drop(s) \/ \E o \in Objects \cup {Null} : Make(s, o)
    \/ \E s, from \in Slots : Copy(s, from) \/ Move(s, from) \/ Exchange(s, from)
    \/ \E o \in Objects : Leak(o) \/ Delete(o)

Spec == Init /\ [][Next]_lifetimeVars
=============================================================================
