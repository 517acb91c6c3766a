\* Four threads on a queue of two places: two sleepers on either condition
\* variable can coincide with two notifiers or with a stopping thread.
SPECIFICATION Spec
CONSTANTS
    Threads = {t1, t2, t3, t4}
    Items = {a, b}
    NoItem = NoItem
    NoThread = NoThread
    Capacity = 2
SYMMETRY Symmetry
INVARIANTS
    NoLostWakeup
    IInv
PROPERTY ImplementsFifo
