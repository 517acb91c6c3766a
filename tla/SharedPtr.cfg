\* Three threads, three handles and their three parameters of operator=, two objects.
SPECIFICATION FairSpec
CONSTANTS
    Threads = {t1, t2, t3}
    Handles = {h1, h2, h3}
    Objects = {a, b}
    Null = Null
    Absent = Absent
    CountRange = 8
INVARIANTS
    NoUseAfterFree
    CountExact
    IInv
PROPERTIES
    ImplementsLifetime
    EventuallyDeleted
