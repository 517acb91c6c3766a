\* Three clients for two places; one descriptor more than the table can hold.
SPECIFICATION Spec
CONSTANTS
    Conns = {c1, c2, c3}
    FdNums <- MCFdNums
    BacklogLimit = 2
    MaxMsgs = 1
    Listener = Listener
    Unused = Unused
    Slots = 3
    NoFd = NoFd
INVARIANTS
    IInv
    TableExact
    NoStaleDispatch
PROPERTIES
    NobodyWaitsForEver
    ImplementsService
