\* Three clients, two events per wait, one failure of epoll_ctl; there are
\* descriptors for two clients, so accept() may keep failing for the third.
SPECIFICATION Spec
CONSTANTS
    Conns = {c1, c2, c3}
    FdNums <- MCFewFds
    BacklogLimit = 2
    MaxMsgs = 2
    MaxEvents = 2
    MaxCtlFailures = 1
    Listener = Listener
    Unused = Unused
INVARIANTS
    NoStaleEvents
    LeakBounded
PROPERTIES
    WatchedAnswered
    ImplementsService
