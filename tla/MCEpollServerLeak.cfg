\* One client whose descriptor epoll_ctl refuses.
SPECIFICATION Spec
CONSTANTS
    Conns = {c1, c2}
    FdNums <- MCFdNums
    BacklogLimit = 2
    MaxMsgs = 1
    MaxEvents = 2
    MaxCtlFailures = 1
    Listener = Listener
    Unused = Unused
INVARIANT EveryFdManaged
