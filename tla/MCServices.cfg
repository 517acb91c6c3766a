SPECIFICATION Spec
CONSTANTS
    Lengths <- MCLengths
    DirectorySize = 3
    Absent = Absent
    Directory = Directory
    Hidden = Hidden
    MaxChanges = 1
    Conns = {c1, c2, c3}
    FdNums <- MCFdNums
    BacklogLimit = 2
    MaxMsgs = 2
    Listener = Listener
    Unused = Unused
    NoFd = NoFd
    Senders = {u1, u2}
    MaxInputs = 2
    MaxDuplicates = 1
    NoDatagram = NoDatagram
INVARIANTS
    OnePage
    
    ThreadsApart
    MatchUnlessDuplicated
PROPERTIES
    RequestAnswered
    ServedAlone
    TextAnswered
\* Clients need not come back, and programs may run out of clients.
CHECK_DEADLOCK FALSE
