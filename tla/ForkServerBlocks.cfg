\* The inner fork() fails once. The system may come to rest.
SPECIFICATION ForkSpec
CONSTANTS
    Browsers = {c1, c2}
    ListenSocket = ListenSocket
    Nobody = Nobody
    MaxPending = 2
    MaxForkFailures = 0
    MaxInnerFailures = 1
INVARIANT ParentNotBlockedByService
CHECK_DEADLOCK FALSE
