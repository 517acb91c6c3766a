\* Three clients that need not act, either fork() failing once. When all
\* clients are done the server waits in accept(), or has exited.
SPECIFICATION ForkSpec
CONSTANTS
    Browsers = {c1, c2, c3}
    ListenSocket = ListenSocket
    Nobody = Nobody
    MaxPending = 2
    MaxForkFailures = 1
    MaxInnerFailures = 1
INVARIANTS
    OwnDescriptorsOnly
    NoZombiesPileUp
PROPERTIES
    KeepsAccepting
    ResponseEnds
    ImplementsOneShot
CHECK_DEADLOCK FALSE
