SPECIFICATION DemoSpec
CONSTANTS
    Producer = producer
    Consumer = consumer
    Pushes = 6
    MaxSpurious = 2
    Capacity = 2
    NoItem = NoItem
    NoThread = NoThread
    Threads <- MCThreads
    Items <- MCItems
INVARIANTS
    InLockstep
PROPERTY DrainsAndEnds
