\* Two producers of two values each, two consumers, the queue full with two.
SPECIFICATION MainSpec
CONSTANTS
    Producers = {p1, p2}
    Consumers = {c1, c2}
    Main = main
    PerProducer = 2
    Capacity = 2
    NoItem = NoItem
    NoThread = NoThread
    Threads <- MCThreads
    Items <- MCItems
INVARIANTS
    EveryValueOnce
    ProducerOrder
PROPERTY Terminates
