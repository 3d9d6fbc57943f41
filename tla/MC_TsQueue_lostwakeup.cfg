\* The consumer blocks in wait() and producers stop after MaxPush pushes.
CONSTANTS
    p1 = p1
    p2 = p2
    c1 = c1
    NoThread = NoThread
    Producers <- MCProducers
    Consumers <- MCOneConsumer
    MaxPush = 1
SPECIFICATION Spec
PROPERTY SleeperWakesWhenNonEmpty
