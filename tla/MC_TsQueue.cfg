\* Two producers pushing to both ends, one consumer running the pump.
CONSTANTS
    p1 = p1
    p2 = p2
    c1 = c1
    NoThread = NoThread
    Producers <- MCProducers
    Consumers <- MCOneConsumer
    MaxPush = 2
SPECIFICATION Spec
SYMMETRY ProducerSymmetry
INVARIANT TypeOK
INVARIANT PerProducerFifo
PROPERTY QueueRefinement
