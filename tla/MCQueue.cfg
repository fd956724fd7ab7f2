CONSTANTS
    p1 = p1
    p2 = p2
    Producers <- MCProducers
    Consumer = consumer
    Free = free
    MaxPush = 2
SPECIFICATION Spec
INVARIANT NoLostWakeup
INVARIANT PoppedInOrder
PROPERTY ImplementsMailbox
CHECK_DEADLOCK FALSE
