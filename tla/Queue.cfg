\* Two producers with two messages each, and each kind of consumer.
CONSTANTS
    p1 = p1
    p2 = p2
    Producers <- TwoProducers
    Consumers <- EveryConsumer
    MaxPush = 2
SPECIFICATION FairSpec
INVARIANTS
    TypeOK
    Fifo
    NoLostWakeup
    OnlyAppSleeps
PROPERTIES
    Delivered
    ImplementsChannel
\* All messages are pushed and popped in the end.
CHECK_DEADLOCK FALSE
