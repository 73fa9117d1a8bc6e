\* Three feeders, blocking or not, and a chunk that adds one without blocking.
CONSTANTS
    NoThread = NoThread
    Producers = {p1, p2, p3}
    Consumer = kernel
    Capacity = 2
    MaxAdds = 1
    ProducerModes = {TRUE, FALSE}
    ConsumerModes = {FALSE}
SPECIFICATION FairSpec
CHECK_DEADLOCK FALSE
INVARIANTS
    AcceptedInOrder
    FrameBounded
    NoLostWakeup
PROPERTIES
    QueueSpec
    Progress
