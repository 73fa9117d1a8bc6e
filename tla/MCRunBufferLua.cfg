\* The kernel thread adds through the Lua binding: `blocking` is whatever the
\* argument register holds.
CONSTANTS
    NoThread = NoThread
    Producers = {p1}
    Consumer = kernel
    Capacity = 2
    MaxAdds = 3
    ProducerModes = {TRUE, FALSE}
    ConsumerModes = {TRUE, FALSE}
SPECIFICATION FairSpec
CHECK_DEADLOCK FALSE
PROPERTIES
    ConsumerAddReturns
