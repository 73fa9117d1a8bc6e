\* Code is typed on the primary, and added by scripts, while the cluster draws.  Two
\* state machines, four states, three events: two of them can occur together.
CONSTANTS
    Primary = primary
    Secondaries = {s1, s2}
    Capacity = 2
    MaxGui = 2
    MaxKernel = 2
    Replicas = {n1, n2}
    a = a  b = b  c = c  via = via
    e1 = e1  e2 = e2  e3 = e3
    States = {a, b, c, via}
    Nil = Nil
    Events = {e1, e2, e3}
    EventsOf <- MCEventsOf
    Chain <- MCChain
SPECIFICATION MCFairSpec
INVARIANTS
    ClusterConsistent
    OneStateInside
    OnlyTiesGoWrong
PROPERTIES
    LogSpec
    EveryoneRuns
    StopsTogether
