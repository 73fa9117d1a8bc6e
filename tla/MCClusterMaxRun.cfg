\* One secondary is enough for code that never reaches it.
CONSTANTS
    Primary = primary
    Secondaries = {s1}
    Capacity = 2
    MaxGui = 1
    MaxKernel = 0
SPECIFICATION Spec
INVARIANT RunsOnlySynchronised
