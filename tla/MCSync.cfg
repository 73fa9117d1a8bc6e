\* More files than the buffer holds; patient and impatient users.
CONSTANTS
    Capacity = 2
    MaxEarly = 3
    MaxGui = 3
CHECK_DEADLOCK FALSE
SPECIFICATION FairSpec
INVARIANTS
    RunsOnce
    EarlyBirdsKept
    SecondaryOverruled
    OneLateBird
PROPERTY
    AcceptedRuns
