\* The user writes two pieces of code and presses Run, or saves, twice.
CONSTANTS
    MaxCode = 2
    MaxTries = 2
CHECK_DEADLOCK FALSE
SPECIFICATION FairSpec
INVARIANTS
    TypeOK
    DisplayComplete
    CodeRunsOnce
    ThreadsKeepApart
    DisableIsKept
PROPERTY
    ShutsDown
