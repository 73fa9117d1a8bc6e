\* One piece of code is enough: no console loads, and the log is shown.
CONSTANTS
    MaxCode = 1
    MaxTries = 1
CHECK_DEADLOCK FALSE
SPECIFICATION Spec
INVARIANT LogStaysOpen
