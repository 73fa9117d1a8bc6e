\* The callbacks of a frame, actions over three or four frames, a navigator, and every
\* set of overloads in every order.  Programs end, frames and actions run out.
CONSTANTS
    Delegates = {d1, d2}
    None = None
    MaxTime = 1
    MaxFrames = 2
    Action = {a1, a2, a3}
    NoAction = NoAction
    FrameBound = 4
    MaxDelta = 2
    MaxWait = 2
    MaxReading = 4
    Sticks <- MCSticks
    MaxVel = 4
    TicksToMax = 4
    TicksToStop = 2
    OneSecond = 2
    MaxFrameTicks = 3
    ScriptGoals <- MCScriptGoals
    Derived <- MCDerived
    Conversions <- MCConversions
    IsA <- MCIsA
    Direct <- MCDirect
    Signatures <- MCSignatures
    Arguments <- MCArguments
    MaxOverloads = 3
CHECK_DEADLOCK FALSE
SPECIFICATION MCSpec
SYMMETRY Symmetry
INVARIANTS
    DeltasAddUp
    ActionsTypeOK
    ListExact
    OnceInOrder
    WaitsExactly
    StateConsistent
    FrameRateIndependent
    GlideBounded
    BindingTypeOK
    OverloadsResolve
PROPERTIES
    WatchdogExact
    ReturnedIsAccepted
