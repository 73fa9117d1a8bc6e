\* The command lines, devices and users of the three programs on seven file systems.
CONSTANTS
    Dirs <- MCDirs
    NoDir <- MCNoDir
    Parent <- MCParent
    ShareOf <- MCShareOf
    Cwd <- MCCwd
    ExeDir <- MCExeDir
    Disks <- MCDisks
    MaxArgs = 2
    MaxOptions = 1
    MaxLines = 1
    MaxUses = 2
    MaxSigints = 2
SPECIFICATION Spec
CHECK_DEADLOCK FALSE
INVARIANTS
    TypeOK
    StartUpComplete
    Configured
    LuaStateSafe
    FailureIsFinal
    SigintHandled
