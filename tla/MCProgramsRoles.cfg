\* Both options on one command line.
CONSTANTS
    Dirs <- MCDirs
    NoDir <- MCNoDir
    Parent <- MCParent
    ShareOf <- MCShareOf
    Cwd <- MCCwd
    ExeDir <- MCExeDir
    Disks <- MCDisks
    MaxArgs = 2
    MaxOptions = 1
    MaxLines = 1
    MaxUses = 2
    MaxSigints = 2
CHECK_DEADLOCK FALSE
SPECIFICATION Spec
INVARIANT OneRole
