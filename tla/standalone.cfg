SPECIFICATION Spec
CONSTANTS
    a = a
    b = b
    p1 = p1
    p2 = p2
    none = none
    broken = broken
    Names = {a, b}
    Procs = {p1, p2}
    Nothing = none
    Broken = broken
    MaxCmds = 4
    Faults = {"kill", "writeError", "rpcError", "restartError", "xrayCrash"}
SYMMETRY Perms
CONSTRAINTS
    Short
INVARIANTS
    TypeOK
    RemovedIsOut
    ServesListed
CHECK_DEADLOCK FALSE
