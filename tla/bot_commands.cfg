SPECIFICATION Spec
CONSTANTS
    t1 = t1
    t2 = t2
    w1 = w1
    w2 = w2
    off = off
    keep = keep
    Tokens = {t1, t2}
    NoToken = off
    Keep = keep
    Savers = {w1, w2}
    MaxChanges = 2
    MaxCmds = 2
    Faults = {"dbError", "getError"}
SYMMETRY SaverTokenPerms
INVARIANTS
    TypeOK
    OneBot
    StoredIsLive
    CommandOnce
    NoCommandLost
CHECK_DEADLOCK FALSE
