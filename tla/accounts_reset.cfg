SPECIFICATION Spec
CONSTANTS
    u1 = u1
    u2 = u2
    n1 = n1
    n2 = n2
    w1 = w1
    w2 = w2
    gone = gone
    Ids = {u1}
    First = {u1}
    NoRow = gone
    Nodes = {n1}
    Workers = {w1}
    Days = {0, 1, 2}
    MonthDays = 2
    MaxLimit = 1
    Ops = {"update", "ingest"}
    MaxOps = 1
    MaxDays = 3
    Faults = {"panelCrash", "dbError", "offline"}
INVARIANTS
    HandlersSync
    ResetOnce
    MadeUp
