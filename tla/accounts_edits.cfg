SPECIFICATION Spec
CONSTANTS
    u1 = u1
    u2 = u2
    n1 = n1
    n2 = n2
    w1 = w1
    w2 = w2
    gone = gone
    Ids = {u1, u2}
    First = {u1}
    NoRow = gone
    Nodes = {n1, n2}
    Workers = {w1, w2}
    Days = {0}
    MonthDays = 2
    MaxLimit = 1
    Ops = {"create", "update", "nodes", "uuid", "del", "reset", "botUpdate", "botDel", "botReset", "ingest", "delNode"}
    MaxOps = 2
    MaxDays = 0
    Faults = {"dbError"}
SYMMETRY WorkerPerms
INVARIANTS
    TypeOK
    BooksAgree
    HandlersSync
CHECK_DEADLOCK FALSE
