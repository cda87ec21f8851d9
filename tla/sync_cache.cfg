SPECIFICATION Spec
CONSTANTS
    x1 = x1
    w1 = w1
    w2 = w2
    Clients = {x1}
    Workers = {w1, w2}
    QueueCap = 1
    MaxEdits = 2
    MaxConns = 2
    Faults = {"writeError", "dbError", "panelRestart"}
SYMMETRY WorkerSymmetry
INVARIANTS
    TypeOK
    CacheHonest
