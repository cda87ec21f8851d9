SPECIFICATION Spec
CONSTANTS
    root = root
    ann = ann
    usr = usr
    w1 = w1
    w2 = w2
    Admins = {root, ann}
    Boot = root
    Portal = usr
    First = {root, ann}
    Workers = {w1, w2}
    Ops = {"login", "create", "delete", "password", "logoutAll", "setup", "verify", "disable", "portalSet", "portalClear", "portalChange", "reset", "resetClear"}
    MaxOps = 4
    Faults = {"dbError", "panelRestart"}
SYMMETRY WorkerPerms
INVARIANTS
    TypeOK
    SomeAdmin
    RevokedStaysRevoked
    TwoFactorKept
CHECK_DEADLOCK FALSE
