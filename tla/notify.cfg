SPECIFICATION FairSpec
CONSTANTS
    u1 = u1
    Users = {u1}
    MaxConns = 2
    MaxFlips = 1
    Grace = 2
    Faults = {"deleteNode", "dbError", "postError", "panelRestart"}
INVARIANTS
    TypeOK
    QuietRestarts
    LastWord
PROPERTIES
    OutageTold
    LapseTold
CHECK_DEADLOCK FALSE
