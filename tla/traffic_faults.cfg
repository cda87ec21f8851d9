SPECIFICATION Spec
CONSTANTS
    alice = alice
    bob = bob
    a1 = a1
    b1 = b1
    Users = {alice}
    Units = {a1}
    Owner <- OwnerOne
    MaxConns = 2
    MaxWire = 1
    Faults = {"agentStop", "wipe", "saveError", "rpcLost", "xrayRestart", "panelCrash", "dbError", "reassign", "writeError"}
INVARIANTS
    TypeOK
    NoWindowLost
    NoDoubleCount
CONSTRAINTS
    Promising
