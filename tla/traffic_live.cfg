SPECIFICATION FairSpec
CONSTANTS
    alice = alice
    bob = bob
    a1 = a1
    b1 = b1
    Users = {alice, bob}
    Units = {a1, b1}
    Owner <- OwnerMix
    MaxConns = 2
    MaxWire = 1
    Faults = {"agentStop", "panelCrash", "writeError"}
PROPERTIES
    ImplementsLedger
    EventuallyCounted
