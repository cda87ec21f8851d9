SPECIFICATION DeviceFairSpec
CONSTANTS
    k1 = k1
    k2 = k2
    Lines = {k1, k2}
    MaxGens = 1
    DeviceFaults = {"partial", "saveError", "agentStop", "sendError", "deleteUser", "age"}
INVARIANTS
    DeviceTypeOK
    CountedOnce
    NoneSkipped
PROPERTIES
    RowsExpire
CHECK_DEADLOCK FALSE
