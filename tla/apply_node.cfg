SPECIFICATION FairSpec
CONSTANTS
    a = a
    b = b
    c = c
    i1 = i1
    i2 = i2
    noid = noid
    k1 = k1
    k2 = k2
    none = none
    Names = {a, b, c}
    Ids = {i1, i2}
    NoId = noid
    ClientSets <- TwoSets
    Skels = {k1, k2}
    Nothing = none
    MaxPushes = 2
    MaxCerts = 1
    Faults = {"agentStop", "xrayCrash", "rpcError", "restartError", "writeError", "persistError", "nginxError"}
INVARIANTS
    TypeOK
    BaselineHonest
    FollowsPanel
    Seamless
PROPERTIES
    EventuallyRuns
