SPECIFICATION FairSpec
CONSTANTS
    x1 = x1
    w1 = w1
    w2 = w2
    Clients = {x1}
    Workers = {w1}
    QueueCap = 1
    MaxEdits = 2
    MaxConns = 2
    Faults = {"dbError", "writeError", "panelRestart"}
PROPERTIES
    ConvergesUnlessMisled
