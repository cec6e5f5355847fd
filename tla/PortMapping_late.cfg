SPECIFICATION Spec
CONSTANTS
    Conns = {c1}
    NoConn = NoConn
    Ports = {p1}
    IdSpace = 2
    MaxRetired = 1
    MaxMissed = 1
    MaxSend = 1
    MaxReceive = 1
    Beating = FALSE
    Faults = {}
CHECK_DEADLOCK FALSE
INVARIANT LateDataHarmless
