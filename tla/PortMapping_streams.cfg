SPECIFICATION Spec
CONSTANTS
    Conns = {c1, c2}
    NoConn = NoConn
    Ports = {p1, p2}
    IdSpace = 3
    MaxRetired = 2
    MaxMissed = 1
    MaxSend = 1
    MaxReceive = 1
    Beating = FALSE
    Faults = {}
SYMMETRY Symmetry
CHECK_DEADLOCK FALSE
INVARIANTS LocalIntegrity UpOrdered NoProtocolError
