SPECIFICATION Spec
CONSTANTS
    Conns = {c1, c2, c3}
    NoConn = NoConn
    Ports = {p1}
    IdSpace = 2
    MaxRetired = 1
    MaxMissed = 1
    MaxSend = 0
    MaxReceive = 1
    Beating = FALSE
    Faults = {"camera_stray"}
CONSTRAINT Short
SYMMETRY Symmetry
CHECK_DEADLOCK FALSE
INVARIANTS TypeOK IdsUnique RetiredWindow StraysNeverReorder
