SPECIFICATION FairSpec
CONSTANTS
    Conns = {c1}
    NoConn = NoConn
    Ports = {p1}
    IdSpace = 2
    MaxRetired = 1
    MaxMissed = 1
    MaxSend = 1
    MaxReceive = 1
    Beating = TRUE
    Faults = {"client_reset", "client_stalls", "tunnel_lost", "camera_dead", "owner_close"}
CHECK_DEADLOCK FALSE
INVARIANT NothingAfterClose
PROPERTIES DisconnectCompletes FailureCloses CloseCompletes
