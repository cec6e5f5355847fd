SPECIFICATION FairSpec
CONSTANTS
    Inbound = {i1, i2}
    Outbound = {o1, o2}
    None = None
    Authenticates = TRUE
    WaitsForClients = FALSE
    Faults = {"setup", "control", "auth", "cancel", "socket", "camera_leaves"}
CHECK_DEADLOCK FALSE
INVARIANTS ReturnsOnlyTheMapping RaisesClean OneSocketWins
PROPERTIES OpenerTerminates
