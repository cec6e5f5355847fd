SPECIFICATION FairSpec
CONSTANTS
    Inbound = {i1}
    Outbound = {o1}
    None = None
    Authenticates = TRUE
    WaitsForClients = TRUE
    Faults = {}
CHECK_DEADLOCK FALSE
PROPERTY OpenerTerminates
