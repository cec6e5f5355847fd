SPECIFICATION Spec
CONSTANTS
    Hosts = {h1}
    RemotePorts = {p1}
    Callers = {r1}
    Clients = {c1}
    Preparers = {}
    Maps = {m1}
    None = None
    WaitsForClients = TRUE
CHECK_DEADLOCK FALSE
INVARIANT NothingOwnedAfterClose
